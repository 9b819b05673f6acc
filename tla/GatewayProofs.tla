--------------------------- MODULE GatewayProofs ---------------------------
(***************************************************************************)
(* Proofs about the parts of the gateway that MCGateway checks side by     *)
(* side: they share no variable, so each is proved of its own              *)
(* specification.                                                          *)
(***************************************************************************)
EXTENDS Integers, Supervision, Gate, Health, NremSchedule, Capacity, Encoders,
        Ingress, FiniteSetTheorems, TLAPS

-----------------------------------------------------------------------------
(***************************************************************************)
(* Supervision: tokens, processes and health flags of the daemons.         *)
(***************************************************************************)
\* With at most the latest token honoured, a mint leaves the new one alone and a
\* revocation leaves none.
LEMMA OneToken ==
    ASSUME TokenFollowsProcess, NEW d \in Daemons
    PROVE  Minted(d) = {mints + 1} /\ Unrevoked(d) = {}
  BY DEF TokenFollowsProcess, Minted, Unrevoked

\* The end of a watchdog takes its daemon's token back.
LEMMA LeaveWatchTakesBack ==
    ASSUME SupInv, NEW d \in Daemons, NEW how, LeaveWatch(d, how)
    PROVE  /\ watch' = [watch EXCEPT ![d] = how]
           /\ digests' = [digests EXCEPT ![d] = {}] /\ latest' = [latest EXCEPT ![d] = 0]
  BY OneToken DEF LeaveWatch, Revoke, SupInv, DaemonsAreSupervised

LEMMA SupTypeStep == ASSUME SupInv, [SupNext]_supVars PROVE SupTypeOK'
<1> USE DEF SupTypeOK, Waiting, Ended, Gates
<1>0. SupTypeOK
  BY DEF SupInv
<1>1. ASSUME NEW d \in Daemons, NEW found \in {"unreadable", "no_script", "no_pipe", "ready"},
             Probe(d, found)
      PROVE  SupTypeOK'
  <2>1. CASE found = "unreadable"
    BY <1>0, <1>1, <2>1 DEF Probe
  <2>2. CASE found \in {"no_script", "no_pipe"}
    <3>1. PICK how \in {"done", "failed"} : LeaveWatch(d, how)
      BY <1>1, <2>2 DEF Probe
    <3>2. /\ watch' = [watch EXCEPT ![d] = how]
          /\ digests' = [digests EXCEPT ![d] = {}] /\ latest' = [latest EXCEPT ![d] = 0]
      BY <3>1, LeaveWatchTakesBack
    <3>3. /\ healthy' \in [Daemons -> BOOLEAN] /\ unreadable' = FALSE
          /\ UNCHANGED <<gate, proc, code, held, mints, crashes, late>>
      BY <1>0, <1>1, <2>2 DEF Probe
    <3> QED
      BY <1>0, <3>2, <3>3
  <2>3. CASE found = "ready"
    <3>1. /\ mints' = mints + 1 /\ latest' = [latest EXCEPT ![d] = mints + 1]
          /\ digests' = [digests EXCEPT ![d] = {mints + 1}]
      BY <1>1, <2>3, OneToken DEF Probe, Mint, SupInv, DaemonsAreSupervised
    <3>2. /\ watch' = [watch EXCEPT ![d] = "spawn"] /\ unreadable' = FALSE
          /\ UNCHANGED <<healthy, gate, proc, code, held, crashes, late>>
      BY <1>1, <2>3 DEF Probe
    <3>3. mints + 1 \in Nat /\ {mints + 1} \in SUBSET Nat
      BY <1>0
    <3>4. digests' \in [Daemons -> SUBSET Nat]
      BY <1>0, <3>1, <3>3
    <3> QED
      BY <1>0, <3>1, <3>2, <3>3, <3>4
  <2> QED
    BY <2>1, <2>2, <2>3
<1>2. ASSUME NEW d \in Daemons, Again(d) PROVE SupTypeOK'
  BY <1>0, <1>2, LeaveWatchTakesBack DEF Again
<1>3. ASSUME NEW d \in Daemons, NEW spawned \in BOOLEAN, Spawn(d, spawned) PROVE SupTypeOK'
  <2>1. CASE spawned
    <3>1. /\ proc' = [proc EXCEPT ![d] = "running"] /\ held' = [held EXCEPT ![d] = latest[d]]
          /\ healthy' = [healthy EXCEPT ![d] = TRUE] /\ watch' = [watch EXCEPT ![d] = "run"]
          /\ late' \subseteq Daemons
          /\ UNCHANGED <<digests, latest, gate, code, mints, crashes, unreadable>>
      BY <1>0, <1>3, <2>1 DEF Spawn
    <3> QED
      BY <1>0, <3>1
  <2>2. CASE ~spawned
    BY <1>0, <1>3, <2>2, LeaveWatchTakesBack DEF Spawn
  <2> QED
    BY <2>1, <2>2
<1>4. ASSUME NEW d \in Daemons, NEW c \in {"ok", "crash"}, Exit(d, c) PROVE SupTypeOK'
  BY <1>0, <1>4 DEF Exit
<1>5. ASSUME NEW d \in Daemons, Notice(d) PROVE SupTypeOK'
  BY <1>0, <1>5, LeaveWatchTakesBack DEF Notice
<1>6. ASSUME NEW d \in Daemons, CrashAges(d) PROVE SupTypeOK'
  BY <1>0, <1>6 DEF CrashAges
<1>7. CASE Signal
  BY <1>0, <1>7 DEF Signal
<1>8. ASSUME NEW p \in [Daemons -> {"none", "running", "told", "exited"}], LookAtRem(p) \/ Join(p),
             UNCHANGED <<code, held, mints, crashes, healthy, unreadable, late>>
      PROVE  SupTypeOK'
  <2>1. CASE Join(p)
    <3>1. digests' = [d \in Daemons |-> {}]
      BY <2>1, OneToken DEF Join, SupInv, DaemonsAreSupervised
    <3> QED
      BY <1>0, <1>8, <2>1, <3>1 DEF Join, Cancelled
  <2>2. CASE ~Join(p)
    BY <1>0, <1>8, <2>2 DEF LookAtRem, Told
  <2> QED
    BY <2>1, <2>2
<1>9. CASE Drained
  BY <1>0, <1>8, <1>9 DEF Drained, Told
<1>10. CASE NremGone \/ RemGone
  BY <1>0, <1>8, <1>10 DEF NremGone, RemGone, Killed
<1>11. CASE UNCHANGED supVars
  BY <1>0, <1>11 DEF supVars
<1> QED
  BY <1>1, <1>2, <1>3, <1>4, <1>5, <1>6, <1>7, <1>9, <1>10, <1>11 DEF SupNext

\* What a step may do to one daemon, told apart by what its watchdog becomes.
LEMMA WatchMoves ==
    ASSUME SupInv, [SupNext]_supVars, NEW d \in Daemons
    PROVE  \/ /\ watch'[d] = watch[d] /\ digests'[d] = digests[d] /\ latest'[d] = latest[d]
              /\ held'[d] = held[d] /\ healthy'[d] = healthy[d]
           \/ /\ watch'[d] \in Ended /\ digests'[d] = {}
              /\ healthy'[d] => watch'[d] = "cancelled"
           \/ /\ watch'[d] \in {"probe", "unreadable", "backoff"} /\ ~healthy'[d]
              /\ digests'[d] \subseteq {latest'[d]}
           \/ watch'[d] = "spawn" /\ ~healthy'[d] /\ digests'[d] = {latest'[d]}
           \/ watch'[d] = "run" /\ digests'[d] = {held'[d]} /\ held'[d] = latest'[d]
<1> DEFINE Goal ==
           \/ /\ watch'[d] = watch[d] /\ digests'[d] = digests[d] /\ latest'[d] = latest[d]
              /\ held'[d] = held[d] /\ healthy'[d] = healthy[d]
           \/ /\ watch'[d] \in Ended /\ digests'[d] = {}
              /\ healthy'[d] => watch'[d] = "cancelled"
           \/ /\ watch'[d] \in {"probe", "unreadable", "backoff"} /\ ~healthy'[d]
              /\ digests'[d] \subseteq {latest'[d]}
           \/ watch'[d] = "spawn" /\ ~healthy'[d] /\ digests'[d] = {latest'[d]}
           \/ watch'[d] = "run" /\ digests'[d] = {held'[d]} /\ held'[d] = latest'[d]
<1>0. /\ SupTypeOK /\ digests[d] \subseteq {latest[d]} /\ (watch[d] = "spawn" => digests[d] = {latest[d]})
      /\ watch[d] \in Ended => digests[d] = {}
      /\ healthy[d] => watch[d] \in {"run", "cancelled"}
  BY DEF SupInv, DaemonsAreSupervised, TokenFollowsProcess, TokenIsMinted, HealthyIsWatched
<1>1. ASSUME NEW e \in Daemons, NEW how \in {"done", "failed"}, LeaveWatch(e, how),
             held' = held, \/ healthy' = [healthy EXCEPT ![e] = FALSE]
                           \/ healthy' = healthy /\ watch[e] \notin {"run", "cancelled"}
      PROVE  Goal
  <2>1. /\ watch' = [watch EXCEPT ![e] = how]
        /\ digests' = [digests EXCEPT ![e] = {}] /\ latest' = [latest EXCEPT ![e] = 0]
    BY <1>1, LeaveWatchTakesBack
  <2>2. CASE e = d
    BY <1>0, <1>1, <2>1, <2>2 DEF SupTypeOK, Ended
  <2>3. CASE e # d
    BY <1>0, <1>1, <2>1, <2>3 DEF SupTypeOK
  <2> QED
    BY <2>2, <2>3
<1>2. ASSUME NEW e \in Daemons, NEW found \in {"unreadable", "no_script", "no_pipe", "ready"},
             Probe(e, found)
      PROVE  Goal
  <2>1. CASE found = "unreadable"
    BY <1>0, <1>2, <2>1 DEF Probe, SupTypeOK
  <2>2. CASE found \in {"no_script", "no_pipe"}
    BY <1>1, <1>2, <2>2 DEF Probe
  <2>3. CASE found = "ready"
    <3>1. /\ latest' = [latest EXCEPT ![e] = mints + 1]
          /\ digests' = [digests EXCEPT ![e] = {mints + 1}]
          /\ watch' = [watch EXCEPT ![e] = "spawn"] /\ healthy' = healthy /\ held' = held
          /\ watch[e] = "probe"
      BY <1>2, <2>3, OneToken DEF Probe, Mint, SupInv, DaemonsAreSupervised
    <3> QED
      BY <1>0, <3>1 DEF SupTypeOK
  <2> QED
    BY <2>1, <2>2, <2>3
<1>3. ASSUME NEW e \in Daemons, Again(e) PROVE Goal
  <2>1. CASE LeaveWatch(e, "done")
    BY <1>1, <1>3, <2>1 DEF Again
  <2>2. CASE ~LeaveWatch(e, "done")
    BY <1>0, <1>3, <2>2 DEF Again, SupTypeOK
  <2> QED
    BY <2>1, <2>2
<1>4. ASSUME NEW e \in Daemons, NEW spawned \in BOOLEAN, Spawn(e, spawned) PROVE Goal
  <2>1. CASE spawned
    <3>1. /\ held' = [held EXCEPT ![e] = latest[e]]
          /\ healthy' = [healthy EXCEPT ![e] = TRUE] /\ watch' = [watch EXCEPT ![e] = "run"]
          /\ digests' = digests /\ latest' = latest /\ watch[e] = "spawn"
      BY <1>4, <2>1 DEF Spawn
    <3> QED
      BY <1>0, <3>1 DEF SupTypeOK
  <2>2. CASE ~spawned
    BY <1>1, <1>4, <2>2 DEF Spawn
  <2> QED
    BY <2>1, <2>2
<1>5. ASSUME NEW e \in Daemons, Notice(e) PROVE Goal
  <2>1. CASE LeaveWatch(e, "done")
    BY <1>1, <1>5, <2>1 DEF Notice
  <2>2. CASE ~LeaveWatch(e, "done")
    BY <1>0, <1>5, <2>2 DEF Notice, SupTypeOK
  <2> QED
    BY <2>1, <2>2
<1>6. ASSUME NEW p, Join(p), healthy' = healthy PROVE Goal
  <2>1. digests'[d] = {} /\ watch'[d] = IF watch[d] \in Waiting THEN "cancelled" ELSE watch[d]
    BY <1>6, OneToken DEF Join, Cancelled, SupInv, DaemonsAreSupervised
  <2> QED
    BY <1>0, <1>6, <2>1 DEF SupTypeOK, Waiting, Ended
<1>7. CASE Drained \/ NremGone \/ RemGone
  BY <1>6, <1>7 DEF Drained, NremGone, RemGone, LookAtRem
<1>8. CASE UNCHANGED <<watch, digests, latest, held, healthy>>
  BY <1>8
<1> QED
  BY <1>2, <1>3, <1>4, <1>5, <1>7, <1>8 DEF SupNext, Exit, CrashAges, Signal, supVars

\* A watchdog that has ended stays so.
LEMMA EndedStays ==
    ASSUME SupTypeOK, [SupNext]_supVars, NEW d \in Daemons, watch[d] \in Ended
    PROVE  watch'[d] = watch[d]
<1> USE DEF SupTypeOK, Ended, Waiting
<1>1. ASSUME NEW p, Join(p) \/ LookAtRem(p) PROVE watch'[d] = watch[d]
  BY <1>1 DEF Join, LookAtRem, Cancelled
<1>2. CASE Drained \/ NremGone \/ RemGone
  BY <1>1, <1>2 DEF Drained, NremGone, RemGone
<1>3. ASSUME NEW e \in Daemons, NEW how, watch[e] \in Waiting, watch' = [watch EXCEPT ![e] = how]
      PROVE  watch'[d] = watch[d]
  BY <1>3
<1>4. ASSUME NEW e \in Daemons, \/ Again(e) \/ Notice(e)
                                \/ \E found \in {"unreadable", "no_script", "no_pipe", "ready"} : Probe(e, found)
                                \/ \E spawned \in BOOLEAN : Spawn(e, spawned)
      PROVE  watch'[d] = watch[d]
  BY <1>3, <1>4 DEF Again, Notice, Probe, Spawn, LeaveWatch
<1> QED
  BY <1>2, <1>4 DEF SupNext, Exit, CrashAges, Signal, supVars

\* What the drain has dealt with does not come back, but for what is spawned late.
LEMMA DrainStep ==
    ASSUME SupInv, [SupNext]_supVars PROVE DrainInv' /\ NoOrphan'
<1> USE SupervisionAssumption DEF DrainInv, NoOrphan, Live
<1>0. SupTypeOK /\ DrainInv /\ NoOrphan /\ SupTypeOK'
  BY SupTypeStep DEF SupInv, DaemonsAreSupervised
<1>1. CASE UNCHANGED <<gate, proc, late>>
  <2>1. gate \in {"stopped", "crashed"} => \A d \in Daemons : watch'[d] \in Ended
    BY <1>0, EndedStays
  <2> QED
    BY <1>0, <1>1, <2>1
<1>2. ASSUME NEW d \in Daemons, Spawn(d, TRUE) PROVE DrainInv' /\ NoOrphan'
  <2>1. gate' = gate /\ gate \notin {"stopped", "crashed"}
    BY <1>0, <1>2 DEF Spawn, Ended
  <2>2. /\ proc' = [proc EXCEPT ![d] = "running"]
        /\ late' = IF Looked[d] THEN late \cup {d} ELSE late
    BY <1>2 DEF Spawn
  <2>3. \A e \in Daemons : proc'[e] = "told" => proc[e] = "told"
    BY <1>0, <2>2 DEF SupTypeOK
  <2>4. gate = "term_rem" /\ "nrem" \notin late' => ~Live("nrem")'
    <3>1. CASE d = "nrem"
      BY <2>2, <3>1 DEF Looked
    <3>2. CASE d = "rem"
      BY <1>0, <2>2, <3>2 DEF SupTypeOK
    <3> QED
      BY <3>1, <3>2
  <2> QED
    BY <1>0, <2>1, <2>3, <2>4
<1>3. ASSUME NEW d \in Daemons, NEW c \in {"ok", "crash"}, Exit(d, c) PROVE DrainInv' /\ NoOrphan'
  BY <1>0, <1>3 DEF Exit, SupTypeOK
<1>4. CASE Signal
  BY <1>0, <1>4 DEF Signal, SupTypeOK
<1>5. ASSUME NEW p, Join(p) PROVE gate' \in {"stopped", "crashed"} /\ \A d \in Daemons : watch'[d] \in Ended
  BY <1>0, <1>5 DEF Join, Cancelled, SupTypeOK, Waiting, Ended
<1>6. ASSUME NEW p, LookAtRem(p), late' = late, p["rem"] # "told",
             "nrem" \notin late => p["nrem"] \notin {"running", "told"},
             p \in [Daemons -> {"none", "running", "told", "exited"}]
      PROVE  DrainInv' /\ NoOrphan'
  <2>1. CASE p["rem"] = "running"
    BY <1>6, <2>1 DEF LookAtRem, Told
  <2>2. CASE p["rem"] # "running"
    BY <1>5, <1>6, <2>2 DEF LookAtRem, Join
  <2> QED
    BY <2>1, <2>2
<1>7. CASE Drained
  <2>1. CASE proc["nrem"] = "running"
    BY <1>0, <1>7, <2>1 DEF Drained, Told, SupTypeOK
  <2>2. CASE proc["nrem"] # "running"
    BY <1>0, <1>6, <1>7, <2>2 DEF Drained, SupTypeOK
  <2> QED
    BY <2>1, <2>2
<1>8. CASE NremGone
  <2> DEFINE p == Killed("nrem")
  <2>1. LookAtRem(p) /\ late' = late /\ proc["rem"] # "told"
    BY <1>0, <1>8 DEF NremGone
  <2>2. p \in [Daemons -> {"none", "running", "told", "exited"}]
        /\ p["nrem"] = "exited" /\ p["rem"] = proc["rem"]
    BY <1>0 DEF Killed, SupTypeOK
  <2> HIDE DEF p
  <2> QED
    BY <1>6, <2>1, <2>2
<1>9. CASE RemGone
  BY <1>0, <1>5, <1>9 DEF RemGone, Killed, SupTypeOK, Join
<1> QED
  BY <1>1, <1>2, <1>3, <1>4, <1>7, <1>8, <1>9
     DEF SupNext, Probe, Again, Notice, CrashAges, Spawn, supVars

\* Whatever the daemons and the shutdown do: a token is honoured only for the process
\* that holds it, no process outlives the drain unless it was spawned after it, and
\* only a watched daemon is called healthy.
THEOREM SupervisionCorrect == SupSpec => []DaemonsAreSupervised
<1>1. SupInit => SupInv
  <2> SUFFICES ASSUME SupInit PROVE SupInv
    OBVIOUS
  <2>1. SupTypeOK
    BY DEF SupInit, SupTypeOK, Waiting, Ended, Gates
  <2>2. TokenIsMinted /\ DaemonsAreSupervised
    BY DEF SupInit, TokenIsMinted, DaemonsAreSupervised, TokenFollowsProcess, NoOrphan,
           HealthyIsWatched, Ended
  <2>3. DrainInv
    BY SupervisionAssumption DEF SupInit, DrainInv
  <2> QED
    BY <2>1, <2>2, <2>3 DEF SupInv
<1>2. SupInv /\ [SupNext]_supVars => SupInv'
  <2> SUFFICES ASSUME SupInv, [SupNext]_supVars PROVE SupInv'
    OBVIOUS
  <2>1. SupTypeOK /\ SupTypeOK'
    BY SupTypeStep DEF SupInv
  <2>2. ASSUME NEW d \in Daemons
        PROVE  /\ watch'[d] = "spawn" => digests'[d] = {latest'[d]}
               /\ watch'[d] = "run" => digests'[d] = {held'[d]}
               /\ digests'[d] \subseteq {latest'[d]}
               /\ watch'[d] \in Ended => digests'[d] = {}
               /\ healthy'[d] => watch'[d] \in {"run", "cancelled"}
    BY <2>1, WatchMoves
       DEF SupInv, TokenIsMinted, DaemonsAreSupervised, TokenFollowsProcess, HealthyIsWatched, Ended
  <2> QED
    BY <2>1, <2>2, DrainStep
       DEF SupInv, TokenIsMinted, DaemonsAreSupervised, TokenFollowsProcess, HealthyIsWatched
<1>3. SupInv => DaemonsAreSupervised
  BY DEF SupInv
<1> QED
  BY <1>1, <1>2, <1>3, PTL DEF SupSpec

-----------------------------------------------------------------------------
(***************************************************************************)
(* Gate: roles.                                                            *)
(***************************************************************************)
\* A mint for a name that may only read is refused or leaves it so.
LEMMA MintsNarrow == MintNeverWidens
<1> SUFFICES ASSUME NEW name \in Names, NEW explicit \in Roles \cup {"none"},
                    NEW declared \in Roles \cup {"none"},
                    MintedRole(name, explicit, declared) # "refused",
                    EffectiveRole(name, declared) = "read"
             PROVE  EffectiveRole(name, Enforced(name, MintedRole(name, explicit, declared))) = "read"
  BY DEF MintNeverWidens
<1>1. CASE name \in ReadOnlyAgents
  BY <1>1 DEF EffectiveRole
<1>2. CASE name \notin ReadOnlyAgents /\ name = MAINTENANCE_ADMIN_AGENT
  <2>1. declared = "read"
    BY <1>2 DEF EffectiveRole
  <2>2. MintedRole(name, explicit, declared) = "read"
    BY <1>2, <2>1 DEF MintedRole, Roles
  <2> QED
    BY <1>2, <2>2 DEF EffectiveRole, Enforced
<1>3. CASE name \notin ReadOnlyAgents /\ name # MAINTENANCE_ADMIN_AGENT
  <2>1. declared = "read"
    BY <1>3 DEF EffectiveRole, Roles
  <2>2. MintedRole(name, explicit, declared) = "read"
    BY <1>3, <2>1 DEF MintedRole, Roles
  <2> QED
    BY <1>3, <2>2 DEF EffectiveRole, Enforced, Roles
<1> QED
  BY <1>1, <1>2, <1>3

\* Whose token it is: an agent's, or nobody's.
LEMMA IdentityIsKnown ==
    ASSUME NEW token \in Tokens, NEW exact
    PROVE  Identity(token, exact) \in Names \cup {"unknown"}
<1>1. Holder[token] \subseteq Names
  BY DEF Holder, Names
<1> QED
  BY <1>1 DEF Identity

\* What passes a guarded route stays within the role's routes.
LEMMA PassesIsConfined ==
    ASSUME NEW token \in Tokens, NEW exact, NEW attested, NEW kind \in RouteKinds, kind # "open",
           NEW name, name = Identity(token, exact), Passes(name, kind, attested)
    PROVE  /\ name \in ReadOnlyAgents => kind = "read"
           /\ name = MAINTENANCE_ADMIN_AGENT => kind \in {"read", "admin"}
<1>1. CASE ~AuthConfigured
  <2>1. Holder[token] = {}
    BY <1>1 DEF Holder, AuthConfigured
  <2>2. name = "unknown"
    BY <2>1 DEF Identity
  <2> QED
    BY <2>2, GateAssumption
<1>2. CASE AuthConfigured
  <2>1. Permitted(name, kind, attested)
    BY <1>2 DEF Passes
  <2>2. name \in ReadOnlyAgents => EffectiveRole(name, Declared[name]) = "read"
    BY DEF EffectiveRole
  <2>3. name = MAINTENANCE_ADMIN_AGENT => EffectiveRole(name, Declared[name]) \in {"read", "admin"}
    BY DEF EffectiveRole
  <2> QED
    BY <2>1, <2>2, <2>3 DEF Permitted
<1> QED
  BY <1>1, <1>2

-----------------------------------------------------------------------------
(***************************************************************************)
(* Gate: the audit of refused tokens.                                      *)
(***************************************************************************)
\* A flood line put into the queue evicts nothing, any other at most one line.
LEMMA PutKeeps ==
    ASSUME NEW q \in Seq(AuditLines), NEW line \in AuditLines
    PROVE  LET r == Put(q, line)
           IN  /\ r.q \in Seq(AuditLines) /\ r.new \in 0..1 /\ r.lost \in 0..1 /\ r.out = 0
               /\ line = "flood" => Len(r.q) = Len(q) + r.new
               /\ line = "genuine" => r.new = 1 /\ Len(r.q) = Len(q) + 1 - r.lost
<1>1. CASE Len(q) < QUEUE_MAX
  <2>1. Append(q, line) \in Seq(AuditLines) /\ Len(Append(q, line)) = Len(q) + 1
    OBVIOUS
  <2> QED
    BY <1>1, <2>1 DEF Put
<1>2. CASE ~(Len(q) < QUEUE_MAX) /\ line = "genuine"
  <2>1. q # <<>>
    BY <1>2, GateAssumption
  <2>2. Tail(q) \in Seq(AuditLines) /\ Len(Tail(q)) = Len(q) - 1
    BY <2>1
  <2>3. Append(Tail(q), line) \in Seq(AuditLines) /\ Len(Append(Tail(q), line)) = Len(q)
    BY <2>2
  <2> QED
    BY <1>2, <2>3 DEF Put, Evicts
<1>3. CASE ~(Len(q) < QUEUE_MAX) /\ line = "flood"
  BY <1>3 DEF Put, Evicts
<1> QED
  BY <1>1, <1>2, <1>3 DEF AuditLines

\* The part of GateInv that is about the audit.
AuditInv ==
    /\ bucket \in [Doors -> Nat] /\ suppressed \in [Doors -> Nat]
    /\ failures \in Nat /\ told \in Nat /\ pending \in Nat /\ dropped \in Nat
    /\ evicted \in Nat /\ boots \in Nat
    /\ queue \in Seq(AuditLines) /\ writer \in AuditLines \cup {"none"}
    /\ closing \in {"open", "flushing", "closed"}
    /\ TasksAreLines
    /\ evicted = 0 /\ failures = told + suppressed["open"] + suppressed["guarded"]
    /\ closing = "closed" => queue = <<>>

\* The sum of the two counters of suppressed lines.
LEMMA DoorSum ==
    ASSUME NEW s \in [Doors -> Nat], NEW t \in [Doors -> Nat], NEW door \in Doors,
           \A e \in Doors \ {door} : t[e] = s[e]
    PROVE  t["open"] + t["guarded"] + s[door] = s["open"] + s["guarded"] + t[door]
<1>1. CASE door = "open"
  BY <1>1 DEF Doors
<1>2. CASE door = "guarded"
  BY <1>2 DEF Doors
<1> QED
  BY <1>1, <1>2 DEF Doors

\* A refused token: its line and the count before it are flood lines.
LEMMA VerifyFailedKeeps ==
    ASSUME AuditInv, closing = "open", NEW door \in Doors, VerifyFailed(door)
    PROVE  AuditInv'
<1> DEFINE w == IF writer = "none" THEN 0 ELSE 1
<1>0. UNCHANGED <<writer, boots, closing>> /\ failures' = failures + 1
  BY DEF VerifyFailed
<1>1. /\ bucket \in [Doors -> Nat] /\ suppressed \in [Doors -> Nat] /\ failures \in Nat
      /\ told \in Nat /\ pending \in Nat /\ dropped \in Nat /\ boots \in Nat /\ evicted = 0
      /\ queue \in Seq(AuditLines) /\ Len(queue) \in Nat /\ w \in 0..1
      /\ failures = told + suppressed["open"] + suppressed["guarded"]
      /\ suppressed["open"] \in Nat /\ suppressed["guarded"] \in Nat /\ suppressed[door] \in Nat
  BY DEF AuditInv, Doors
<1>2. /\ Len(queue) + w <= pending /\ pending <= Len(queue) + w + boots
      /\ pending <= Len(queue) + w + dropped
  BY DEF AuditInv, TasksAreLines, Waited
<1>3. CASE bucket[door] = 0
  <2>1. /\ suppressed' = [suppressed EXCEPT ![door] = suppressed[door] + 1]
        /\ UNCHANGED <<bucket, told, queue, pending, dropped, evicted>>
    BY <1>3 DEF VerifyFailed
  <2>2. /\ suppressed' \in [Doors -> Nat] /\ suppressed'[door] = suppressed[door] + 1
        /\ \A e \in Doors \ {door} : suppressed'[e] = suppressed[e]
    BY <1>1, <2>1
  <2>3. suppressed'["open"] + suppressed'["guarded"] + suppressed[door]
          = suppressed["open"] + suppressed["guarded"] + suppressed'[door]
    BY <1>1, <2>2, DoorSum
  <2>4. failures' = told' + suppressed'["open"] + suppressed'["guarded"] /\ failures' \in Nat
    <3>1. suppressed'["open"] \in Nat /\ suppressed'["guarded"] \in Nat
      BY <2>2 DEF Doors
    <3>2. told' \in Nat /\ suppressed'[door] \in Nat /\ told' + suppressed'[door] = told + suppressed[door] + 1
      BY <1>1, <2>1, <2>2
    <3>3. failures' = failures + 1 /\ failures = told + suppressed["open"] + suppressed["guarded"]
      BY <1>0, <1>1
    <3>4. /\ failures \in Nat /\ told \in Nat /\ suppressed[door] \in Nat
          /\ suppressed["open"] \in Nat /\ suppressed["guarded"] \in Nat
      BY <1>1
    <3>5. failures' \in Nat
      BY <3>3, <3>4
    <3> QED
      BY <2>3, <3>1, <3>2, <3>3, <3>4, <3>5
  <2> QED
    BY <1>0, <1>1, <2>1, <2>2, <2>4 DEF AuditInv, TasksAreLines, Waited
<1>4. CASE bucket[door] # 0
  <2> DEFINE summary == IF suppressed[door] > 0 THEN Put(queue, "flood") ELSE NoLine
             line == Put(summary.q, "flood")
  <2>1. /\ bucket' = [bucket EXCEPT ![door] = bucket[door] - 1]
        /\ suppressed' = [suppressed EXCEPT ![door] = 0]
        /\ told' = told + suppressed[door] + 1 /\ Written(summary, line)
    BY <1>4 DEF VerifyFailed
  <2>2. bucket' \in [Doors -> Nat]
    <3>1. bucket[door] - 1 \in Nat
      BY <1>1, <1>4
    <3> QED
      BY <1>1, <2>1, <3>1
  <2>3. /\ suppressed' \in [Doors -> Nat] /\ suppressed'[door] = 0
        /\ \A e \in Doors \ {door} : suppressed'[e] = suppressed[e]
    BY <1>1, <2>1
  <2>4. told' \in Nat /\ failures' \in Nat /\ failures' = told' + suppressed'["open"] + suppressed'["guarded"]
    <3>1. suppressed'["open"] + suppressed'["guarded"] + suppressed[door]
            = suppressed["open"] + suppressed["guarded"] + suppressed'[door]
      BY <1>1, <2>3, DoorSum
    <3>2. suppressed'["open"] \in Nat /\ suppressed'["guarded"] \in Nat
      BY <2>3 DEF Doors
    <3>3. told' \in Nat /\ suppressed'[door] \in Nat /\ told' + suppressed'[door] = told + suppressed[door] + 1
      <4>1. told' = told + suppressed[door] + 1 /\ suppressed'[door] = 0
        BY <2>1, <2>3
      <4>2. told \in Nat /\ suppressed[door] \in Nat
        BY <1>1
      <4> QED
        BY <4>1, <4>2
    <3>4. failures' = failures + 1 /\ failures = told + suppressed["open"] + suppressed["guarded"]
      BY <1>0, <1>1
    <3>5. /\ failures \in Nat /\ told \in Nat /\ suppressed[door] \in Nat
          /\ suppressed["open"] \in Nat /\ suppressed["guarded"] \in Nat
      BY <1>1
    <3> QED
      BY <3>1, <3>2, <3>3, <3>4, <3>5
  <2>5. /\ summary.q \in Seq(AuditLines) /\ summary.new \in 0..1 /\ summary.lost \in 0..1
        /\ summary.out = 0 /\ Len(summary.q) = Len(queue) + summary.new
    BY <1>1, PutKeeps DEF NoLine, AuditLines
  <2>6. /\ line.q \in Seq(AuditLines) /\ line.new \in 0..1 /\ line.lost \in 0..1
        /\ line.out = 0 /\ Len(line.q) = Len(summary.q) + line.new
    BY <2>5, PutKeeps DEF AuditLines
  <2>7. /\ queue' = line.q /\ pending' = pending + summary.new + line.new
        /\ dropped' = dropped + summary.lost + line.lost /\ evicted' = evicted + summary.out + line.out
    BY <2>1 DEF Written
  <2> HIDE DEF summary, line
  <2>8. PICK m, n, x, y \in 0..1 :
          /\ pending' = pending + m + n /\ dropped' = dropped + x + y /\ evicted' = 0
          /\ Len(queue') = Len(queue) + m + n
    <3>1. Len(queue') = Len(queue) + summary.new + line.new
      BY <2>5, <2>6, <2>7
    <3>2. evicted' = 0
      BY <1>1, <2>5, <2>6, <2>7
    <3> QED
      BY <2>5, <2>6, <2>7, <3>1, <3>2
  <2>9. pending' \in Nat /\ dropped' \in Nat /\ dropped' >= dropped /\ evicted' = 0
    BY <1>1, <2>8
  <2>10. /\ Len(queue') + w <= pending' /\ pending' <= Len(queue') + w + boots
         /\ pending' <= Len(queue') + w + dropped'
    <3>1. w \in Nat /\ Len(queue) \in Nat /\ boots \in Nat /\ pending \in Nat /\ dropped \in Nat
      BY <1>1
    <3> HIDE DEF w
    <3> QED
      BY <1>2, <2>8, <3>1
  <2>11. TasksAreLines'
    BY <1>0, <2>10 DEF TasksAreLines, Waited
  <2> QED
    BY <1>0, <1>1, <2>2, <2>3, <2>4, <2>6, <2>7, <2>9, <2>11 DEF AuditInv
<1> QED
  BY <1>3, <1>4

\* What the audit keeps, step by step.
LEMMA AuditStep == ASSUME AuditInv, [GateNext]_gateVars PROVE AuditInv'
<1> DEFINE w == IF writer = "none" THEN 0 ELSE 1
<1>1. /\ pending \in Nat /\ dropped \in Nat /\ boots \in Nat /\ queue \in Seq(AuditLines)
      /\ Len(queue) \in Nat /\ w \in Nat
      /\ Len(queue) + w <= pending /\ pending <= Len(queue) + w + boots
      /\ pending <= Len(queue) + w + dropped
  BY DEF AuditInv, TasksAreLines, Waited
<1>2. CASE UNCHANGED auditVars
  BY <1>2 DEF auditVars, AuditInv, TasksAreLines, Waited
<1>3. ASSUME closing = "open",
             NEW q \in Calls, NEW token \in Tokens, NEW exact \in BOOLEAN,
             NEW attested \in BOOLEAN, NEW kind \in RouteKinds, Arrive(q, token, exact, kind, attested)
      PROVE  AuditInv'
  <2>1. \/ UNCHANGED auditVars
        \/ \E door \in Doors : VerifyFailed(door)
    BY <1>3 DEF Arrive, Doors
  <2> QED
    BY <1>2, <1>3, <2>1, VerifyFailedKeeps
<1>4. ASSUME NEW door \in Doors, Refill(door) PROVE AuditInv'
  <2>1. /\ bucket' = [bucket EXCEPT ![door] = @ + 1]
        /\ UNCHANGED <<suppressed, failures, told, queue, writer, pending, dropped, evicted, boots,
                       closing>>
    BY <1>4 DEF Refill
  <2>2. bucket' \in [Doors -> Nat]
    BY <2>1 DEF AuditInv
  <2>3. TasksAreLines'
    BY <2>1 DEF AuditInv, TasksAreLines, Waited
  <2> QED
    BY <2>1, <2>2, <2>3 DEF AuditInv
<1>5. CASE DaemonTokenIssued
  <2> DEFINE line == Put(queue, "genuine")
  <2>1. /\ queue' = line.q /\ pending' = pending + 0 + line.new /\ boots' = boots + 1
        /\ dropped' = dropped + 0 + line.lost /\ evicted' = evicted + 0 + line.out
        /\ UNCHANGED <<bucket, suppressed, failures, told, writer, closing>> /\ closing = "open"
    BY <1>5 DEF DaemonTokenIssued, Written, NoLine
  <2>2. /\ line.q \in Seq(AuditLines) /\ line.lost \in 0..1 /\ line.out = 0 /\ line.new = 1
        /\ Len(line.q) = Len(queue) + 1 - line.lost
    BY <1>1, PutKeeps DEF AuditLines
  <2> HIDE DEF line
  <2>3. PICK x \in 0..1 : /\ Len(queue') = Len(queue) + 1 - x /\ dropped' = dropped + x
                          /\ pending' = pending + 1
    BY <1>1, <2>1, <2>2
  <2>4. /\ Len(queue') + w <= pending' /\ pending' <= Len(queue') + w + boots'
        /\ pending' <= Len(queue') + w + dropped'
    <3>1. /\ Len(queue) \in Nat /\ w \in Nat /\ pending \in Nat /\ boots \in Nat /\ dropped \in Nat
          /\ Len(queue) + w <= pending /\ pending <= Len(queue) + w + boots
          /\ pending <= Len(queue) + w + dropped
      BY <1>1
    <3>2. boots' = boots + 1
      BY <2>1
    <3> HIDE DEF w
    <3> QED
      BY <2>3, <3>1, <3>2
  <2>5. TasksAreLines'
    BY <2>1, <2>4 DEF TasksAreLines, Waited
  <2>6. pending' \in Nat /\ dropped' \in Nat /\ boots' \in Nat /\ evicted' = 0
    <3>1. evicted = 0 /\ evicted' = evicted + 0 + 0
      BY <2>1, <2>2 DEF AuditInv
    <3>2. pending' = pending + 1 /\ boots' = boots + 1 /\ \E y \in 0..1 : dropped' = dropped + y
      BY <2>1, <2>3
    <3> QED
      BY <1>1, <3>1, <3>2
  <2> QED
    BY <2>1, <2>2, <2>5, <2>6 DEF AuditInv
<1>6. CASE Take
  <2>1. /\ queue # <<>> /\ writer = "none" /\ writer' = Head(queue) /\ queue' = Tail(queue)
        /\ UNCHANGED <<bucket, suppressed, failures, told, pending, dropped, evicted, boots, closing>>
        /\ closing # "closed"
    BY <1>6 DEF Take
  <2>2. Head(queue) \in AuditLines /\ Tail(queue) \in Seq(AuditLines) /\ Len(Tail(queue)) = Len(queue) - 1
    BY <1>1, <2>1
  <2>3. writer' # "none"
    BY <2>1, <2>2 DEF AuditLines
  <2> QED
    BY <1>1, <2>1, <2>2, <2>3 DEF AuditInv, TasksAreLines, Waited
<1>7. CASE Appended
  <2>1. /\ writer # "none" /\ writer' = "none" /\ pending' = pending - 1
        /\ UNCHANGED <<bucket, suppressed, failures, told, queue, dropped, evicted, boots, closing>>
    BY <1>7 DEF Appended
  <2>2. pending' \in Nat
    BY <1>1, <2>1
  <2> QED
    BY <1>1, <2>1, <2>2 DEF AuditInv, TasksAreLines, Waited
<1>8. CASE Close
  BY <1>8 DEF Close, AuditInv, TasksAreLines, Waited
<1>9. CASE Flushed
  <2>1. Len(queue) = 0
    BY <1>1, <1>9 DEF Flushed
  <2>2. queue = <<>>
    BY <1>1, <2>1
  <2> QED
    BY <1>9, <2>2 DEF Flushed, AuditInv, TasksAreLines, Waited
<1> QED
  BY <1>2, <1>3, <1>4, <1>5, <1>6, <1>7, <1>8, <1>9
     DEF GateNext, Admit, Leave, gateVars, auditVars

-----------------------------------------------------------------------------
(***************************************************************************)
(* Gate: the two counters.                                                 *)
(***************************************************************************)
InFlight == {q \in Calls : calls[q] # NoCall}
Writing  == {q \in Calls : calls[q] # NoCall /\ calls[q].kind = "write" /\ calls[q].at = "handler"}

\* The part of GateInv that is about the requests.
CallInv ==
    /\ calls \in [Calls -> Admitted \cup {NoCall}] /\ inflight \in Nat /\ writing \in Nat
    /\ BodiesAreWrites
    /\ inflight = Cardinality(InFlight) /\ inflight <= INFLIGHT_MAX
    /\ writing = Cardinality(Writing)
    /\ \A q \in Calls : calls[q] # NoCall /\ calls[q].kind # "open" =>
          /\ calls[q].name \in ReadOnlyAgents => calls[q].kind = "read"
          /\ calls[q].name = MAINTENANCE_ADMIN_AGENT => calls[q].kind \in {"read", "admin"}

LEMMA CallSetsFinite == IsFiniteSet(InFlight) /\ IsFiniteSet(Writing)
<1>1. InFlight \subseteq Calls /\ Writing \subseteq Calls
  BY DEF InFlight, Writing
<1> QED
  BY <1>1, GateAssumption, FS_Subset

\* Counting one request up or down.
LEMMA OneMore ==
    ASSUME NEW S, IsFiniteSet(S), NEW q
    PROVE  /\ q \notin S => Cardinality(S \cup {q}) = Cardinality(S) + 1
           /\ q \in S => Cardinality(S \ {q}) = Cardinality(S) - 1 /\ Cardinality(S) > 0
           /\ Cardinality(S) \in Nat
<1>1. Cardinality(S) \in Nat
  BY FS_CardinalityType
<1>2. q \notin S => Cardinality(S \cup {q}) = Cardinality(S) + 1
  BY FS_AddElement
<1>3. q \in S => Cardinality(S \ {q}) = Cardinality(S) - 1
  BY FS_RemoveElement
<1>4. q \in S => Cardinality(S) # 0
  BY FS_EmptySet
<1> QED
  BY <1>1, <1>2, <1>3, <1>4

\* Whatever a request is admitted to, and however it ends.
LEMMA CallStep == ASSUME CallInv, [GateNext]_gateVars PROVE CallInv'
<1>0. /\ calls \in [Calls -> Admitted \cup {NoCall}] /\ inflight \in Nat /\ writing \in Nat
      /\ \A q \in Calls : calls[q] # NoCall => calls[q] \in Admitted
      /\ \A r \in Admitted : r # NoCall /\ r.at \in {"body", "handler"} /\ r.kind \in RouteKinds
  <2>1. \A r \in Admitted : r.at # "none"
    BY DEF Admitted
  <2>2. NoCall.at = "none"
    BY DEF NoCall
  <2>3. \A r \in Admitted : r # NoCall
    BY <2>1, <2>2
  <2> QED
    BY <2>3 DEF CallInv, Admitted
<1>1. CASE UNCHANGED <<calls, inflight, writing>>
  BY <1>1 DEF CallInv, BodiesAreWrites, InFlight, Writing
<1>2. ASSUME NEW q \in Calls, NEW token \in Tokens, NEW exact \in BOOLEAN,
             NEW attested \in BOOLEAN, NEW kind \in RouteKinds, Arrive(q, token, exact, kind, attested)
      PROVE  CallInv'
  <2> DEFINE name == IF kind = "open" THEN "unknown" ELSE Identity(token, exact)
             r == [at |-> IF IsWrite(kind) THEN "body" ELSE "handler", name |-> name, kind |-> kind]
  <2>1. CASE UNCHANGED <<calls, inflight>>
    BY <1>1, <1>2, <2>1 DEF Arrive
  <2>2. CASE ~UNCHANGED <<calls, inflight>>
    <3>1. /\ Passes(name, kind, attested) /\ calls' = [calls EXCEPT ![q] = r]
          /\ inflight' = inflight + 1 /\ calls[q] = NoCall /\ inflight < INFLIGHT_MAX
          /\ writing' = writing
      BY <1>2, <2>2 DEF Arrive, Counted
    <3>2. name \in Names \cup {"unknown"}
      BY IdentityIsKnown
    <3>3. r \in Admitted /\ r.kind = kind /\ r.name = name /\ (r.at = "body" <=> kind = "write")
          /\ r.at \in {"body", "handler"}
      BY <3>2 DEF Admitted, IsWrite
    <3>4. /\ kind # "open" /\ name \in ReadOnlyAgents => kind = "read"
          /\ kind # "open" /\ name = MAINTENANCE_ADMIN_AGENT => kind \in {"read", "admin"}
      BY <3>1, PassesIsConfined
    <3> HIDE DEF name, r
    <3>5. /\ calls' \in [Calls -> Admitted \cup {NoCall}] /\ calls'[q] = r /\ r # NoCall
          /\ \A p \in Calls \ {q} : calls'[p] = calls[p]
      BY <1>0, <3>1, <3>3
    <3>6. InFlight' = InFlight \cup {q} /\ q \notin InFlight
      BY <3>1, <3>5 DEF InFlight
    <3>7. Writing' = Writing
      BY <3>1, <3>3, <3>5 DEF Writing
    <3>8. inflight' = Cardinality(InFlight') /\ inflight' <= INFLIGHT_MAX /\ inflight' \in Nat
      BY <1>0, <3>1, <3>6, CallSetsFinite, OneMore, GateAssumption DEF CallInv
    <3>9. BodiesAreWrites'
      BY <3>3, <3>5 DEF CallInv, BodiesAreWrites, IsWrite
    <3> QED
      BY <1>0, <3>1, <3>3, <3>4, <3>5, <3>7, <3>8, <3>9 DEF CallInv
  <2> QED
    BY <2>1, <2>2
<1>3. ASSUME NEW q \in Calls, Admit(q) PROVE CallInv'
  <2>1. /\ calls[q] \in Admitted /\ calls[q].at = "body" /\ calls' = [calls EXCEPT ![q].at = "handler"]
        /\ writing' = writing + 1 /\ inflight' = inflight
    BY <1>0, <1>3 DEF Admit
  <2>2. PICK r \in Admitted : r = [calls[q] EXCEPT !.at = "handler"]
    BY <2>1 DEF Admitted
  <2>3. r.at = "handler" /\ r.kind = calls[q].kind /\ r.name = calls[q].name
    BY <2>1, <2>2 DEF Admitted
  <2>4. /\ calls' \in [Calls -> Admitted \cup {NoCall}] /\ calls'[q] = r
        /\ \A p \in Calls \ {q} : calls'[p] = calls[p]
    BY <1>0, <2>1, <2>2
  <2>5. calls[q].kind = "write"
    BY <2>1 DEF CallInv, BodiesAreWrites, IsWrite
  <2>6. InFlight' = InFlight
    BY <1>0, <2>1, <2>4 DEF InFlight
  <2>7. Writing' = Writing \cup {q} /\ q \notin Writing
    BY <1>0, <2>1, <2>3, <2>4, <2>5 DEF Writing
  <2>8. writing' = Cardinality(Writing') /\ writing' \in Nat
    BY <1>0, <2>1, <2>7, CallSetsFinite, OneMore DEF CallInv
  <2>9. BodiesAreWrites'
    BY <2>3, <2>4 DEF CallInv, BodiesAreWrites
  <2>10. calls[q] # NoCall
    BY <1>0, <2>1
  <2> QED
    BY <2>1, <2>3, <2>4, <2>6, <2>8, <2>9, <2>10 DEF CallInv
<1>4. ASSUME NEW q \in Calls, Leave(q) PROVE CallInv'
  <2>1. /\ calls[q] # NoCall /\ calls[q] \in Admitted /\ calls' = [calls EXCEPT ![q] = NoCall]
        /\ inflight' = inflight - 1 /\ writing' = WritingAfter(q)
    BY <1>0, <1>4 DEF Leave
  <2>2. /\ calls' \in [Calls -> Admitted \cup {NoCall}] /\ calls'[q] = NoCall
        /\ \A p \in Calls \ {q} : calls'[p] = calls[p]
    BY <1>0, <2>1
  <2>3. InFlight' = InFlight \ {q} /\ q \in InFlight
    BY <2>1, <2>2 DEF InFlight
  <2>4. inflight' = Cardinality(InFlight') /\ inflight' <= INFLIGHT_MAX /\ inflight' \in Nat
    <3>1. Cardinality(InFlight \ {q}) = Cardinality(InFlight) - 1 /\ Cardinality(InFlight) > 0
      BY <2>3, CallSetsFinite, OneMore
    <3>2. inflight = Cardinality(InFlight) /\ inflight <= INFLIGHT_MAX /\ INFLIGHT_MAX \in Nat
      BY GateAssumption DEF CallInv
    <3> QED
      BY <1>0, <2>1, <2>3, <3>1, <3>2
  <2>5. writing' = Cardinality(Writing') /\ writing' \in Nat
    <3>1. CASE q \in Writing
      <4>1. writing' = writing - 1
        BY <2>1, <3>1 DEF WritingAfter, Writing, IsWrite
      <4>2. Writing' = Writing \ {q}
        BY <2>2 DEF Writing
      <4> QED
        BY <1>0, <3>1, <4>1, <4>2, CallSetsFinite, OneMore DEF CallInv
    <3>2. CASE q \notin Writing
      <4>1. writing' = writing
        BY <2>1, <3>2 DEF WritingAfter, Writing, IsWrite
      <4>2. Writing' = Writing
        BY <2>2, <3>2 DEF Writing
      <4> QED
        BY <1>0, <4>1, <4>2 DEF CallInv
    <3> QED
      BY <3>1, <3>2
  <2>6. BodiesAreWrites'
    BY <2>2 DEF CallInv, BodiesAreWrites, NoCall
  <2> QED
    BY <2>2, <2>4, <2>5, <2>6 DEF CallInv
<1> QED
  BY <1>1, <1>2, <1>3, <1>4
     DEF GateNext, Refill, DaemonTokenIssued, Take, Appended, Close, Flushed, gateVars

\* Load is shed and the backup waits by exact counts, whichever way requests end; a
\* flood of refused tokens is accounted for and puts out no other line; and every
\* identity stays within its role's routes.
THEOREM GateCorrect == GateSpec => []GateIsExact
<1>1. GateInit => AuditInv /\ CallInv
  <2> SUFFICES ASSUME GateInit PROVE AuditInv /\ CallInv
    OBVIOUS
  <2>1. AuditInv
    BY GateAssumption DEF GateInit, AuditInv, TasksAreLines, Waited, Doors, AuditLines
  <2>2. InFlight = {} /\ Writing = {} /\ \A q \in Calls : calls[q].at = "none"
    BY DEF GateInit, InFlight, Writing, NoCall
  <2>3. CallInv
    BY <2>2, GateAssumption, FS_EmptySet DEF GateInit, CallInv, BodiesAreWrites
  <2> QED
    BY <2>1, <2>3
<1>2. AuditInv /\ CallInv /\ [GateNext]_gateVars => (AuditInv /\ CallInv)'
  BY AuditStep, CallStep
<1>3. AuditInv /\ CallInv => GateIsExact
  <2> SUFFICES ASSUME AuditInv, CallInv PROVE GateIsExact
    OBVIOUS
  <2>1. CountersAreExact
    BY DEF CallInv, CountersAreExact, InFlight, Writing
  <2>2. FloodEvictsItself
    BY DEF AuditInv, TasksAreLines, Waited, FloodEvictsItself
  <2>3. RoleIsConfined
    BY MintsNarrow DEF CallInv, RoleIsConfined
  <2> QED
    BY <2>1, <2>2, <2>3 DEF GateIsExact
<1> QED
  BY <1>1, <1>2, <1>3, PTL DEF GateSpec

-----------------------------------------------------------------------------
(***************************************************************************)
(* Health: the cache, the lock and the capability records.                 *)
(***************************************************************************)
\* A probe always leaves an answer.
LEMMA ChecksAnswer == ASSUME NEW r PROVE Checks(r) # NoAnswer
<1>1. Checks(r).status = Overall(Dependencies(r), Warned(r))
  BY DEF Checks
<1>2. Overall(Dependencies(r), Warned(r)) # "none"
  BY DEF Overall
<1>3. NoAnswer.status = "none"
  BY DEF NoAnswer
<1> QED
  BY <1>1, <1>2, <1>3

\* A failed probe keeps the projection of the encoder, marked stale.
LEMMA MergeKeeps ==
    ASSUME NEW old \in [status : CapStatuses \cup {"none"}, proj : {"none", "fresh", "stale"}, slow : BOOLEAN],
           NEW status \in CapStatuses, NEW slow \in BOOLEAN
    PROVE  LET m == Merged(old, Probed(status, slow))
           IN  /\ m \in [status : CapStatuses \cup {"none"}, proj : {"none", "fresh", "stale"}, slow : BOOLEAN]
               /\ m.status = status
               /\ status \in {"ok", "too_slow"} => m.proj = "fresh"
               /\ status \notin {"ok", "too_slow"} /\ old.proj # "none" => m.proj = "stale"
<1>1. CASE status \in {"ok", "too_slow"}
  BY <1>1 DEF Merged, Probed, CapStatuses
<1>2. CASE status \notin {"ok", "too_slow"}
  BY <1>2 DEF Merged, Probed, CapStatuses
<1> QED
  BY <1>1, <1>2

LEMMA HealthStep == ASSUME HealthInv, [HealthNext]_healthVars PROVE HealthInv'
<1> USE DEF HealthInv
<1>1. ASSUME UNCHANGED <<capability, measured>> PROVE ProjectionKept'
  BY <1>1 DEF ProjectionKept
<1>2. ASSUME NEW q \in Requests, Ask(q) PROVE HealthInv'
  <2>1. HealthTypeOK' /\ ProberHolds'
    BY <1>2 DEF Ask, HealthTypeOK, ProberHolds
  <2> QED
    BY <1>1, <1>2, <2>1 DEF Ask
<1>3. ASSUME NEW q \in Requests, TakeLock(q) PROVE HealthInv'
  <2>1. CASE SecondLook
    <3>1. HealthTypeOK' /\ ProberHolds'
      BY <1>3, <2>1 DEF TakeLock, Reply, HealthTypeOK, ProberHolds
    <3> QED
      BY <1>1, <1>3, <3>1 DEF TakeLock
  <2>2. CASE ~SecondLook
    <3>1. HealthTypeOK'
      BY <1>3, <2>2 DEF TakeLock, HealthTypeOK
    <3>2. ProberHolds'
      BY <1>3, <2>2, HealthAssumption DEF TakeLock, SecondLook, HealthTypeOK, ProberHolds, Free
    <3> QED
      BY <1>1, <1>3, <3>1, <3>2 DEF TakeLock
  <2> QED
    BY <2>1, <2>2
<1>4. ASSUME NEW q \in Requests, NEW r \in Readings, ProbeEnds(q, r) PROVE HealthInv'
  <2>1. HealthTypeOK'
    BY <1>4 DEF ProbeEnds, Reply, HealthTypeOK
  <2>2. ProberHolds'
    BY <1>4 DEF ProbeEnds, Reply, HealthTypeOK, ProberHolds
  <2>3. cached' # NoAnswer
    BY <1>4, ChecksAnswer DEF ProbeEnds
  <2> QED
    BY <1>1, <1>4, <2>1, <2>2, <2>3 DEF ProbeEnds
<1>5. ASSUME NEW q \in Requests, ClientGone(q) PROVE HealthInv'
  <2>1. HealthTypeOK' /\ ProberHolds'
    BY <1>5 DEF ClientGone, HealthTypeOK, ProberHolds
  <2> QED
    BY <1>1, <1>5, <2>1 DEF ClientGone
<1>6. CASE Expires
  <2>1. HealthTypeOK' /\ ProberHolds'
    BY <1>6 DEF Expires, HealthTypeOK, ProberHolds
  <2> QED
    BY <1>1, <1>6, <2>1 DEF Expires
<1>7. CASE Sheds \/ UNCHANGED healthVars
  <2>1. UNCHANGED <<capability, cached, fresh, lock, young, asks, measured>>
    BY <1>7 DEF Sheds, healthVars
  <2>2. HealthTypeOK' /\ ProberHolds'
    BY <2>1 DEF HealthTypeOK, ProberHolds
  <2> QED
    BY <1>1, <2>1, <2>2
<1>8. ASSUME NEW status \in [Encoders -> CapStatuses], NEW slow \in [Encoders -> BOOLEAN],
             ProbeCapability(status, slow)
      PROVE  HealthInv'
  <2>1. ASSUME NEW e \in Encoders
        PROVE  /\ capability'[e] \in [status : CapStatuses \cup {"none"},
                                      proj : {"none", "fresh", "stale"}, slow : BOOLEAN]
               /\ capability'[e].status = status[e]
               /\ status[e] \in {"ok", "too_slow"} => capability'[e].proj = "fresh"
               /\ status[e] \notin {"ok", "too_slow"} /\ capability[e].proj # "none" =>
                     capability'[e].proj = "stale"
    <3>1. capability'[e] = Merged(capability[e], Probed(status[e], slow[e]))
      BY <1>8 DEF ProbeCapability
    <3>2. capability[e] \in [status : CapStatuses \cup {"none"},
                             proj : {"none", "fresh", "stale"}, slow : BOOLEAN]
      BY DEF HealthTypeOK
    <3>3. status[e] \in CapStatuses /\ slow[e] \in BOOLEAN
      OBVIOUS
    <3> QED
      BY <3>1, <3>2, <3>3, MergeKeeps
  <2>2. HealthTypeOK'
    <3>1. capability' \in [Encoders -> [status : CapStatuses \cup {"none"},
                                        proj : {"none", "fresh", "stale"}, slow : BOOLEAN]]
      <4>1. capability' = [e \in Encoders |-> Merged(capability[e], Probed(status[e], slow[e]))]
        BY <1>8 DEF ProbeCapability
      <4> QED
        BY <2>1, <4>1
    <3> QED
      BY <1>8, <3>1 DEF ProbeCapability, HealthTypeOK
  <2>3. ProjectionKept'
    <3> SUFFICES ASSUME NEW e \in measured'
                 PROVE  capability'[e].proj = IF capability'[e].status \in {"ok", "too_slow"}
                                              THEN "fresh" ELSE "stale"
      BY DEF ProjectionKept
    <3>1. e \in Encoders /\ (e \in measured \/ status[e] \in {"ok", "too_slow"})
      BY <1>8 DEF ProbeCapability, HealthTypeOK
    <3>2. e \in measured => capability[e].proj # "none"
      BY DEF ProjectionKept
    <3> QED
      BY <2>1, <3>1, <3>2
  <2>4. ProberHolds'
    BY <1>8 DEF ProbeCapability, ProberHolds
  <2> QED
    BY <1>8, <2>2, <2>3, <2>4 DEF ProbeCapability
<1> QED
  BY <1>2, <1>3, <1>4, <1>5, <1>6, <1>7, <1>8 DEF HealthNext

\* However requests, expiry and failing encoders interleave, one request at a time
\* asks the encoders, none while an answer is fresh, and the last measured
\* projection stays.
THEOREM HealthCorrect == HealthSpec => []AnswerIsKept
<1>1. HealthInit => HealthInv
  <2> SUFFICES ASSUME HealthInit PROVE HealthInv
    OBVIOUS
  <2>1. Unmeasured \in [status : CapStatuses \cup {"none"}, proj : {"none", "fresh", "stale"},
                        slow : BOOLEAN]
    BY DEF Unmeasured
  <2> QED
    BY <2>1 DEF HealthInit, HealthInv, HealthTypeOK, ProjectionKept, ProberHolds
<1>2. HealthInv /\ [HealthNext]_healthVars => HealthInv'
  BY HealthStep
<1>3. HealthInv => AnswerIsKept
  <2> SUFFICES ASSUME HealthInv PROVE NoProbeWhileFresh
    BY DEF HealthInv, AnswerIsKept
  <2> DEFINE probers == {q \in Requests : asks[q] = "probe"}
  <2>1. probers \subseteq {lock}
    BY DEF HealthInv, ProberHolds
  <2>2. IsFiniteSet({lock}) /\ Cardinality({lock}) = 1
    BY FS_Singleton
  <2>3. Cardinality(probers) <= 1
    <3> HIDE DEF probers
    <3> QED
      BY <2>1, <2>2, FS_Subset
  <2> QED
    BY <2>3 DEF HealthInv, ProberHolds, NoProbeWhileFresh
<1> QED
  BY <1>1, <1>2, <1>3, PTL DEF HealthSpec

-----------------------------------------------------------------------------
(***************************************************************************)
(* NremSchedule: the rows of consolidation_runs.                           *)
(***************************************************************************)
\* A step that touches no row and no cycle disturbs nothing.
LEMMA NoRunTouched ==
    ASSUME RunInv, UNCHANGED runVars,
           cur # 0 => listener' = "in_run", abandoned # {} => listener' # "down"
    PROVE  RunInv'
<1>1. RunTypeOK' /\ RowsHaveCycles' /\ RunRowIsOwed'
  BY DEF RunInv, RunTypeOK, RowsHaveCycles, RunRowIsOwed, runVars
<1>2. CycleHasItsRow' /\ AbandonedWereAborted'
  BY DEF RunInv, CycleHasItsRow, AbandonedWereAborted, runVars
<1> QED
  BY <1>1, <1>2 DEF RunInv

\* The rows of abandoned cycles are written, or lost for good.
LEMMA DrainRunsStep ==
    ASSUME RunInv, NEW done \in SUBSET Runs, TakeBackupLock(done)
    PROVE  RunInv'
<1> USE DEF RunInv, RunTypeOK, CycleHasItsRow, RowsHaveCycles, AbandonedWereAborted, RunRowIsOwed
<1>1. CASE ~LockGranted
  BY <1>1, NoRunTouched DEF TakeBackupLock
<1>2. CASE LockGranted
  <2>1. cur = 0 /\ cur' = 0 /\ truth' = truth /\ abandoned' = {} /\ listener' = "cycle"
        /\ unwritten' = unwritten \cup (abandoned \ done)
    BY <1>2 DEF TakeBackupLock, DrainAbandoned
  <2>2. runs' = [i \in Runs |-> IF i \in abandoned \cap done THEN "crashed" ELSE runs[i]]
    BY <1>2 DEF TakeBackupLock, DrainAbandoned
  <2>3. RunTypeOK'
    BY <2>1, <2>2
  <2>4. ASSUME NEW i \in Runs
        PROVE  /\ runs'[i] = "none" => truth'[i] = "none"
               /\ truth'[i] = "running" => i = cur'
               /\ runs'[i] = "completed" => truth'[i] = "completed"
               /\ runs'[i] = "crashed" => truth'[i] # "completed" \/ i \in unwritten'
               /\ runs'[i] = "open" =>
                     i = cur' \/ i \in abandoned' \cup unwritten' \/ truth'[i] = "died"
    <3>1. CASE i \in abandoned \cap done
      BY <2>1, <2>2, <3>1
    <3>2. CASE i \notin abandoned \cap done
      BY <2>1, <2>2, <3>2
    <3> QED
      BY <3>1, <3>2
  <2> QED
    BY <2>1, <2>3, <2>4
<1> QED
  BY <1>1, <1>2

LEMMA OpenRunStep == ASSUME RunInv, NEW opened \in BOOLEAN, OpenRun(opened) PROVE RunInv'
<1> USE DEF RunInv, RunTypeOK, CycleHasItsRow, RowsHaveCycles, AbandonedWereAborted, RunRowIsOwed
<1>1. CASE ~opened
  BY <1>1, NoRunTouched DEF OpenRun, runVars
<1>2. CASE opened
  <2>1. PICK i \in Runs :
          /\ runs[i] = "none"
          /\ cur' = i /\ runs' = [runs EXCEPT ![i] = "open"]
          /\ truth' = [truth EXCEPT ![i] = "running"]
    BY <1>2 DEF OpenRun
  <2>2. cur = 0 /\ listener' = "in_run" /\ UNCHANGED <<abandoned, unwritten>>
    BY DEF OpenRun
  <2>3. i # 0
    BY BoundsAssumption DEF Runs
  <2>4. RunTypeOK'
    BY <2>1, <2>2 DEF Truths
  <2>5. i \notin abandoned /\ truth[i] = "none"
    BY <2>1
  <2>6. ASSUME NEW j \in Runs
        PROVE  /\ runs'[j] = "none" => truth'[j] = "none"
               /\ truth'[j] = "running" => j = cur'
               /\ runs'[j] = "completed" => truth'[j] = "completed"
               /\ runs'[j] = "crashed" => truth'[j] # "completed" \/ j \in unwritten'
               /\ runs'[j] = "open" =>
                     j = cur' \/ j \in abandoned' \cup unwritten' \/ truth'[j] = "died"
    <3>1. CASE j = i
      BY <2>1, <3>1
    <3>2. CASE j # i
      <4>1. j # cur
        BY <2>2, BoundsAssumption DEF Runs
      <4> QED
        BY <2>1, <2>2, <3>2, <4>1
    <3> QED
      BY <3>1, <3>2
  <2>7. CycleHasItsRow' /\ AbandonedWereAborted'
    BY <2>1, <2>2, <2>5
  <2> QED
    BY <2>4, <2>6, <2>7
<1> QED
  BY <1>1, <1>2

\* An aborted cycle is remembered; any other has its row written, or is owed.
LEMMA CloseRunStep ==
    ASSUME RunInv, NEW how \in {"completed", "aborted", "crashed"}, NEW written \in BOOLEAN,
           CloseRun(how, written)
    PROVE  RunInv'
<1> USE DEF RunInv, RunTypeOK, CycleHasItsRow, RowsHaveCycles, AbandonedWereAborted, RunRowIsOwed
<1>1. /\ listener' = "cycle" /\ cur' = 0
      /\ truth' = [i \in Runs |-> IF i = cur THEN how ELSE truth[i]]
  BY DEF CloseRun
<1>2. \A i \in Runs : i # 0
  BY BoundsAssumption DEF Runs
<1>3. \A i \in Runs : i # cur => truth'[i] = truth[i] /\ truth'[i] # "running"
  BY <1>1
<1>4. cur # 0 => cur \in Runs /\ truth'[cur] = how /\ runs[cur] = "open"
  BY <1>1
<1>5. truth' \in [Runs -> Truths]
  BY <1>1 DEF Truths
<1>6. CASE how = "aborted"
  <2>1. abandoned' = Remembered(cur) /\ UNCHANGED <<runs, unwritten>>
    BY <1>6 DEF CloseRun
  <2>2. abandoned' = IF cur = 0 THEN abandoned ELSE abandoned \cup {cur}
    BY <2>1 DEF Remembered
  <2>3. RunTypeOK'
    BY <1>1, <1>5, <2>1, <2>2
  <2>4. ASSUME NEW i \in Runs
        PROVE  /\ runs'[i] = "none" => truth'[i] = "none"
               /\ truth'[i] # "running"
               /\ runs'[i] = "completed" => truth'[i] = "completed"
               /\ runs'[i] = "crashed" => truth'[i] # "completed" \/ i \in unwritten'
               /\ runs'[i] = "open" =>
                     i = cur' \/ i \in abandoned' \cup unwritten' \/ truth'[i] = "died"
    <3>1. CASE i = cur
      BY <1>2, <1>4, <1>6, <2>1, <2>2, <3>1
    <3>2. CASE i # cur
      BY <1>3, <2>1, <2>2, <3>2
    <3> QED
      BY <3>1, <3>2
  <2>5. AbandonedWereAborted'
    <3> SUFFICES ASSUME NEW i \in abandoned' PROVE truth'[i] = "aborted"
      BY <1>1
    <3>1. CASE i = cur
      BY <1>1, <1>6, <2>3, <3>1
    <3>2. CASE i # cur
      BY <1>3, <2>2, <2>3, <3>2
    <3> QED
      BY <3>1, <3>2
  <2> QED
    BY <1>1, <2>3, <2>4, <2>5
<1>7. CASE how # "aborted"
  <2>1. abandoned' = abandoned /\ Finish(cur, how, written)
    BY <1>7 DEF CloseRun
  <2>2. cur \notin abandoned
    BY <1>2
  <2>3. CASE cur = 0
    <3>1. runs' = runs /\ unwritten' = unwritten
      BY <2>1, <2>3 DEF Finish
    <3>2. \A i \in Runs : truth'[i] = truth[i]
      BY <1>2, <1>3, <2>3
    <3> QED
      BY <1>1, <1>3, <1>5, <2>1, <2>3, <3>1, <3>2
  <2>4. CASE cur # 0 /\ written
    <3>1. runs' = [runs EXCEPT ![cur] = how] /\ unwritten' = unwritten
      BY <2>1, <2>4 DEF Finish
    <3>2. RunTypeOK'
      BY <1>1, <1>5, <1>7, <2>1, <3>1
    <3>3. ASSUME NEW i \in Runs
          PROVE  /\ runs'[i] = "none" => truth'[i] = "none"
                 /\ truth'[i] # "running"
                 /\ runs'[i] = "completed" => truth'[i] = "completed"
                 /\ runs'[i] = "crashed" => truth'[i] # "completed" \/ i \in unwritten'
                 /\ runs'[i] = "open" =>
                       i = cur' \/ i \in abandoned' \cup unwritten' \/ truth'[i] = "died"
      <4>1. CASE i = cur
        BY <1>4, <1>7, <2>4, <3>1, <4>1
      <4>2. CASE i # cur
        BY <1>3, <2>1, <3>1, <4>2
      <4> QED
        BY <4>1, <4>2
    <3>4. AbandonedWereAborted'
      BY <1>1, <1>3, <2>1, <2>2
    <3> QED
      BY <1>1, <3>2, <3>3, <3>4
  <2>5. CASE cur # 0 /\ ~written
    <3>1. runs' = runs /\ unwritten' = unwritten \cup {cur}
      BY <2>1, <2>5 DEF Finish
    <3>2. RunTypeOK'
      BY <1>1, <1>5, <2>1, <3>1
    <3>3. ASSUME NEW i \in Runs
          PROVE  /\ runs'[i] = "none" => truth'[i] = "none"
                 /\ truth'[i] # "running"
                 /\ runs'[i] = "completed" => truth'[i] = "completed"
                 /\ runs'[i] = "crashed" => truth'[i] # "completed" \/ i \in unwritten'
                 /\ runs'[i] = "open" =>
                       i = cur' \/ i \in abandoned' \cup unwritten' \/ truth'[i] = "died"
      <4>1. CASE i = cur
        BY <1>4, <1>7, <2>5, <3>1, <4>1
      <4>2. CASE i # cur
        BY <1>3, <2>1, <3>1, <4>2
      <4> QED
        BY <4>1, <4>2
    <3>4. AbandonedWereAborted'
      BY <1>1, <1>3, <2>1, <2>2
    <3> QED
      BY <1>1, <3>2, <3>3, <3>4
  <2> QED
    BY <2>3, <2>4, <2>5
<1> QED
  BY <1>6, <1>7

\* Death leaves the rows it finds open; the next start closes them, or fails to.
LEMMA DieAndRecover ==
    ASSUME RunInv, Die \/ \E written \in BOOLEAN : Recover(written)
    PROVE  RunInv'
<1> USE DEF RunInv, RunTypeOK, CycleHasItsRow, RowsHaveCycles, AbandonedWereAborted, RunRowIsOwed
<1>0. \A i \in Runs : i # 0
  BY BoundsAssumption DEF Runs
<1>1. CASE Die
  <2>1. /\ cur' = 0 /\ abandoned' = {} /\ runs' = runs /\ unwritten' = unwritten \cup abandoned
        /\ truth' = [i \in Runs |-> IF i = cur THEN "died" ELSE truth[i]]
    BY <1>1 DEF Die
  <2>2. truth' \in [Runs -> Truths]
    BY <2>1 DEF Truths
  <2>3. ASSUME NEW i \in Runs
        PROVE  /\ runs'[i] = "none" => truth'[i] = "none"
               /\ truth'[i] # "running"
               /\ runs'[i] = "completed" => truth'[i] = "completed"
               /\ runs'[i] = "crashed" => truth'[i] # "completed" \/ i \in unwritten'
               /\ runs'[i] = "open" =>
                     i = cur' \/ i \in abandoned' \cup unwritten' \/ truth'[i] = "died"
    <3>1. CASE i = cur
      BY <1>0, <2>1, <3>1
    <3>2. CASE i # cur
      BY <2>1, <3>2
    <3> QED
      BY <3>1, <3>2
  <2> QED
    BY <2>1, <2>2, <2>3
<1>2. ASSUME NEW written \in BOOLEAN, Recover(written) PROVE RunInv'
  <2>1. listener = "down" /\ listener' = "wait" /\ UNCHANGED <<cur, abandoned, truth, unwritten>>
    BY <1>2 DEF Recover
  <2>2. cur = 0 /\ abandoned = {}
    BY <2>1
  <2>3. runs' = [i \in Runs |-> IF written /\ runs[i] = "open" THEN "crashed" ELSE runs[i]]
    BY <1>2 DEF Recover
  <2>4. RunTypeOK'
    BY <2>1, <2>3
  <2>5. ASSUME NEW i \in Runs
        PROVE  /\ runs'[i] = "none" => truth'[i] = "none"
               /\ truth'[i] = "running" => i = cur'
               /\ runs'[i] = "completed" => truth'[i] = "completed"
               /\ runs'[i] = "crashed" => truth'[i] # "completed" \/ i \in unwritten'
               /\ runs'[i] = "open" =>
                     i = cur' \/ i \in abandoned' \cup unwritten' \/ truth'[i] = "died"
    <3>1. CASE written /\ runs[i] = "open"
      BY <1>0, <2>1, <2>2, <2>3, <3>1
    <3>2. CASE ~(written /\ runs[i] = "open")
      BY <2>1, <2>3, <3>2
    <3> QED
      BY <3>1, <3>2
  <2> QED
    BY <2>1, <2>2, <2>4, <2>5
<1> QED
  BY <1>1, <1>2

LEMMA RunStep == ASSUME RunInv, [SchedNext]_schedVars PROVE RunInv'
<1>0. cur # 0 => listener = "in_run"
  BY DEF RunInv, CycleHasItsRow
<1>1. abandoned # {} => listener # "down"
  BY DEF RunInv, AbandonedWereAborted
<1>2. ASSUME NEW quiet \in BOOLEAN, NEW read \in BOOLEAN, NEW sweep \in BOOLEAN,
             Tick(quiet, read, sweep)
      PROVE  RunInv'
  <2>1. UNCHANGED runVars /\ listener = "wait" /\ listener' \in {"wait", "due"}
    BY <1>2 DEF Tick
  <2> QED
    BY <1>0, <2>1, NoRunTouched
<1>3. CASE Notified \/ AskPool \/ SlotFree \/ SlotWaitEnds \/ NothingToDo \/ ReleaseForChat \/ Reacquire
  <2>1. UNCHANGED runVars
    BY <1>3 DEF Notified, AskPool, SlotFree, SlotWaitEnds, NothingToDo, ReleaseForChat, Reacquire
  <2>2. listener' # "down" /\ (listener = "in_run" => listener' = "in_run")
    BY <1>3 DEF Notified, AskPool, SlotFree, SlotWaitEnds, NothingToDo, ReleaseForChat, Reacquire, jobVars
  <2> QED
    BY <1>0, <2>1, <2>2, NoRunTouched
<1>4. ASSUME NEW read \in BOOLEAN, EndJob(read) PROVE RunInv'
  BY <1>0, <1>4, NoRunTouched DEF EndJob
<1>5. CASE \/ RemStep \/ Environment \/ OtherArrives \/ BackupStarts \/ FactsArrive \/ FactsFolded
           \/ Overdue \/ UNCHANGED schedVars
  <2>1. UNCHANGED runVars /\ listener' = listener
    BY <1>5 DEF RemStep, Environment, RemCalls, RemCallEnds, OtherLeaves, BackupEnds, OtherArrives,
                BackupStarts, FactsArrive, FactsFolded, Overdue, schedVars, jobVars
  <2> QED
    BY <1>0, <1>1, <2>1, NoRunTouched
<1> QED
  BY <1>2, <1>3, <1>4, <1>5, DrainRunsStep, OpenRunStep, CloseRunStep, DieAndRecover
     DEF SchedNext, DaemonStep

\* Whatever writes fail, cycles abort and daemons die, a row of consolidation_runs
\* tells how its cycle went or is owed for a reason that is named.
THEOREM RunRowsAreOwed == SchedSpec => []RunRowIsOwed
<1>1. SchedInit => RunInv
  BY DEF SchedInit, RunInv, RunTypeOK, CycleHasItsRow, RowsHaveCycles, AbandonedWereAborted,
         RunRowIsOwed, Truths
<1>2. RunInv /\ [SchedNext]_schedVars => RunInv'
  BY RunStep
<1>3. RunInv => RunRowIsOwed
  BY DEF RunInv
<1> QED
  BY <1>1, <1>2, <1>3, PTL DEF SchedSpec

-----------------------------------------------------------------------------
(***************************************************************************)
(* Capacity: the record that recommendations rest on.                      *)
(***************************************************************************)
\* However many records the file drops, the one just appended is its last.
LEMMA KeptEndsWith ==
    ASSUME NEW s \in Seq(CapacityRecords), NEW r \in CapacityRecords
    PROVE  /\ Kept(Append(s, r)) \in Seq(CapacityRecords)
           /\ Kept(Append(s, r)) # <<>>
           /\ Kept(Append(s, r))[Len(Kept(Append(s, r)))] = r
<1> DEFINE t == Append(s, r)
<1>1. t \in Seq(CapacityRecords) /\ Len(t) = Len(s) + 1 /\ t[Len(t)] = r
  OBVIOUS
<1>2. Len(t) \in Nat /\ Len(t) >= 1
  BY <1>1
<1> HIDE DEF t
<1>3. CASE Len(t) > MAX_RECORDS
  <2>1. Kept(t) = SubSeq(t, Len(t) - MAX_RECORDS + 1, Len(t))
    BY <1>3 DEF Kept
  <2>2. Len(t) - MAX_RECORDS + 1 \in 1..Len(t)
    BY <1>2, <1>3, CapacityAssumption
  <2>3. Len(Kept(t)) = MAX_RECORDS /\ Kept(t) \in Seq(CapacityRecords)
    BY <1>1, <1>2, <2>1, <2>2, CapacityAssumption
  <2>4. Kept(t)[MAX_RECORDS] = t[Len(t)]
    BY <1>1, <1>2, <2>1, <2>2, CapacityAssumption
  <2> QED
    BY <1>1, <2>3, <2>4, CapacityAssumption DEF t
<1>4. CASE ~(Len(t) > MAX_RECORDS)
  BY <1>1, <1>2, <1>4 DEF Kept, t
<1> QED
  BY <1>3, <1>4

LEMMA RatesAreNumbers == ASSUME NEW r \in Rates PROVE r \in Nat
  BY CapacityAssumption

LEMMA PayloadsAreNumbers == ASSUME NEW p \in Payloads \cup {0} PROVE p \in Nat
<1>1. CASE p = 0
  BY <1>1
<1>2. CASE p \in Payloads
  BY <1>2, CapacityAssumption
<1> QED
  BY <1>1, <1>2

LEMMA DeriveStep ==
    ASSUME CapacityInv, NEW p \in Probes, NEW write \in {"ok", "fails", "unsecured"}, Derive(p, write)
    PROVE  CapacityInv'
<1> USE DEF CapacityInv
<1>1. /\ probed' = TRUE /\ UNCHANGED <<loaded, machine>>
      /\ basis' = IF probed /\ p.status = "ok" /\ write # "fails" THEN p ELSE None
  BY DEF Derive
<1>2. machine.hw \in Hardware /\ machine.enc \in Configs
  BY DEF CapacityTypeOK
<1>3. /\ p.status \in {"ok", "too_slow", "failing"}
      /\ p.rate \in Rates /\ p.payload \in Payloads \cup {0}
  BY DEF Probes
<1>4. p.rate \in Nat /\ p.payload \in Nat
  BY <1>3, RatesAreNumbers, PayloadsAreNumbers
<1>5. Record(p) \in CapacityRecords /\ Record(p) # None
  BY <1>2, <1>3 DEF Record, CapacityRecords, None
<1>6. CASE Triggered(p) /\ write # "fails"
  <2>1. /\ disk' = Kept(Append(disk, Record(p)))
        /\ newest' = IF write = "ok" THEN Record(p) ELSE newest
        /\ missed' = missed /\ unsecured' = (unsecured \/ write = "unsecured")
    BY <1>6 DEF Derive, CapacityTypeOK
  <2>2. disk' \in Seq(CapacityRecords) /\ LastRecord' = Record(p)
    BY <1>5, <2>1, KeptEndsWith DEF LastRecord, CapacityTypeOK
  <2>3. CapacityTypeOK'
    BY <1>1, <1>5, <2>1, <2>2 DEF CapacityTypeOK
  <2>4. MachineIsKnown'
    BY <1>1, <2>2 DEF MachineIsKnown, Record
  <2>5. CapacityIsCurrent'
    <3>1. basis' # None => basis' = p /\ p.status = "ok"
      BY <1>1
    <3>2. ~Drifted(p.rate, p.rate) /\ p.payload >= p.payload
      BY <1>4 DEF Drifted
    <3>3. basis' # None =>
            /\ LastRecord'.status = "ok" /\ LastRecord'.enc = machine'.enc
            /\ LastRecord'.hw = machine'.hw
            /\ LastRecord'.rate = basis'.rate /\ LastRecord'.payload = basis'.payload
      BY <1>1, <2>2, <3>1 DEF Record
    <3>4. newest' # None => newest' = LastRecord' \/ unsecured'
      BY <1>6, <2>1, <2>2
    <3> QED
      BY <1>5, <2>2, <3>1, <3>2, <3>3, <3>4 DEF CapacityIsCurrent
  <2> QED
    BY <2>3, <2>4, <2>5
<1>7. CASE ~Triggered(p) \/ write = "fails"
  <2>1. UNCHANGED <<disk, newest, unsecured>> /\ missed' \in BOOLEAN
    BY <1>7 DEF Derive, CapacityTypeOK
  <2>2. LastRecord' = LastRecord
    BY <2>1 DEF LastRecord
  <2>3. CapacityTypeOK'
    BY <1>1, <2>1 DEF CapacityTypeOK
  <2>4. missed => missed'
    BY <1>7 DEF Derive
  <2>5. MachineIsKnown'
    <3> SUFFICES ASSUME LastRecord # None PROVE LastRecord.hw = machine.hw \/ missed'
      BY <1>1, <2>2 DEF MachineIsKnown
    <3>1. CASE probed
      BY <2>4, <3>1 DEF MachineIsKnown
    <3>2. CASE ~probed /\ Triggered(p)
      <4>1. write = "fails"
        BY <1>7, <3>2
      <4> QED
        BY <3>2, <4>1 DEF Derive
    <3>3. CASE ~probed /\ ~Triggered(p)
      BY <3>3 DEF Triggered, Fingerprint
    <3> QED
      BY <3>1, <3>2, <3>3
  <2>6. CapacityIsCurrent'
    <3>1. newest' # None => newest' = LastRecord' \/ unsecured'
      BY <2>1, <2>2 DEF CapacityIsCurrent
    <3>2. ASSUME basis' # None
          PROVE  /\ LastRecord # None /\ LastRecord.status = "ok" /\ LastRecord.enc = machine.enc
                 /\ LastRecord.hw = machine.hw \/ missed'
                 /\ ~Drifted(p.rate, LastRecord.rate)
                 /\ p.enough => LastRecord.payload >= p.payload
      <4>1. probed /\ p.status = "ok" /\ ~Triggered(p)
        BY <1>1, <1>7, <3>2
      <4>2. LastRecord # None /\ ~Fingerprint(p) /\ ~Drift(p) /\ ~Recovery(p) /\ ~Payload(p)
        BY <4>1 DEF Triggered
      <4>3. LastRecord \in CapacityRecords
        BY <4>2 DEF LastRecord, CapacityTypeOK
      <4>4. LastRecord.payload \in Nat
        BY <4>3, PayloadsAreNumbers DEF CapacityRecords
      <4>5. LastRecord.status = "ok" /\ LastRecord.enc = machine.enc
        BY <4>1, <4>2 DEF Recovery, Fingerprint
      <4>6. ~Drifted(p.rate, LastRecord.rate)
        BY <4>1, <4>2, <4>5 DEF Drift
      <4>7. p.enough => LastRecord.payload >= p.payload
        BY <1>4, <4>1, <4>2, <4>4 DEF Payload
      <4> QED
        BY <1>1, <2>2, <2>5, <4>2, <4>5, <4>6, <4>7 DEF MachineIsKnown
    <3>3. basis' # None => basis' = p
      BY <1>1
    <3> QED
      BY <1>1, <2>2, <3>1, <3>2, <3>3 DEF CapacityIsCurrent
  <2> QED
    BY <2>3, <2>5, <2>6
<1> QED
  BY <1>6, <1>7

\* Whatever restarts, failing probes and failed writes came before, the last record
\* stands for the last healthy probe, and /health serves it.
THEOREM CapacityCorrect == CapacitySpec => []CapacityIsCurrent
<1>1. CapacityInit => CapacityInv
  <2> SUFFICES ASSUME CapacityInit PROVE CapacityInv
    OBVIOUS
  <2>1. CapacityTypeOK
    <3>1. disk \in Seq(CapacityRecords)
      <4>1. <<>> \in Seq(CapacityRecords)
        OBVIOUS
      <4> QED
        BY <4>1 DEF CapacityInit
    <3> QED
      BY <3>1 DEF CapacityInit, CapacityTypeOK
  <2>2. MachineIsKnown /\ CapacityIsCurrent
    BY DEF CapacityInit, MachineIsKnown, CapacityIsCurrent
  <2> QED
    BY <2>1, <2>2 DEF CapacityInv
<1>2. CapacityInv /\ [CapacityNext]_capacityVars => CapacityInv'
  <2> SUFFICES ASSUME CapacityInv, [CapacityNext]_capacityVars PROVE CapacityInv'
    OBVIOUS
  <2> USE DEF CapacityInv
  <2>1. CASE Snapshot
    <3>1. LastRecord' = LastRecord /\ LastRecord \in CapacityRecords \cup {None}
      BY <2>1 DEF Snapshot, LastRecord, CapacityTypeOK
    <3>2. CapacityTypeOK' /\ MachineIsKnown'
      BY <2>1, <3>1 DEF Snapshot, CapacityTypeOK, MachineIsKnown
    <3>3. CapacityIsCurrent'
      BY <2>1, <3>1 DEF Snapshot, CapacityIsCurrent
    <3> QED
      BY <3>2, <3>3
  <2>2. ASSUME NEW m \in [hw : Hardware, enc : Configs], Reboot(m) PROVE CapacityInv'
    BY <2>2 DEF Reboot, CapacityTypeOK, MachineIsKnown, CapacityIsCurrent
  <2>3. CASE UNCHANGED capacityVars
    <3>1. LastRecord' = LastRecord
      BY <2>3 DEF LastRecord, capacityVars
    <3> QED
      BY <2>3, <3>1 DEF capacityVars, CapacityTypeOK, MachineIsKnown, CapacityIsCurrent
  <2> QED
    BY <2>1, <2>2, <2>3, DeriveStep DEF CapacityNext
<1>3. CapacityInv => CapacityIsCurrent
  BY DEF CapacityInv
<1> QED
  BY <1>1, <1>2, <1>3, PTL DEF CapacitySpec

-----------------------------------------------------------------------------
(***************************************************************************)
(* Encoders: vectors and the texts they stand for.                         *)
(***************************************************************************)
LEMMA TextsAreNumbers ==
    /\ \A t \in Texts : t \in Nat /\ t >= 1
    /\ EMBED_MAX_CHARS \in Nat /\ EMBED_MAX_CHARS >= 2
    /\ ReservedClamp \in Nat /\ ReservedClamp >= 2
<1>1. Texts \subseteq Nat \ {0} /\ EMBED_MAX_CHARS >= 2 /\ ReservedClamp >= 2
  BY EncodersAssumption
<1>2. EMBED_MAX_CHARS \in Nat /\ ReservedClamp \in Nat
  BY EncodersAssumption
<1>3. ASSUME NEW t \in Texts PROVE t \in Nat /\ t >= 1
  BY <1>1
<1> QED
  BY <1>1, <1>2, <1>3

\* The clamp leaves two characters of every text that has them.
LEMMA ClampIsLongEnough ==
    ASSUME NEW t \in Texts
    PROVE  Clamped(t) \in Nat \ {0} /\ Clamped(t) >= Shorter(2, t)
<1>1. t \in Nat /\ t >= 1
  BY TextsAreNumbers
<1> QED
  BY <1>1, TextsAreNumbers DEF Clamped, Shorter

LEMMA ProportionIsNumber ==
    ASSUME NEW n \in Nat, NEW answer \in Advertised, answer[2] > answer[1]
    PROVE  InProportion(n, answer) \in Nat
<1>1. PICK a, r \in Nat : answer[1] = a /\ answer[2] = r
  BY EncodersAssumption
<1>2. r > 0 /\ n * a \in Nat
  BY <1>1
<1>3. (n * a) \div r \in Nat
  BY <1>2
<1> QED
  BY <1>1, <1>3 DEF InProportion

\* The items an overflow shrinks keep a character, for else the batch is put off.
LEMMA ShrunkManyKeep ==
    ASSUME NEW lens \in Seq(Nat \ {0}), NEW answer \in Advertised,
           answer[2] > answer[1], ~TooShort(lens, answer)
    PROVE  ShrunkMany(lens, answer) \in Seq(Nat \ {0}) /\ Len(ShrunkMany(lens, answer)) = Len(lens)
<1>1. ASSUME NEW i \in 1..Len(lens), Shrinks(lens, lens[i])
      PROVE  ShrunkItem(lens[i], answer) \in Nat \ {0}
  <2>1. PICK n \in Nat \ {0} : lens[i] = n
    OBVIOUS
  <2>2. n \in ToSet(lens)
    BY <2>1 DEF ToSet
  <2>3. InProportion(n, answer) \in Nat /\ InProportion(n, answer) >= 1
    BY <1>1, <2>1, <2>2, ProportionIsNumber DEF TooShort
  <2>4. PICK m \in Nat : m >= 1 /\ InProportion(n, answer) = m
    BY <2>3
  <2>5. ShrunkItem(n, answer) = Shorter(ReservedClamp, Shorter(m, n - 1))
    BY <2>4 DEF ShrunkItem
  <2>6. CASE n = Longest(lens)
    <3>1. ~(ShrunkItem(n, answer) < 1)
      BY <2>6 DEF TooShort
    <3>2. ShrunkItem(n, answer) \in Nat
      BY <2>4, <2>5, TextsAreNumbers DEF Shorter
    <3> QED
      BY <2>1, <3>1, <3>2
  <2>7. CASE n >= ReservedClamp
    BY <2>1, <2>4, <2>5, <2>7, TextsAreNumbers DEF Shorter
  <2> QED
    BY <1>1, <2>1, <2>6, <2>7 DEF Shrinks
<1>2. ASSUME NEW i \in 1..Len(lens)
      PROVE  (IF Shrinks(lens, lens[i]) THEN ShrunkItem(lens[i], answer) ELSE lens[i]) \in Nat \ {0}
  BY <1>1
<1>3. ShrunkMany(lens, answer) =
        [i \in 1..Len(lens) |-> IF Shrinks(lens, lens[i]) THEN ShrunkItem(lens[i], answer) ELSE lens[i]]
  BY DEF ShrunkMany
<1> QED
  BY <1>2, <1>3

\* The rows: whichever text a save leaves has its own vector or none.
LEMMA SaveDecisionStep ==
    ASSUME EncodersInv, SaveDecision
    PROVE  rows' \in [Ordinals -> Alternatives \cup {NoRow}] /\ VectorOfItsText'
<1> USE DEF EncodersInv, EncodersTypeOK
<1>1. PICK kept \in SUBSET Ordinals : \E wanted \in [kept -> Texts] :
         rows' = [o \in Ordinals |-> Reconciled(o, wanted)]
  BY DEF SaveDecision
<1>2. PICK wanted \in [kept -> Texts] : rows' = [o \in Ordinals |-> Reconciled(o, wanted)]
  BY <1>1
<1>3. NoVector \in [of : Nat, chars : Nat]
  BY DEF NoVector
<1>4. ASSUME NEW o \in Ordinals
      PROVE  /\ Reconciled(o, wanted) \in Alternatives \cup {NoRow}
             /\ Reconciled(o, wanted) # NoRow /\ Reconciled(o, wanted).vec # NoVector =>
                   Reconciled(o, wanted).vec.of = Reconciled(o, wanted).text
  <2>1. CASE o \notin kept
    BY <2>1 DEF Reconciled
  <2>2. CASE o \in kept /\ Exists(o) /\ rows[o].text = wanted[o]
    BY <2>2 DEF Reconciled, VectorOfItsText
  <2>3. CASE o \in kept /\ ~(Exists(o) /\ rows[o].text = wanted[o])
    <3> DEFINE b == IF Exists(o) THEN rows[o].born ELSE saves
    <3>1. b \in Nat
      BY DEF Exists, Alternatives
    <3>2. Reconciled(o, wanted) = [born |-> b, text |-> wanted[o], vec |-> NoVector, tries |-> 0]
      BY <2>3 DEF Reconciled
    <3> HIDE DEF b
    <3>3. Reconciled(o, wanted) \in Alternatives
      BY <1>3, <2>3, <3>1, <3>2 DEF Alternatives
    <3> QED
      BY <3>2, <3>3
  <2> QED
    BY <2>1, <2>2, <2>3
<1>5. \A o \in Ordinals : rows'[o] = Reconciled(o, wanted)
  BY <1>2
<1> QED
  BY <1>2, <1>4, <1>5 DEF VectorOfItsText, Exists

LEMMA FetchPendingStep ==
    ASSUME EncodersInv, FetchPending
    PROVE  batch' \in Batches /\ Len(batch'.lens) = Len(batch'.rows)
<1> USE DEF EncodersInv, EncodersTypeOK
<1>1. PICK due \in SUBSET Pending : \E some \in InOrder(Foremost(due)) :
        batch' = [at    |-> "post", tries |-> 1,
                  rows  |-> [i \in DOMAIN some |->
                               [ordinal |-> some[i], born |-> rows[some[i]].born,
                                text |-> rows[some[i]].text]],
                  lens  |-> [i \in DOMAIN some |-> Clamped(rows[some[i]].text)]]
  BY DEF FetchPending
<1>2. PICK some \in InOrder(Foremost(due)) :
        batch' = [at    |-> "post", tries |-> 1,
                  rows  |-> [i \in DOMAIN some |->
                               [ordinal |-> some[i], born |-> rows[some[i]].born,
                                text |-> rows[some[i]].text]],
                  lens  |-> [i \in DOMAIN some |-> Clamped(rows[some[i]].text)]]
  BY <1>1
<1> DEFINE k == Cardinality(Foremost(due))
<1>3. IsFiniteSet(Foremost(due))
  <2>1. Foremost(due) \subseteq Ordinals
    BY DEF Foremost, Pending
  <2> QED
    BY <2>1, EncodersAssumption, FS_Subset
<1>4. k \in Nat
  BY <1>3, FS_CardinalityType
<1>5. some \in [1..k -> Foremost(due)]
  BY DEF InOrder
<1> HIDE DEF k
<1>6. DOMAIN some = 1..k
  BY <1>5
<1>7. ASSUME NEW i \in 1..k
      PROVE  /\ some[i] \in Ordinals /\ rows[some[i]].born \in Nat /\ rows[some[i]].text \in Texts
  <2>1. some[i] \in Pending
    BY <1>5 DEF Foremost
  <2>2. rows[some[i]] \in Alternatives /\ some[i] \in Ordinals
    BY <2>1 DEF Pending, Exists
  <2> QED
    BY <2>2 DEF Alternatives
<1>8. batch'.at = "post" /\ batch'.tries = 1
  BY <1>2
<1>9. batch'.rows \in Seq(BatchRows) /\ Len(batch'.rows) = k
  <2>1. batch'.rows = [i \in 1..k |-> [ordinal |-> some[i], born |-> rows[some[i]].born,
                                       text |-> rows[some[i]].text]]
    BY <1>2, <1>6
  <2>2. \A i \in 1..k : [ordinal |-> some[i], born |-> rows[some[i]].born,
                         text |-> rows[some[i]].text] \in BatchRows
    BY <1>7 DEF BatchRows
  <2> QED
    BY <1>4, <2>1, <2>2
<1>10. batch'.lens \in Seq(Nat \ {0}) /\ Len(batch'.lens) = k
  <2>1. batch'.lens = [i \in 1..k |-> Clamped(rows[some[i]].text)]
    BY <1>2, <1>6
  <2>2. \A i \in 1..k : Clamped(rows[some[i]].text) \in Nat \ {0}
    BY <1>7, ClampIsLongEnough
  <2> QED
    BY <1>4, <2>1, <2>2
<1>11. batch' = [at |-> "post", tries |-> 1, rows |-> batch'.rows, lens |-> batch'.lens]
  BY <1>2
<1>12. batch' \in Batches
  <2> DEFINE br == batch'.rows
             bl == batch'.lens
  <2>1. br \in Seq(BatchRows) /\ bl \in Seq(Nat \ {0})
    BY <1>9, <1>10
  <2>2. batch' = [at |-> "post", tries |-> 1, rows |-> br, lens |-> bl]
    BY <1>11
  <2> HIDE DEF br, bl
  <2> QED
    BY <2>1, <2>2 DEF Batches
<1> QED
  BY <1>9, <1>10, <1>12

LEMMA WriteVectorsStep ==
    ASSUME EncodersInv, WriteVectors
    PROVE  rows' \in [Ordinals -> Alternatives \cup {NoRow}] /\ VectorOfItsText'
<1> USE DEF EncodersInv, EncodersTypeOK
<1> DEFINE mine(o) == {i \in DOMAIN batch.rows : batch.rows[i].ordinal = o /\ StillPending(batch.rows[i])}
           the(o) == CHOOSE j \in mine(o) : TRUE
           written(o) == [rows[o] EXCEPT !.vec = [of |-> batch.rows[the(o)].text,
                                                  chars |-> batch.lens[the(o)]],
                                         !.tries = 0]
<1>1. batch \in Batches /\ Len(batch.lens) = Len(batch.rows)
  <2>1. batch.at = "write"
    BY DEF WriteVectors
  <2>2. NoBatch.at = "idle"
    BY DEF NoBatch
  <2> QED
    BY <2>1, <2>2
<1>2. \A o \in Ordinals : rows'[o] = IF mine(o) = {} THEN rows[o] ELSE written(o)
  BY DEF WriteVectors
<1>3. DOMAIN rows' = Ordinals /\ rows' = [o \in Ordinals |-> rows'[o]]
  BY DEF WriteVectors
<1>4. ASSUME NEW o \in Ordinals
      PROVE  /\ rows'[o] \in Alternatives \cup {NoRow}
             /\ rows'[o] # NoRow /\ rows'[o].vec # NoVector => rows'[o].vec.of = rows'[o].text
  <2>1. CASE mine(o) = {}
    BY <1>2, <2>1 DEF VectorOfItsText, Exists
  <2>2. CASE mine(o) # {}
    <3>1. the(o) \in mine(o)
      BY <2>2
    <3> DEFINE i == the(o)
    <3>2. i \in DOMAIN batch.rows /\ batch.rows[i].ordinal = o /\ StillPending(batch.rows[i])
      BY <3>1
    <3>3. rows'[o] = written(o)
      BY <1>2, <2>2
    <3> HIDE DEF mine
    <3>4. Exists(o) /\ rows[o].text = batch.rows[i].text
      BY <3>2 DEF StillPending, PendingById, RowOf
    <3>5. rows[o] \in Alternatives
      BY <3>4 DEF Exists
    <3>6. batch.rows \in Seq(BatchRows) /\ batch.lens \in Seq(Nat \ {0})
      BY <1>1 DEF Batches
    <3>7. batch.rows[i].text \in Nat /\ batch.lens[i] \in Nat
      <4>1. i \in 1..Len(batch.rows) /\ i \in 1..Len(batch.lens)
        BY <1>1, <3>2, <3>6
      <4>2. batch.rows[i] \in BatchRows /\ batch.lens[i] \in Nat
        BY <3>6, <4>1
      <4> QED
        BY <4>2, TextsAreNumbers DEF BatchRows
    <3> DEFINE v == [of |-> batch.rows[i].text, chars |-> batch.lens[i]]
    <3>8. v \in [of : Nat, chars : Nat] /\ v.of = rows[o].text
      BY <3>4, <3>7
    <3>9. rows'[o] = [rows[o] EXCEPT !.vec = v, !.tries = 0]
      BY <3>3
    <3> HIDE DEF i, v
    <3>10. rows'[o] \in Alternatives /\ rows'[o].vec = v /\ rows'[o].text = rows[o].text
      <4> DEFINE w == [rows[o] EXCEPT !.vec = v]
      <4>1. w \in Alternatives /\ w.vec = v /\ w.text = rows[o].text
        BY <3>5, <3>8 DEF Alternatives
      <4>2. rows'[o] = [w EXCEPT !.tries = 0]
        BY <3>9
      <4> HIDE DEF w
      <4> QED
        BY <4>1, <4>2 DEF Alternatives
    <3> QED
      BY <3>8, <3>10
  <2> QED
    BY <2>1, <2>2
<1> QED
  BY <1>3, <1>4 DEF VectorOfItsText, Exists

LEMMA DeferStep ==
    ASSUME EncodersInv, Defer
    PROVE  rows' \in [Ordinals -> Alternatives \cup {NoRow}] /\ VectorOfItsText'
<1> USE DEF EncodersInv, EncodersTypeOK
<1>1. rows' = [o \in Ordinals |-> rows'[o]]
  BY DEF Defer
<1>2. ASSUME NEW o \in Ordinals
      PROVE  /\ rows'[o] \in Alternatives \cup {NoRow}
             /\ rows'[o] # NoRow /\ rows'[o].vec # NoVector => rows'[o].vec.of = rows'[o].text
  <2> DEFINE hit == \E i \in DOMAIN batch.rows : batch.rows[i].ordinal = o /\ RowOf(batch.rows[i])
  <2>1. CASE ~hit
    <3>1. rows'[o] = rows[o]
      BY <2>1 DEF Defer
    <3> QED
      BY <3>1 DEF VectorOfItsText, Exists
  <2>2. CASE hit
    <3>1. Exists(o) /\ rows'[o] = [rows[o] EXCEPT !.tries = Shorter(@ + 1, 1)]
      BY <2>2 DEF Defer, RowOf
    <3>2. rows[o] \in Alternatives
      BY <3>1 DEF Exists
    <3>3. rows[o].tries \in Nat
      BY <3>2 DEF Alternatives
    <3>4. Shorter(rows[o].tries + 1, 1) \in Nat
      BY <3>3 DEF Shorter
    <3>5. rows'[o] \in Alternatives /\ rows'[o].vec = rows[o].vec /\ rows'[o].text = rows[o].text
      BY <3>1, <3>2, <3>4 DEF Alternatives
    <3> QED
      BY <3>1, <3>5 DEF VectorOfItsText
  <2> QED
    BY <2>1, <2>2
<1> QED
  BY <1>1, <1>2 DEF VectorOfItsText, Exists

\* The answers that shrink a text name a request longer than the window.
LEMMA OverrunIsLonger ==
    ASSUME NEW answer \in Advertised, Classify(answer) \in {"mismatch", "overrun"},
           Classify(answer) # "mismatch"
    PROVE  answer[2] > answer[1]
  BY DEF Classify

LEMMA BatchStep ==
    ASSUME EncodersInv, VectorsArrive \/ BatchOverflows \/ BatchFails
    PROVE  batch' \in Batches /\ Len(batch'.lens) = Len(batch'.rows)
<1>1. batch \in Batches /\ Len(batch.lens) = Len(batch.rows)
  <2>1. batch.at = "post"
    BY DEF VectorsArrive, BatchOverflows, BatchFails
  <2>2. NoBatch.at = "idle"
    BY DEF NoBatch
  <2> QED
    BY <2>1, <2>2 DEF EncodersInv, EncodersTypeOK
<1>2. ASSUME NEW at \in {"write", "defer"}, batch' = [batch EXCEPT !.at = at]
      PROVE  batch' \in Batches /\ Len(batch'.lens) = Len(batch'.rows)
  BY <1>1, <1>2 DEF Batches
<1>3. CASE VectorsArrive
  BY <1>2, <1>3 DEF VectorsArrive
<1>4. CASE BatchFails
  <2>1. CASE batch' = [batch EXCEPT !.at = "defer"]
    BY <1>2, <2>1
  <2>2. CASE batch' = [batch EXCEPT !.tries = @ + 1]
    BY <1>1, <2>2 DEF Batches
  <2> QED
    BY <1>4, <2>1, <2>2 DEF BatchFails
<1>5. CASE BatchOverflows
  <2>1. PICK answer \in Advertised :
          /\ Classify(answer) \in {"mismatch", "overrun"}
          /\ batch' =
                IF Classify(answer) = "mismatch" \/ batch.tries = EMBED_RETRIES
                   \/ TooShort(batch.lens, answer)
                THEN [batch EXCEPT !.at = "defer"]
                ELSE [batch EXCEPT !.tries = @ + 1, !.lens = ShrunkMany(@, answer)]
    BY <1>5 DEF BatchOverflows
  <2>2. CASE Classify(answer) = "mismatch" \/ batch.tries = EMBED_RETRIES \/ TooShort(batch.lens, answer)
    BY <1>2, <2>1, <2>2
  <2>3. CASE ~(Classify(answer) = "mismatch" \/ batch.tries = EMBED_RETRIES \/ TooShort(batch.lens, answer))
    <3> DEFINE shorter == ShrunkMany(batch.lens, answer)
    <3>1. batch.lens \in Seq(Nat \ {0})
      BY <1>1 DEF Batches
    <3>2. shorter \in Seq(Nat \ {0}) /\ Len(shorter) = Len(batch.lens)
      BY <2>1, <2>3, <3>1, OverrunIsLonger, ShrunkManyKeep
    <3> DEFINE again == [batch EXCEPT !.tries = @ + 1]
    <3>3. batch' = [again EXCEPT !.lens = shorter]
      BY <1>1, <2>1, <2>3 DEF Batches
    <3>4. again \in Batches /\ again.rows = batch.rows
      BY <1>1 DEF Batches
    <3> HIDE DEF shorter, again
    <3>5. batch' \in Batches /\ batch'.lens = shorter /\ batch'.rows = batch.rows
      BY <3>2, <3>3, <3>4 DEF Batches
    <3> QED
      BY <1>1, <3>2, <3>5
  <2> QED
    BY <2>2, <2>3
<1> QED
  BY <1>3, <1>4, <1>5

\* One text: a save keeps a character of it, a fold two.
LEMMA SingleStep ==
    ASSUME EncodersInv,
           \/ Embed \/ SaveOverflows \/ SaveFails \/ NremOverflows \/ StaleConnection
           \/ RelayFails \/ VectorArrives
    PROVE  single' \in Singles /\ LongEnough'
<1> USE DEF EncodersInv, EncodersTypeOK, LongEnough
<1>1. CASE Embed
  <2>1. PICK by \in {"save", "nrem"}, t \in Texts :
          single' = [by |-> by, text |-> t, len |-> Clamped(t), tries |-> 1,
                     at |-> "post", stale |-> FALSE]
    BY <1>1 DEF Embed
  <2>2. Clamped(t) \in Nat \ {0} /\ Clamped(t) >= Shorter(2, t)
    BY ClampIsLongEnough
  <2>3. single' \in Singles
    BY <2>1, <2>2 DEF Singles
  <2> QED
    BY <2>1, <2>2, <2>3
<1>2. ASSUME single.at = "post" PROVE single \in Singles
  <2>1. NoText.at = "idle"
    BY DEF NoText
  <2> QED
    BY <1>2, <2>1
<1>3. ASSUME single.at = "post", NEW at \in {"raised", "none", "vector"}, single' = EndedAs(at)
      PROVE  single' \in Singles /\ LongEnough'
  <2>1. single' = [single EXCEPT !.at = at] /\ single \in Singles
    BY <1>2, <1>3 DEF EndedAs
  <2>2. /\ single' \in Singles
        /\ single'.by = single.by /\ single'.len = single.len /\ single'.text = single.text
    BY <2>1 DEF Singles
  <2> QED
    BY <2>2
<1>4. CASE RelayFails
  <2>1. single.at = "post" /\ single' = EndedAs("none")
    BY <1>4 DEF RelayFails
  <2> QED
    BY <1>3, <2>1
<1>5. CASE VectorArrives
  <2>1. single.at = "post" /\ single' = EndedAs("vector")
    BY <1>5 DEF VectorArrives
  <2> QED
    BY <1>3, <2>1
<1>6. CASE StaleConnection
  <2>1. single' = [single EXCEPT !.stale = TRUE] /\ single \in Singles
    BY <1>2, <1>6 DEF StaleConnection
  <2>2. /\ single' \in Singles
        /\ single'.by = single.by /\ single'.len = single.len /\ single'.text = single.text
    BY <2>1 DEF Singles
  <2> QED
    BY <2>2
<1>7. CASE SaveFails
  <2>1. single.at = "post" /\ single \in Singles
    BY <1>2, <1>7 DEF SaveFails
  <2>2. CASE single' = EndedAs("raised")
    BY <1>3, <2>1, <2>2
  <2>3. CASE single' = [single EXCEPT !.tries = @ + 1]
    <3>1. /\ single' \in Singles
          /\ single'.by = single.by /\ single'.len = single.len /\ single'.text = single.text
      BY <2>1, <2>3 DEF Singles
    <3> QED
      BY <3>1
  <2> QED
    BY <1>7, <2>2, <2>3 DEF SaveFails
<1>8. CASE SaveOverflows
  <2>1. single.by = "save" /\ single.at = "post" /\ single \in Singles
    BY <1>2, <1>8 DEF SaveOverflows
  <2>2. PICK answer \in Advertised :
          /\ Classify(answer) \in {"mismatch", "overrun"}
          /\ single' = IF \/ Classify(answer) = "mismatch"
                          \/ single.tries = EMBED_RETRIES
                          \/ ShrunkOne(single.len, answer) < 1
                       THEN EndedAs("raised")
                       ELSE [single EXCEPT !.tries = @ + 1,
                                           !.len = ShrunkOne(@, answer)]
    BY <1>8 DEF SaveOverflows
  <2>3. CASE single' = EndedAs("raised")
    BY <1>3, <2>1, <2>3
  <2>4. CASE single' # EndedAs("raised")
    <3>1. answer[2] > answer[1] /\ ~(ShrunkOne(single.len, answer) < 1)
      BY <2>2, <2>4, OverrunIsLonger
    <3>2. PICK n \in Nat \ {0} : single.len = n
      BY <2>1 DEF Singles
    <3>3. PICK m \in Nat : InProportion(n, answer) = m
      BY <3>1, <3>2, ProportionIsNumber
    <3>4. ShrunkOne(n, answer) \in Int
      BY <3>2, <3>3, TextsAreNumbers DEF ShrunkOne, Shorter
    <3>5. PICK k \in Nat \ {0} : ShrunkOne(single.len, answer) = k
      BY <3>1, <3>2, <3>4
    <3> DEFINE again == [single EXCEPT !.tries = @ + 1]
    <3>6. single' = [again EXCEPT !.len = k]
      BY <2>1, <2>2, <2>4, <3>5 DEF Singles
    <3>7. again \in Singles /\ again.by = "save"
      BY <2>1 DEF Singles
    <3> HIDE DEF again
    <3>8. single' \in Singles /\ single'.by = "save"
      BY <3>6, <3>7 DEF Singles
    <3> QED
      BY <3>8
  <2> QED
    BY <2>3, <2>4
<1>9. CASE NremOverflows
  <2>1. single.by = "nrem" /\ single.at = "post" /\ single \in Singles
    BY <1>2, <1>9 DEF NremOverflows
  <2>2. PICK answer \in Advertised :
          single' = IF \/ Classify(answer) = "mismatch"
                       \/ Rejected(single.len, answer) < 2
                       \/ Rejected(single.len, answer) >= single.len
                       \/ single.tries = OVERFLOW_ATTEMPTS
                    THEN EndedAs("none")
                    ELSE [single EXCEPT !.tries = @ + 1, !.len = Rejected(single.len, answer),
                                        !.stale = FALSE]
    BY <1>9 DEF NremOverflows
  <2>3. CASE single' = EndedAs("none")
    BY <1>3, <2>1, <2>3
  <2>4. CASE single' # EndedAs("none")
    <3>1. ~(Rejected(single.len, answer) < 2)
      BY <2>2, <2>4
    <3>2. PICK n \in Nat \ {0} : single.len = n
      BY <2>1 DEF Singles
    <3>3. Rejected(n, answer) \in Int
      <4> DEFINE scaled == IF answer[1] > 0 /\ answer[2] > answer[1]
                           THEN Shorter(n - 1, InProportion(n, answer)) ELSE n \div 2
      <4>1. n \div 2 \in Int
        BY <3>2
      <4>2. scaled \in Int
        <5>1. CASE answer[1] > 0 /\ answer[2] > answer[1]
          <6>1. InProportion(n, answer) \in Int
            BY <5>1, ProportionIsNumber
          <6> QED
            BY <5>1, <6>1 DEF Shorter
        <5> QED
          BY <4>1, <5>1
      <4>3. Rejected(n, answer) = CASE n > ReservedClamp -> Shorter(ReservedClamp, n - 1)
                                    [] n <= ReservedClamp /\ scaled * 10 >= n * 9 -> n \div 2
                                    [] OTHER -> scaled
        BY DEF Rejected
      <4> HIDE DEF scaled
      <4>4. Shorter(ReservedClamp, n - 1) \in Int
        BY TextsAreNumbers DEF Shorter
      <4> QED
        BY <4>1, <4>2, <4>3, <4>4
    <3>4. PICK k \in Nat \ {0} : Rejected(single.len, answer) = k /\ k >= 2
      BY <3>1, <3>2, <3>3
    <3> DEFINE again == [single EXCEPT !.tries = @ + 1]
               fresher == [again EXCEPT !.len = k]
    <3>5. single' = [fresher EXCEPT !.stale = FALSE]
      BY <2>1, <2>2, <2>4, <3>4 DEF Singles
    <3>6. again \in Singles
      BY <2>1 DEF Singles
    <3>7. fresher \in Singles /\ fresher.len = k
      <4> HIDE DEF again
      <4> QED
        BY <3>6 DEF Singles
    <3> HIDE DEF fresher
    <3>8. single' \in Singles /\ single'.len = k
      BY <3>5, <3>7 DEF Singles
    <3>9. single'.text \in Nat
      BY <3>8, TextsAreNumbers DEF Singles
    <3> QED
      BY <3>4, <3>8, <3>9 DEF Shorter
  <2> QED
    BY <2>3, <2>4
<1> QED
  BY <1>1, <1>4, <1>5, <1>6, <1>7, <1>8, <1>9

LEMMA EncodersStep == ASSUME EncodersInv, [EncodersNext]_encoderVars PROVE EncodersInv'
<1> USE DEF EncodersInv, EncodersTypeOK
<1>1. ASSUME UNCHANGED rows PROVE VectorOfItsText'
  BY <1>1 DEF VectorOfItsText, Exists
<1>2. ASSUME UNCHANGED single PROVE LongEnough'
  BY <1>2 DEF LongEnough
<1>3. CASE SaveDecision
  BY <1>2, <1>3, SaveDecisionStep DEF SaveDecision
<1>4. CASE FetchPending
  BY <1>1, <1>2, <1>4, FetchPendingStep DEF FetchPending
<1>5. CASE VectorsArrive \/ BatchOverflows \/ BatchFails
  <2>1. UNCHANGED <<rows, saves, single>>
    BY <1>5 DEF VectorsArrive, BatchOverflows, BatchFails
  <2>2. batch' \in Batches /\ Len(batch'.lens) = Len(batch'.rows)
    BY <1>5, BatchStep
  <2> QED
    BY <1>1, <1>2, <2>1, <2>2
<1>6. CASE WriteVectors
  BY <1>2, <1>6, WriteVectorsStep DEF WriteVectors
<1>7. CASE WriteFails
  BY <1>1, <1>2, <1>7 DEF WriteFails
<1>8. CASE Defer
  BY <1>2, <1>8, DeferStep DEF Defer
<1>9. CASE \/ Embed \/ SaveOverflows \/ SaveFails \/ NremOverflows \/ StaleConnection
           \/ RelayFails \/ VectorArrives
  <2>1. UNCHANGED <<rows, saves, batch>>
    BY <1>9 DEF Embed, SaveOverflows, SaveFails, NremOverflows, StaleConnection, RelayFails, VectorArrives
  <2>2. single' \in Singles /\ LongEnough'
    BY <1>9, SingleStep
  <2> QED
    BY <1>1, <2>1, <2>2
<1>10. CASE CallEnds
  <2>1. single' = NoText /\ LongEnough'
    BY <1>10 DEF CallEnds, NoText, LongEnough
  <2> QED
    BY <1>1, <1>10, <2>1 DEF CallEnds
<1>11. CASE ProbeWindow \/ EncoderSilent \/ WindowAnswered \/ FullPayloadAnswered \/ UNCHANGED encoderVars
  <2>1. UNCHANGED <<rows, saves, batch, single>>
    BY <1>11 DEF ProbeWindow, EncoderSilent, WindowAnswered, FullPayloadAnswered, encoderVars
  <2> QED
    BY <1>1, <1>2, <2>1
<1> QED
  BY <1>3, <1>4, <1>5, <1>6, <1>7, <1>8, <1>9, <1>10, <1>11 DEF EncodersNext

\* Whatever saves happen while the worker is at the embedder, a row's vector is that
\* of its own text; and no overflow shrinks a text to nothing.
THEOREM EncodersCorrect == EncodersSpec => []VectorsStandForTexts
<1>1. EncodersInit => EncodersInv
  <2> SUFFICES ASSUME EncodersInit PROVE EncodersInv
    OBVIOUS
  <2>1. single = NoText /\ single.by = "none"
    BY DEF EncodersInit, NoText
  <2> QED
    BY <2>1 DEF EncodersInit, EncodersInv, EncodersTypeOK, VectorOfItsText, LongEnough, Exists
<1>2. EncodersInv /\ [EncodersNext]_encoderVars => EncodersInv'
  BY EncodersStep
<1>3. EncodersInv => VectorsStandForTexts
  <2> SUFFICES ASSUME EncodersInv PROVE NothingIsShrunkAway
    BY DEF EncodersInv, VectorsStandForTexts
  <2> USE DEF EncodersInv, EncodersTypeOK
  <2>1. batch # NoBatch => \A i \in DOMAIN batch.lens : batch.lens[i] >= 1
    <3> SUFFICES ASSUME batch # NoBatch, NEW i \in DOMAIN batch.lens PROVE batch.lens[i] >= 1
      OBVIOUS
    <3>1. batch.lens \in Seq(Nat \ {0})
      BY DEF Batches
    <3>2. batch.lens[i] \in Nat \ {0}
      BY <3>1
    <3> QED
      BY <3>2
  <2>2. single.by # "none" => single.len >= 1
    <3> SUFFICES ASSUME single.by # "none" PROVE single.len >= 1
      OBVIOUS
    <3>1. single.len \in Nat \ {0}
      BY DEF NoText, Singles
    <3> QED
      BY <3>1
  <2> QED
    BY <2>1, <2>2 DEF NothingIsShrunkAway, LongEnough
<1> QED
  BY <1>1, <1>2, <1>3, PTL DEF EncodersSpec

-----------------------------------------------------------------------------
(***************************************************************************)
(* Ingress: the axes a record is filed under, in Postgres and in the graph.*)
(***************************************************************************)
\* No other name is spelled like the sentinel. The gateway refuses such an entity
\* (coordinator.py:1040), but not such a project (5659).
SentinelIsAlone == \A n \in Spelled : AxisKey(n) = AxisKey(SENTINEL) => n = SENTINEL

\* What is about Postgres alone.
FilingInv ==
    IngressTypeOK /\ KeysAreUnique /\ GatesPassed /\ RecordIsFiled /\ ParkedIsBare /\ LooksStand

Passed(s) == ProjectPassed(s) /\ SectionsPassed(s) /\ EntitiesPassed(s)
RegistriesGrow == projects \subseteq projects' /\ sections \subseteq sections' /\ vocab \subseteq vocab'

LEMMA SectionsGrow == ASSUME RegistriesGrow, NEW p PROVE SectionsOf(p) \subseteq SectionsOf(p)'
  BY DEF RegistriesGrow, SectionsOf

\* A save that stands still keeps what it has established: names are only added.
LEMMA StandingPasses ==
    ASSUME NEW s \in Savers, Passed(s), flight'[s] = flight[s], RegistriesGrow
    PROVE  Passed(s)'
<1>1. ProjectPassed(s)'
  BY DEF Passed, ProjectPassed, At, Req, Axes, RegistriesGrow
<1>2. SectionsPassed(s)'
  BY SectionsGrow DEF Passed, SectionsPassed
<1>3. EntitiesPassed(s)'
  BY DEF Passed, EntitiesPassed, RegistriesGrow, At, Req
<1> QED
  BY <1>1, <1>2, <1>3 DEF Passed

\* A step of one save leaves the others where they are.
LEMMA OthersStand ==
    ASSUME IngressTypeOK, NEW s \in Savers, SaveStep(s), NEW t \in Savers \ {s}
    PROVE  flight'[t] = flight[t]
<1>1. flight \in [Savers -> SaveTypes \cup {NoSave}]
  BY DEF IngressTypeOK
<1>2. CASE ArriveSave(s)
  BY <1>1, <1>2 DEF ArriveSave
<1>3. CASE GateEntities(s) \/ GateProject(s) \/ GateNewProject(s) \/ GateSections(s)
  BY <1>1, <1>3 DEF GateEntities, GateProject, GateNewProject, GateSections, Refused, Goes, DeferProject
<1>4. CASE PreCheck(s) \/ RegisterProject(s) \/ RegisterSection(s) \/ MintEntity(s)
  BY <1>1, <1>4 DEF PreCheck, RegisterProject, RegisterSection, MintEntity, Refused, Goes
<1>5. CASE EmbedContent(s) \/ TxLook(s) \/ TxWrite(s)
  BY <1>1, <1>5 DEF EmbedContent, TxLook, TxWrite, Refused, Goes
<1> QED
  BY <1>2, <1>3, <1>4, <1>5 DEF SaveStep

\* A refused save has nothing to keep.
LEMMA RefusedPasses == ASSUME IngressTypeOK, NEW s \in Savers, Refused(s) PROVE Passed(s)' /\ flight'[s] = NoSave
<1>1. flight'[s] = NoSave
  BY DEF Refused, IngressTypeOK
<1> QED
  BY <1>1 DEF Passed, ProjectPassed, SectionsPassed, EntitiesPassed, NoSave, At

\* The fields of a save at a gate.
LEMMA CallFields ==
    ASSUME IngressTypeOK, NEW s \in Savers, flight[s].at # "none"
    PROVE  /\ flight[s] \in SaveTypes /\ Req(s) \in Saves
           /\ Req(s).content \in Contents /\ Req(s).project \in Spelled
           /\ Req(s).sections \subseteq Spelled /\ Req(s).entities \subseteq Spelled
           /\ Req(s).newEntities \subseteq Spelled /\ Req(s).cites \subseteq Contents
           /\ Req(s).kind \in {"fact", "decision"}
<1>1. flight[s] \in SaveTypes
  BY DEF IngressTypeOK, NoSave
<1>2. Req(s) \in Saves
  BY <1>1 DEF Req, SaveTypes
<1>3. \A r \in Saves : /\ r.content \in Contents /\ r.project \in Spelled /\ r.sections \subseteq Spelled
                       /\ r.entities \subseteq Spelled /\ r.newEntities \subseteq Spelled
                       /\ r.cites \subseteq Contents /\ r.kind \in {"fact", "decision"}
  BY IngressAssumption
<1> QED
  BY <1>1, <1>2, <1>3

LEMMA ArrivePasses ==
    ASSUME FilingInv, NEW s \in Savers, ArriveSave(s)
    PROVE  Passed(s)' /\ flight'[s] \in SaveTypes /\ flight'[s].at = "entities"
<1>1. PICK r \in Saves :
        flight'[s] = [at |-> "entities", req |-> r, project |-> r.project,
                      sections |-> r.sections, entities |-> r.entities,
                      mint |-> {}, registers |-> FALSE, adds |-> {}, sawNone |-> FALSE]
  BY DEF ArriveSave, FilingInv, IngressTypeOK
<1>2. r.project \in Spelled /\ r.sections \subseteq Spelled /\ r.entities \subseteq Spelled
  BY IngressAssumption
<1>3. flight'[s] \in SaveTypes
  BY <1>1, <1>2 DEF SaveTypes
<1>4. Passed(s)'
  BY <1>1 DEF Passed, ProjectPassed, SectionsPassed, EntitiesPassed, At, Req
<1> QED
  BY <1>1, <1>3, <1>4

\* Each name a save keeps is in the vocabulary or will be minted.
LEMMA GateEntitiesPasses ==
    ASSUME FilingInv, NEW s \in Savers, GateEntities(s)
    PROVE  Passed(s)' /\ flight'[s] \in SaveTypes \cup {NoSave} /\ flight'[s].at \in {"none", "project"}
<1>1. CASE Refused(s)
  BY <1>1, RefusedPasses DEF FilingInv, NoSave
<1>2. CASE ~Refused(s)
  <2> DEFINE m == {e \in flight[s].mint \cup Req(s).newEntities : Canonical(e) = {}}
             k == Rewritten(flight[s].entities)
  <2>1. /\ ~EntitiesRefused(Req(s)) /\ flight[s].at = "entities"
        /\ flight' = [flight EXCEPT ![s].at = "project", ![s].mint = m, ![s].entities = k]
    BY <1>2 DEF GateEntities, At
  <2>2. /\ flight[s] \in SaveTypes /\ Req(s).newEntities \subseteq Spelled
        /\ flight \in [Savers -> SaveTypes \cup {NoSave}]
    BY <2>1, CallFields DEF FilingInv, IngressTypeOK
  <2>3. flight'[s] = [flight[s] EXCEPT !.at = "project", !.mint = m, !.entities = k]
    BY <2>1, <2>2
  <2>4. k \subseteq Spelled /\ k \subseteq vocab \cup m
    <3>1. \A e \in flight[s].entities : Canonical(e) = {} => e \in Req(s).newEntities
      BY <2>1 DEF EntitiesRefused, FilingInv, GatesPassed, EntitiesPassed, At
    <3> QED
      BY <2>2, <3>1 DEF Rewritten, Canonical, SaveTypes, FilingInv, IngressTypeOK
  <2>5. m \subseteq Spelled
    BY <2>2 DEF SaveTypes
  <2> HIDE DEF m, k
  <2>6. flight'[s] \in SaveTypes
    BY <2>2, <2>3, <2>4, <2>5 DEF SaveTypes
  <2>7. ProjectPassed(s) /\ SectionsPassed(s)
    BY DEF FilingInv, GatesPassed
  <2>8. UNCHANGED registries
    BY DEF GateEntities
  <2>9. /\ flight'[s].at = "project" /\ flight'[s].entities = k /\ flight'[s].mint = m
        /\ flight'[s].req = flight[s].req /\ flight'[s].project = flight[s].project
        /\ flight'[s].registers = flight[s].registers
    BY <2>2, <2>3 DEF SaveTypes
  <2>10. Passed(s)'
    BY <2>1, <2>4, <2>7, <2>8, <2>9
       DEF Passed, ProjectPassed, SectionsPassed, EntitiesPassed, At, Req, registries
  <2> QED
    BY <2>6, <2>9, <2>10
<1> QED
  BY <1>1, <1>2

\* What a name stands for is registered.
LEMMA MeantIsRegistered ==
    ASSUME KeysAreUnique, NEW name \in Spelled, name \notin projects,
           NEW p \in Meant(name, projects, Aliases)
    PROVE  p \in projects
<1>1. \A a \in Aliases : a[2] \in projects
  BY IngressAssumption DEF KeysAreUnique
<1> QED
  BY <1>1 DEF Meant, AliasOf, Keyed

LEMMA GateProjectPasses ==
    ASSUME FilingInv, NEW s \in Savers, GateProject(s)
    PROVE  /\ Passed(s)' /\ flight'[s] \in SaveTypes \cup {NoSave}
           /\ flight'[s].at \in {"none", "sections", "newProject"}
<1>1. CASE Refused(s)
  BY <1>1, RefusedPasses DEF FilingInv, NoSave
<1>2. /\ flight[s].at = "project" /\ flight[s] \in SaveTypes /\ Req(s).project \in Spelled
      /\ flight \in [Savers -> SaveTypes \cup {NoSave}]
      /\ flight[s].project = Req(s).project /\ ~flight[s].registers
      /\ ProjectPassed(s) /\ EntitiesPassed(s) /\ UNCHANGED registries
  BY CallFields DEF GateProject, FilingInv, IngressTypeOK, GatesPassed, ProjectPassed, At
<1>3. ASSUME NEW p \in projects \cup {SENTINEL}, flight'[s] = [flight[s] EXCEPT !.at = "sections", !.project = p]
      PROVE  Passed(s)' /\ flight'[s] \in SaveTypes /\ flight'[s].at = "sections"
  <2>1. p \in Spelled
    BY <1>3, IngressAssumption DEF FilingInv, IngressTypeOK
  <2>2. /\ flight'[s].at = "sections" /\ flight'[s].project = p /\ ~flight'[s].registers
        /\ flight'[s].entities = flight[s].entities /\ flight'[s].mint = flight[s].mint
    BY <1>2, <1>3 DEF SaveTypes
  <2>3. flight'[s] \in SaveTypes
    BY <1>2, <1>3, <2>1 DEF SaveTypes
  <2> QED
    BY <1>2, <1>3, <2>2, <2>3
       DEF Passed, ProjectPassed, SectionsPassed, EntitiesPassed, At, Axes, registries
<1>4. CASE Req(s).project \in projects \cup {SENTINEL} /\ Goes(s, "sections")
  <2>1. flight'[s] = [flight[s] EXCEPT !.at = "sections", !.project = Req(s).project]
    <3>1. flight'[s] = [flight[s] EXCEPT !.at = "sections"]
      BY <1>2, <1>4 DEF Goes
    <3> QED
      BY <1>2, <3>1 DEF SaveTypes
  <2> QED
    BY <1>3, <1>4, <2>1
<1>5. CASE Req(s).project \notin projects \cup {SENTINEL} /\ Goes(s, "newProject")
  <2>1. flight'[s] = [flight[s] EXCEPT !.at = "newProject"]
    BY <1>2, <1>5 DEF Goes
  <2>2. /\ flight'[s].at = "newProject" /\ flight'[s].project = flight[s].project
        /\ ~flight'[s].registers /\ flight'[s].req = flight[s].req
        /\ flight'[s].entities = flight[s].entities /\ flight'[s].mint = flight[s].mint
        /\ flight'[s] \in SaveTypes
    BY <1>2, <2>1 DEF SaveTypes
  <2> QED
    BY <1>2, <1>5, <2>2
       DEF Passed, ProjectPassed, SectionsPassed, EntitiesPassed, At, Req, registries
<1>6. ASSUME NEW p \in Meant(Req(s).project, projects, Aliases), Req(s).project \notin projects \cup {SENTINEL},
             flight' = [flight EXCEPT ![s].at = "sections", ![s].project = p]
      PROVE  Passed(s)' /\ flight'[s] \in SaveTypes /\ flight'[s].at = "sections"
  <2>1. p \in projects
    BY <1>2, <1>6, MeantIsRegistered DEF FilingInv
  <2>2. flight'[s] = [flight[s] EXCEPT !.at = "sections", !.project = p]
    BY <1>2, <1>6
  <2> QED
    BY <1>3, <2>1, <2>2
<1> QED
  BY <1>1, <1>4, <1>5, <1>6 DEF GateProject

\* A name declared new is not an alias in another spelling.
LEMMA GateNewProjectPasses ==
    ASSUME FilingInv, NEW s \in Savers, GateNewProject(s)
    PROVE  Passed(s)' /\ flight'[s] \in SaveTypes \cup {NoSave} /\ flight'[s].at \in {"none", "sections"}
<1>1. CASE Refused(s)
  BY <1>1, RefusedPasses DEF FilingInv, NoSave
<1>2. CASE DeferProject(s) /\ MayBeNew(Req(s).project, projects, Aliases, Req(s).confirmed)
  <2>1. /\ flight[s].at = "newProject" /\ flight[s] \in SaveTypes
        /\ flight \in [Savers -> SaveTypes \cup {NoSave}]
        /\ flight[s].project = Req(s).project /\ Req(s).project # SENTINEL
        /\ EntitiesPassed(s) /\ UNCHANGED registries
    BY CallFields DEF GateNewProject, FilingInv, IngressTypeOK, GatesPassed, ProjectPassed, At
  <2>2. flight'[s] = [flight[s] EXCEPT !.at = "sections", !.registers = TRUE]
    BY <1>2, <2>1 DEF DeferProject
  <2>3. /\ flight'[s].at = "sections" /\ flight'[s].project = flight[s].project
        /\ flight'[s].registers /\ flight'[s].entities = flight[s].entities
        /\ flight'[s].mint = flight[s].mint /\ flight'[s] \in SaveTypes
    BY <2>1, <2>2 DEF SaveTypes
  <2>4. MayRegister(Req(s).project)
    BY <1>2, <2>1 DEF MayBeNew, Variant, MayRegister
  <2>5. MayRegister(flight'[s].project)
    BY <2>1, <2>3, <2>4
  <2> QED
    BY <2>1, <2>3, <2>5
       DEF Passed, ProjectPassed, SectionsPassed, EntitiesPassed, At, Req, registries
<1> QED
  BY <1>1, <1>2 DEF GateNewProject

\* The sections a record is filed under are the project's, or will be registered.
LEMMA SectionsFiled ==
    ASSUME IngressTypeOK, NEW s \in Savers, At(s, "sections"),
           ~(Req(s).sections # {} /\ flight[s].project = SENTINEL),
           \A n \in Req(s).sections : SectionOk(s, n)
    PROVE  /\ FiledSections(s) \subseteq Spelled /\ DeferredSections(s) \subseteq Spelled
           /\ FiledSections(s) \ DeferredSections(s) \subseteq SectionsOf(flight[s].project)
           /\ flight[s].project = SENTINEL => FiledSections(s) = {}
           /\ \A n \in DeferredSections(s) : ~Unnameable(n)
<1> DEFINE here == SectionsOf(flight[s].project)
<1>1. Req(s).sections \subseteq Spelled
  BY CallFields DEF At
<1>2. here \subseteq Spelled
  BY DEF SectionsOf, IngressTypeOK
<1>3. \A n \in Req(s).sections : Meant(n, here, {}) \subseteq here
  BY DEF Meant, AliasOf, Keyed
<1>4. CASE Req(s).newDomain
  <2>1. FiledSections(s) = Req(s).sections /\ DeferredSections(s) = Req(s).sections \ here
    BY <1>4 DEF FiledSections, DeferredSections
  <2>2. ASSUME NEW n \in Req(s).sections \ here PROVE ~Unnameable(n)
    BY <1>4, <2>2 DEF SectionOk, NewProjectSectionOk, SectionMayBeNew, MayBeNew
  <2> QED
    BY <1>1, <2>1, <2>2
<1>5. CASE ~Req(s).newDomain
  <2>1. DeferredSections(s) = {} /\ FiledSections(s) = UNION {Meant(n, here, {}) : n \in Req(s).sections}
    BY <1>5 DEF FiledSections, DeferredSections
  <2>2. FiledSections(s) \subseteq here
    BY <1>3, <2>1
  <2> QED
    BY <1>2, <2>1, <2>2
<1> QED
  BY <1>4, <1>5

LEMMA GateSectionsPasses ==
    ASSUME FilingInv, NEW s \in Savers, GateSections(s)
    PROVE  Passed(s)' /\ flight'[s] \in SaveTypes \cup {NoSave} /\ flight'[s].at \in {"none", "precheck"}
<1>1. CASE Refused(s)
  BY <1>1, RefusedPasses DEF FilingInv, NoSave
<1>2. CASE ~Refused(s)
  <2> DEFINE f == FiledSections(s)
             d == DeferredSections(s)
  <2>1. /\ flight[s].at = "sections" /\ flight[s] \in SaveTypes
        /\ flight \in [Savers -> SaveTypes \cup {NoSave}]
        /\ ProjectPassed(s) /\ EntitiesPassed(s) /\ UNCHANGED registries
    BY <1>2, CallFields DEF GateSections, FilingInv, IngressTypeOK, GatesPassed, At
  <2>2. /\ ~(Req(s).sections # {} /\ flight[s].project = SENTINEL)
        /\ \A n \in Req(s).sections : SectionOk(s, n)
        /\ flight' = [flight EXCEPT ![s].at = "precheck", ![s].adds = d, ![s].sections = f]
    BY <1>2 DEF GateSections
  <2>3. /\ f \subseteq Spelled /\ d \subseteq Spelled
        /\ f \ d \subseteq SectionsOf(flight[s].project)
        /\ flight[s].project = SENTINEL => f = {}
        /\ \A n \in d : ~Unnameable(n)
    BY <2>1, <2>2, SectionsFiled DEF FilingInv, At
  <2> HIDE DEF f, d
  <2>4. flight'[s] = [flight[s] EXCEPT !.at = "precheck", !.adds = d, !.sections = f]
    BY <2>1, <2>2
  <2>5. /\ flight'[s].at = "precheck" /\ flight'[s].project = flight[s].project
        /\ flight'[s].registers = flight[s].registers /\ flight'[s].entities = flight[s].entities
        /\ flight'[s].mint = flight[s].mint /\ flight'[s].adds = d /\ flight'[s].sections = f
        /\ flight'[s] \in SaveTypes
    BY <2>1, <2>3, <2>4 DEF SaveTypes
  <2>6. ProjectPassed(s)' /\ EntitiesPassed(s)'
    BY <2>1, <2>5 DEF ProjectPassed, EntitiesPassed, At, Req, Axes, registries
  <2>7. SectionsPassed(s)'
    BY <2>1, <2>3, <2>5 DEF SectionsPassed, SectionsOf, registries
  <2> QED
    BY <2>5, <2>6, <2>7 DEF Passed
<1> QED
  BY <1>1, <1>2

LEMMA PreCheckPasses ==
    ASSUME FilingInv, NEW s \in Savers, PreCheck(s)
    PROVE  Passed(s)' /\ flight'[s] \in SaveTypes \cup {NoSave} /\ flight'[s].at \in {"none", "register"}
<1>1. CASE Refused(s)
  BY <1>1, RefusedPasses DEF FilingInv, NoSave
<1>2. CASE ~Refused(s)
  <2>1. /\ flight[s].at = "precheck" /\ flight[s] \in SaveTypes
        /\ flight \in [Savers -> SaveTypes \cup {NoSave}]
        /\ ProjectPassed(s) /\ SectionsPassed(s) /\ EntitiesPassed(s) /\ UNCHANGED registries
    BY <1>2, CallFields DEF PreCheck, FilingInv, IngressTypeOK, GatesPassed, At
  <2>2. flight'[s] = [flight[s] EXCEPT !.at = "register"]
    BY <1>2, <2>1 DEF PreCheck, Goes
  <2>3. /\ flight'[s].at = "register" /\ flight'[s].project = flight[s].project
        /\ flight'[s].registers = flight[s].registers /\ flight'[s].entities = flight[s].entities
        /\ flight'[s].mint = flight[s].mint /\ flight'[s].adds = flight[s].adds
        /\ flight'[s].sections = flight[s].sections /\ flight'[s] \in SaveTypes
    BY <2>1, <2>2 DEF SaveTypes
  <2>4. ProjectPassed(s)' /\ EntitiesPassed(s)'
    BY <2>1, <2>3 DEF ProjectPassed, EntitiesPassed, At, Req, Axes, registries
  <2>5. SectionsPassed(s)'
    BY <2>1, <2>3 DEF SectionsPassed, SectionsOf, registries
  <2> QED
    BY <2>3, <2>4, <2>5 DEF Passed
<1> QED
  BY <1>1, <1>2

\* A registration adds a name whose key nobody holds, or finds that very name.
LEMMA RegisterProjectPasses ==
    ASSUME FilingInv, NEW s \in Savers, RegisterProject(s)
    PROVE  /\ Passed(s)' /\ flight'[s] \in SaveTypes \cup {NoSave}
           /\ flight'[s].at \in {"none", "registerSections"}
           /\ RegistriesGrow /\ KeysAreUnique' /\ projects' \subseteq Spelled
           /\ UNCHANGED <<sections, vocab>>
<1>1. /\ flight[s].at = "register" /\ flight[s] \in SaveTypes
      /\ flight \in [Savers -> SaveTypes \cup {NoSave}] /\ projects \subseteq Spelled
      /\ ProjectPassed(s) /\ SectionsPassed(s) /\ EntitiesPassed(s)
      /\ KeysAreUnique /\ UNCHANGED <<sections, vocab>>
  BY CallFields DEF RegisterProject, FilingInv, IngressTypeOK, GatesPassed, At
<1>2. CASE Refused(s) /\ UNCHANGED projects
  BY <1>1, <1>2, RefusedPasses DEF FilingInv, NoSave, RegistriesGrow, KeysAreUnique
<1>3. CASE /\ Goes(s, "registerSections") /\ ~(flight[s].registers /\ ~Insertable(flight[s].project, projects))
           /\ projects' = IF flight[s].registers
                          THEN projects \cup InsertsNewKeys(flight[s].project, projects)
                          ELSE projects
  <2> DEFINE p == flight[s].project
  <2>1. flight'[s] = [flight[s] EXCEPT !.at = "registerSections"]
    BY <1>1, <1>3 DEF Goes
  <2>2. /\ flight'[s].at = "registerSections" /\ flight'[s].project = p
        /\ flight'[s].entities = flight[s].entities
        /\ flight'[s].mint = flight[s].mint /\ flight'[s].adds = flight[s].adds
        /\ flight'[s].sections = flight[s].sections /\ flight'[s] \in SaveTypes
        /\ p \in Spelled
    BY <1>1, <2>1 DEF SaveTypes
  <2>3. \/ projects' = projects /\ p \in projects \cup {SENTINEL}
        \/ MayRegister(p) /\ ~HeldByKey(p, projects) /\ projects' = projects \cup {p}
    BY <1>1, <1>3 DEF ProjectPassed, Axes, InsertsNewKeys, Insertable
  <2>4. projects \subseteq projects' /\ p \in projects' \cup {SENTINEL} /\ projects' \subseteq Spelled
    BY <1>1, <2>2, <2>3
  <2>5. KeysAreUnique'
    <3>1. CASE projects' = projects
      BY <1>1, <3>1 DEF KeysAreUnique
    <3>2. CASE MayRegister(p) /\ ~HeldByKey(p, projects) /\ projects' = projects \cup {p}
      <4>1. p # SENTINEL /\ \A a \in Aliases : a[1] # p
        BY <3>2 DEF MayRegister, SameSpelling
      <4>2. \A q \in projects : AxisKey(q) # AxisKey(p)
        BY <3>2 DEF MayRegister, HeldByKey, SameSpelling, Unnameable
      <4> QED
        BY <1>1, <3>2, <4>1, <4>2 DEF KeysAreUnique
    <3> QED
      BY <2>3, <3>1, <3>2
  <2>6. ProjectPassed(s)' /\ EntitiesPassed(s)'
    BY <1>1, <2>2, <2>4 DEF ProjectPassed, EntitiesPassed, At, Req, Axes
  <2>7. SectionsPassed(s)'
    BY <1>1, <2>2 DEF SectionsPassed, SectionsOf
  <2> QED
    BY <1>1, <2>2, <2>4, <2>5, <2>6, <2>7 DEF Passed, RegistriesGrow
<1> QED
  BY <1>2, <1>3 DEF RegisterProject

LEMMA RegisterSectionPasses ==
    ASSUME FilingInv, NEW s \in Savers, RegisterSection(s)
    PROVE  /\ Passed(s)' /\ flight'[s] \in SaveTypes \cup {NoSave}
           /\ flight'[s].at \in {"none", "registerSections", "mint"}
           /\ RegistriesGrow /\ KeysAreUnique' /\ sections' \subseteq Spelled \X Spelled
           /\ UNCHANGED <<projects, vocab>>
<1> DEFINE p == flight[s].project
           here == SectionsOf(flight[s].project)
<1>1. /\ flight[s].at = "registerSections" /\ flight[s] \in SaveTypes
      /\ flight \in [Savers -> SaveTypes \cup {NoSave}] /\ sections \subseteq Spelled \X Spelled
      /\ ProjectPassed(s) /\ SectionsPassed(s) /\ EntitiesPassed(s)
      /\ KeysAreUnique /\ UNCHANGED <<projects, vocab>>
  BY CallFields DEF RegisterSection, FilingInv, IngressTypeOK, GatesPassed, At
<1>2. CASE Refused(s) /\ UNCHANGED sections
  BY <1>1, <1>2, RefusedPasses DEF FilingInv, NoSave, RegistriesGrow, KeysAreUnique
<1>3. CASE flight[s].adds = {} /\ Goes(s, "mint") /\ UNCHANGED sections
  <2>1. flight'[s] = [flight[s] EXCEPT !.at = "mint"]
    BY <1>1, <1>3 DEF Goes
  <2>2. /\ flight'[s].at = "mint" /\ flight'[s].project = p
        /\ flight'[s].entities = flight[s].entities
        /\ flight'[s].mint = flight[s].mint /\ flight'[s].adds = {}
        /\ flight'[s].sections = flight[s].sections /\ flight'[s] \in SaveTypes
    BY <1>1, <1>3, <2>1 DEF SaveTypes
  <2>3. ProjectPassed(s)' /\ EntitiesPassed(s)'
    BY <1>1, <2>2 DEF ProjectPassed, EntitiesPassed, At, Req, Axes
  <2>4. SectionsPassed(s)'
    BY <1>1, <1>3, <2>2 DEF SectionsPassed, SectionsOf
  <2> QED
    BY <1>1, <1>3, <2>2, <2>3, <2>4 DEF Passed, RegistriesGrow, KeysAreUnique
<1>4. ASSUME NEW n \in flight[s].adds, Insertable(n, here),
             sections' = sections \cup {<<p, m>> : m \in InsertsNewKeys(n, here)},
             flight' = [flight EXCEPT ![s].adds = @ \ {n}]
      PROVE  /\ Passed(s)' /\ flight'[s] \in SaveTypes /\ flight'[s].at = "registerSections"
             /\ sections \subseteq sections' /\ sections' \subseteq Spelled \X Spelled /\ KeysAreUnique'
  <2>1. /\ flight'[s].at = "registerSections" /\ flight'[s].project = p
        /\ flight'[s].entities = flight[s].entities
        /\ flight'[s].mint = flight[s].mint /\ flight'[s].adds = flight[s].adds \ {n}
        /\ flight'[s].sections = flight[s].sections /\ flight'[s] \in SaveTypes
    BY <1>1, <1>4 DEF SaveTypes
  <2>2. n \in Spelled /\ p \in Spelled /\ ~Unnameable(n)
    BY <1>1 DEF SaveTypes, SectionsPassed
  <2>3. \/ sections' = sections /\ n \in here
        \/ ~HeldByKey(n, here) /\ sections' = sections \cup {<<p, n>>}
    BY <1>4 DEF Insertable, InsertsNewKeys
  <2>4. sections \subseteq sections' /\ sections' \subseteq Spelled \X Spelled
    BY <1>1, <2>2, <2>3
  <2>5. here \cup {n} \subseteq SectionsOf(p)'
    <3>1. here \subseteq SectionsOf(p)'
      BY <2>1, <2>4 DEF SectionsOf
    <3>2. n \in here \/ <<p, n>> \in sections'
      BY <2>3
    <3> QED
      BY <2>1, <3>1, <3>2 DEF SectionsOf
  <2>6. KeysAreUnique'
    <3>1. CASE sections' = sections
      BY <1>1, <3>1 DEF KeysAreUnique
    <3>2. CASE ~HeldByKey(n, here) /\ sections' = sections \cup {<<p, n>>}
      <4>1. \A x \in sections : x[1] = p => AxisKey(x[2]) # AxisKey(n)
        BY <2>2, <3>2 DEF HeldByKey, SameSpelling, Unnameable, SectionsOf
      <4> QED
        BY <1>1, <3>2, <4>1 DEF KeysAreUnique
    <3> QED
      BY <2>3, <3>1, <3>2
  <2>7. ProjectPassed(s)' /\ EntitiesPassed(s)'
    BY <1>1, <2>1 DEF ProjectPassed, EntitiesPassed, At, Req, Axes
  <2>8. SectionsPassed(s)'
    BY <1>1, <2>1, <2>5 DEF SectionsPassed
  <2> QED
    BY <2>1, <2>4, <2>6, <2>7, <2>8 DEF Passed
<1> QED
  BY <1>1, <1>2, <1>3, <1>4 DEF RegisterSection, RegistriesGrow

\* A name minted meanwhile in another spelling is rewritten to that one.
LEMMA MintEntityPasses ==
    ASSUME FilingInv, NEW s \in Savers, MintEntity(s)
    PROVE  /\ Passed(s)' /\ flight'[s] \in SaveTypes
           /\ flight'[s].at \in {"mint", "embed"}
           /\ RegistriesGrow /\ vocab' \subseteq Spelled
           /\ UNCHANGED <<projects, sections>>
<1>1. /\ flight[s].at = "mint" /\ flight[s] \in SaveTypes
      /\ flight \in [Savers -> SaveTypes \cup {NoSave}] /\ vocab \subseteq Spelled
      /\ ProjectPassed(s) /\ SectionsPassed(s) /\ EntitiesPassed(s) /\ UNCHANGED <<projects, sections>>
  BY CallFields DEF MintEntity, FilingInv, IngressTypeOK, GatesPassed, At
<1>2. CASE flight[s].mint = {} /\ Goes(s, "embed") /\ UNCHANGED vocab
  <2>1. flight'[s] = [flight[s] EXCEPT !.at = "embed"]
    BY <1>1, <1>2 DEF Goes
  <2>2. /\ flight'[s].at = "embed" /\ flight'[s].project = flight[s].project
        /\ flight'[s].entities = flight[s].entities
        /\ flight'[s].mint = {} /\ flight'[s].adds = flight[s].adds
        /\ flight'[s].sections = flight[s].sections /\ flight'[s] \in SaveTypes
    BY <1>1, <1>2, <2>1 DEF SaveTypes
  <2>3. ProjectPassed(s)' /\ EntitiesPassed(s)'
    BY <1>1, <1>2, <2>2 DEF ProjectPassed, EntitiesPassed, At, Req, Axes
  <2>4. SectionsPassed(s)'
    BY <1>1, <2>2 DEF SectionsPassed, SectionsOf
  <2> QED
    BY <1>1, <1>2, <2>2, <2>3, <2>4 DEF Passed, RegistriesGrow
<1>3. ASSUME NEW n \in flight[s].mint, vocab' = vocab \cup InsertsNewKeys(n, vocab),
             flight' = [flight EXCEPT ![s].mint = @ \ {n}, ![s].entities = (@ \ {n}) \cup MintedEntity(n)]
      PROVE  /\ Passed(s)' /\ flight'[s] \in SaveTypes /\ flight'[s].at = "mint"
             /\ vocab \subseteq vocab' /\ vocab' \subseteq Spelled
  <2> DEFINE k == (flight[s].entities \ {n}) \cup MintedEntity(n)
  <2>1. n \in Spelled /\ flight[s].entities \subseteq Spelled
    BY <1>1 DEF SaveTypes
  <2>2. InsertsNewKeys(n, vocab) \subseteq {n} /\ vocab \subseteq vocab' /\ vocab' \subseteq Spelled
    BY <1>1, <1>3, <2>1 DEF InsertsNewKeys
  <2>3. MintedEntity(n) \subseteq vocab'
    BY <1>3 DEF MintedEntity, InsertsNewKeys, HeldByKey, Canonical
  <2>4. k \subseteq Spelled
    BY <2>1, <2>2, <2>3
  <2> HIDE DEF k
  <2>5. /\ flight'[s].at = "mint" /\ flight'[s].project = flight[s].project
        /\ flight'[s].entities = k
        /\ flight'[s].mint = flight[s].mint \ {n} /\ flight'[s].adds = flight[s].adds
        /\ flight'[s].sections = flight[s].sections /\ flight'[s] \in SaveTypes
    <3>1. flight' = [flight EXCEPT ![s].mint = @ \ {n}, ![s].entities = k]
      BY <1>3 DEF k
    <3> QED
      BY <1>1, <2>4, <3>1 DEF SaveTypes
  <2>6. k \subseteq vocab' \cup (flight[s].mint \ {n})
    BY <1>1, <2>2, <2>3 DEF k, EntitiesPassed
  <2>7. ProjectPassed(s)' /\ EntitiesPassed(s)'
    BY <1>1, <2>5, <2>6 DEF ProjectPassed, EntitiesPassed, At, Req, Axes
  <2>8. SectionsPassed(s)'
    BY <1>1, <2>5 DEF SectionsPassed, SectionsOf
  <2> QED
    BY <2>2, <2>5, <2>7, <2>8 DEF Passed
<1> QED
  BY <1>1, <1>2, <1>3 DEF MintEntity, RegistriesGrow

LEMMA EmbedPasses ==
    ASSUME FilingInv, NEW s \in Savers, EmbedContent(s)
    PROVE  Passed(s)' /\ flight'[s] \in SaveTypes \cup {NoSave} /\ flight'[s].at \in {"none", "lock"}
<1>1. CASE Refused(s)
  BY <1>1, RefusedPasses DEF FilingInv, NoSave
<1>2. CASE Goes(s, "lock")
  <2>1. /\ flight[s].at = "embed" /\ flight[s] \in SaveTypes
        /\ flight \in [Savers -> SaveTypes \cup {NoSave}]
        /\ ProjectPassed(s) /\ SectionsPassed(s) /\ EntitiesPassed(s) /\ UNCHANGED registries
    BY <1>2, CallFields DEF EmbedContent, FilingInv, IngressTypeOK, GatesPassed, At
  <2>2. flight'[s] = [flight[s] EXCEPT !.at = "lock"]
    BY <1>2, <2>1 DEF Goes
  <2>3. /\ flight'[s].at = "lock" /\ flight'[s].project = flight[s].project
        /\ flight'[s].entities = flight[s].entities
        /\ flight'[s].mint = flight[s].mint /\ flight'[s].adds = flight[s].adds
        /\ flight'[s].sections = flight[s].sections /\ flight'[s] \in SaveTypes
    BY <2>1, <2>2 DEF SaveTypes
  <2>4. ProjectPassed(s)' /\ EntitiesPassed(s)'
    BY <2>1, <2>3 DEF ProjectPassed, EntitiesPassed, At, Req, Axes, registries
  <2>5. SectionsPassed(s)'
    BY <2>1, <2>3 DEF SectionsPassed, SectionsOf, registries
  <2> QED
    BY <2>3, <2>4, <2>5 DEF Passed
<1> QED
  BY <1>1, <1>2 DEF EmbedContent

LEMMA TxLookPasses ==
    ASSUME FilingInv, NEW s \in Savers, TxLook(s)
    PROVE  /\ Passed(s)' /\ flight'[s] \in SaveTypes \cup {NoSave}
           /\ \/ flight'[s] = NoSave
              \/ /\ flight'[s].at = "write" /\ ~AxisConflict(Found(s), flight[s])
                 /\ flight'[s].sawNone = (Found(s) = NoDoc)
                 /\ flight'[s].req = flight[s].req /\ flight'[s].project = flight[s].project
                 /\ flight'[s].sections = flight[s].sections
                 /\ flight'[s].entities = flight[s].entities
<1>1. CASE Refused(s)
  BY <1>1, RefusedPasses DEF FilingInv, NoSave
<1>2. CASE /\ ~ConflictInTx(s)
           /\ flight' = [flight EXCEPT ![s].at = "write", ![s].sawNone = Found(s) = NoDoc]
  <2> DEFINE none == Found(s) = NoDoc
  <2>1. /\ flight[s].at = "lock" /\ flight[s] \in SaveTypes
        /\ flight \in [Savers -> SaveTypes \cup {NoSave}]
        /\ ProjectPassed(s) /\ SectionsPassed(s) /\ EntitiesPassed(s) /\ UNCHANGED registries
    BY <1>2, CallFields DEF TxLook, FilingInv, IngressTypeOK, GatesPassed, At
  <2>2. none \in BOOLEAN /\ flight' = [flight EXCEPT ![s].at = "write", ![s].sawNone = none]
    BY <1>2
  <2> HIDE DEF none
  <2>3. flight'[s] = [flight[s] EXCEPT !.at = "write", !.sawNone = none]
    BY <2>1, <2>2
  <2>4. /\ flight'[s].at = "write" /\ flight'[s].project = flight[s].project
        /\ flight'[s].entities = flight[s].entities /\ flight'[s].req = flight[s].req
        /\ flight'[s].mint = flight[s].mint /\ flight'[s].adds = flight[s].adds
        /\ flight'[s].sections = flight[s].sections /\ flight'[s].sawNone = none
        /\ flight'[s] \in SaveTypes
    BY <2>1, <2>2, <2>3 DEF SaveTypes
  <2>5. ProjectPassed(s)' /\ EntitiesPassed(s)'
    BY <2>1, <2>4 DEF ProjectPassed, EntitiesPassed, At, Req, Axes, registries
  <2>6. SectionsPassed(s)'
    BY <2>1, <2>4 DEF SectionsPassed, SectionsOf, registries
  <2>7. ~AxisConflict(Found(s), flight[s])
    BY <1>2 DEF ConflictInTx
  <2> QED
    BY <2>4, <2>5, <2>6, <2>7 DEF Passed, none
<1> QED
  BY <1>1, <1>2 DEF TxLook

\* What a transaction reads is safe from the saves it shares an entity or a row with.
LEMMA TxLookStands ==
    ASSUME FilingInv, NEW s \in Savers, TxLook(s)
    PROVE  LooksStand'
<1>1. \A t \in Savers \ {s} : flight'[t] = flight[t]
  BY OthersStand DEF FilingInv, SaveStep
<1>2. CASE flight'[s] = NoSave
  BY <1>1, <1>2 DEF TxLook, FilingInv, LooksStand, InTx, At, Found, Req, NoSave
<1>3. CASE /\ flight'[s].at = "write" /\ ~AxisConflict(Found(s), flight[s])
           /\ flight'[s].sawNone = (Found(s) = NoDoc)
           /\ flight'[s].req = flight[s].req /\ flight'[s].project = flight[s].project
           /\ flight'[s].sections = flight[s].sections
           /\ flight'[s].entities = flight[s].entities
  <2>1. \A t \in Savers \ {s} : InTx(t) => flight[t].entities \cap flight[s].entities = {}
    BY DEF TxLook, EntityLocked
  <2>2. AxisConflict(Found(s), flight[s]) <=> AxisConflict(Found(s), flight'[s])
    BY <1>3 DEF AxisConflict
  <2>3. Found(s)' = Found(s) /\ \A t \in Savers \ {s} : Found(t)' = Found(t)
    BY <1>1, <1>3 DEF Found, Req, TxLook
  <2>4. \A t, u \in Savers : t # u /\ InTx(t)' /\ InTx(u)' => flight'[t].entities \cap flight'[u].entities = {}
    BY <1>1, <1>3, <2>1 DEF FilingInv, LooksStand, InTx, At
  <2>5. \A t \in Savers \ {s} : InTx(t)' =>
          IF flight'[t].sawNone THEN Found(t)' # NoDoc => Found(t)'.entities \cap flight'[t].entities = {}
          ELSE Found(t)' # NoDoc /\ ~AxisConflict(Found(t)', flight'[t])
    BY <1>1, <2>3 DEF FilingInv, LooksStand, InTx, At
  <2>6. IF flight'[s].sawNone THEN Found(s)' # NoDoc => Found(s)'.entities \cap flight'[s].entities = {}
        ELSE Found(s)' # NoDoc /\ ~AxisConflict(Found(s)', flight'[s])
    BY <1>3, <2>2, <2>3
  <2> QED
    BY <2>4, <2>5, <2>6 DEF LooksStand
<1> QED
  BY <1>2, <1>3, TxLookPasses

\* What a save stores is typed and filed.
LEMMA StoredIsFiled ==
    ASSUME FilingInv, NEW s \in Savers, InTx(s)
    PROVE  /\ Stored(s) \in DocTypes /\ Req(s).content \in Contents /\ Stored(s) # NoDoc
           /\ Stored(s).project \in projects \cup {SENTINEL}
           /\ Stored(s).sections \subseteq SectionsOf(Stored(s).project)
           /\ Stored(s).entities \subseteq vocab
           /\ Stored(s).project = SENTINEL => Stored(s).sections = {}
<1>1. /\ flight[s].at = "write" /\ flight[s] \in SaveTypes
      /\ ProjectPassed(s) /\ SectionsPassed(s) /\ EntitiesPassed(s)
      /\ Req(s).content \in Contents /\ Req(s).kind \in {"fact", "decision"} /\ Req(s).cites \subseteq Contents
  BY CallFields DEF InTx, At, FilingInv, GatesPassed
<1>2. /\ flight[s].project \in projects \cup {SENTINEL} /\ flight[s].adds = {} /\ flight[s].mint = {}
      /\ flight[s].sections \subseteq SectionsOf(flight[s].project)
      /\ flight[s].project = SENTINEL => flight[s].sections = {}
      /\ flight[s].entities \subseteq vocab
  BY <1>1 DEF ProjectPassed, SectionsPassed, EntitiesPassed, Axes
<1>3. /\ flight[s].project \in Spelled /\ flight[s].sections \in SUBSET Spelled
      /\ flight[s].entities \in SUBSET Spelled
  BY <1>1 DEF SaveTypes
<1>4. Stored(s) \in DocTypes
  BY <1>1, <1>3 DEF Stored, DocTypes
<1>5. Stored(s) # NoDoc
  BY <1>4 DEF DocTypes, NoDoc
<1> QED
  BY <1>1, <1>2, <1>4, <1>5 DEF Stored

\* A record is what it was or is being promoted to the one project it is cited under.
LEMMA PromotedRecord ==
    ASSUME NEW stored \in [Contents -> DocTypes \cup {NoDoc}], NEW cited, NEW x \in Contents
    PROVE  \/ Promoted(stored, cited)[x] = stored[x]
           \/ /\ x \in cited /\ Parked(stored[x])
              /\ \E d \in Contents : /\ stored[d] # NoDoc /\ stored[d].project # SENTINEL
                                     /\ Promoted(stored, cited)[x] = [stored[x] EXCEPT !.project = stored[d].project]
<1>1. CASE x \in cited /\ Promotable(x, stored)
  <2> DEFINE p == CHOOSE q \in Agreed(x, stored) : TRUE
  <2>1. Promoted(stored, cited)[x] = [stored[x] EXCEPT !.project = p]
    BY <1>1 DEF Promoted
  <2>2. Agreed(x, stored) # {}
    BY <1>1, FS_EmptySet DEF Promotable
  <2>3. p \in Agreed(x, stored)
    BY <2>2
  <2> HIDE DEF p
  <2>4. PICK d \in Contents : stored[d] # NoDoc /\ p = stored[d].project /\ p # SENTINEL
    BY <2>3 DEF Agreed
  <2> QED
    BY <1>1, <2>1, <2>4 DEF Promotable
<1>2. CASE ~(x \in cited /\ Promotable(x, stored))
  BY <1>2 DEF Promoted
<1> QED
  BY <1>1, <1>2

\* What the record x becomes when s commits, before it is promoted.
Becomes(x, s) == IF x = Req(s).content THEN Stored(s) ELSE docs[x]

LEMMA WriteChanges ==
    ASSUME FilingInv, NEW s \in Savers, TxWrite(s)
    PROVE  /\ docs' \in [Contents -> DocTypes \cup {NoDoc}]
           /\ ~RowHeld(Req(s).content, s)
           /\ \A x \in Contents :
                 \/ docs'[x] = Becomes(x, s)
                 \/ /\ Parked(Becomes(x, s)) /\ ~RowHeld(x, s)
                    /\ \E p \in projects : p # SENTINEL /\ docs'[x] = [Becomes(x, s) EXCEPT !.project = p]
<1> DEFINE c == Req(s).content
           before == [docs EXCEPT ![c] = Stored(s)]
<1>1. PICK vouched \in SUBSET Req(s).cites :
        /\ ~RowHeld(c, s) /\ \A f \in vouched : ~RowHeld(f, s)
        /\ docs' = Promoted(before, vouched)
  BY DEF TxWrite
<1>2. c \in Contents /\ Stored(s) \in DocTypes /\ docs \in [Contents -> DocTypes \cup {NoDoc}]
  BY StoredIsFiled DEF TxWrite, FilingInv, IngressTypeOK
<1>3. before \in [Contents -> DocTypes \cup {NoDoc}] /\ \A x \in Contents : before[x] = Becomes(x, s)
  BY <1>2 DEF Becomes
<1>4. \A x \in Contents : before[x] # NoDoc /\ before[x].project # SENTINEL => before[x].project \in projects
  BY <1>2, StoredIsFiled DEF TxWrite, FilingInv, RecordIsFiled
<1> HIDE DEF before
<1>5. ASSUME NEW x \in Contents
      PROVE  \/ docs'[x] = Becomes(x, s)
             \/ /\ Parked(Becomes(x, s)) /\ ~RowHeld(x, s)
                /\ \E p \in projects : p # SENTINEL /\ docs'[x] = [Becomes(x, s) EXCEPT !.project = p]
  <2>1. \/ docs'[x] = before[x]
        \/ /\ x \in vouched /\ Parked(before[x])
           /\ \E d \in Contents : /\ before[d] # NoDoc /\ before[d].project # SENTINEL
                                  /\ docs'[x] = [before[x] EXCEPT !.project = before[d].project]
    BY <1>1, <1>3, PromotedRecord
  <2> QED
    BY <1>1, <1>3, <1>4, <2>1
<1>6. docs' \in [Contents -> DocTypes \cup {NoDoc}]
  <2>1. projects \subseteq Spelled
    BY DEF FilingInv, IngressTypeOK
  <2>2. \A x \in Contents : docs'[x] \in DocTypes \cup {NoDoc}
    <3> SUFFICES ASSUME NEW x \in Contents, docs'[x] # Becomes(x, s) PROVE docs'[x] \in DocTypes
      BY <1>3
    <3>1. PICK p \in projects : docs'[x] = [Becomes(x, s) EXCEPT !.project = p]
      BY <1>5
    <3>2. Becomes(x, s) \in DocTypes
      BY <1>3, <1>5 DEF Parked
    <3> QED
      BY <2>1, <3>1, <3>2 DEF DocTypes
  <2>3. docs' = [x \in Contents |-> docs'[x]]
    BY <1>1 DEF Promoted
  <2> QED
    BY <2>2, <2>3
<1> QED
  BY <1>1, <1>5, <1>6

\* A promoted record keeps everything else.
LEMMA PromotionKeeps ==
    ASSUME NEW b \in DocTypes, NEW p \in Spelled
    PROVE  LET d == [b EXCEPT !.project = p]
           IN /\ d \in DocTypes /\ d # NoDoc /\ b # NoDoc /\ d.project = p /\ d.sections = b.sections
              /\ d.entities = b.entities /\ d.kind = b.kind /\ d.cites = b.cites
  BY DEF DocTypes, NoDoc

LEMMA TxWriteFiles ==
    ASSUME FilingInv, NEW s \in Savers, TxWrite(s)
    PROVE  RecordIsFiled' /\ ParkedIsBare'
<1>1. UNCHANGED registries /\ InTx(s)
  BY DEF TxWrite
<1>2. \A p : SectionsOf(p)' = SectionsOf(p)
  BY <1>1 DEF SectionsOf, registries
<1> SUFFICES ASSUME NEW x \in Contents, docs'[x] # NoDoc
             PROVE  /\ docs'[x].project \in projects \cup {SENTINEL}
                    /\ docs'[x].sections \subseteq SectionsOf(docs'[x].project)
                    /\ docs'[x].entities \subseteq vocab
                    /\ docs'[x].project = SENTINEL => docs'[x].sections = {}
  BY <1>1 DEF RecordIsFiled, ParkedIsBare, registries, SectionsOf
<1> DEFINE b == Becomes(x, s)
<1>3. b # NoDoc => /\ b \in DocTypes /\ b.project \in projects \cup {SENTINEL}
                   /\ b.sections \subseteq SectionsOf(b.project) /\ b.entities \subseteq vocab
                   /\ b.project = SENTINEL => b.sections = {}
  <2>1. CASE x = Req(s).content
    BY <1>1, <2>1, StoredIsFiled DEF Becomes
  <2>2. CASE x # Req(s).content
    BY <2>2 DEF Becomes, FilingInv, RecordIsFiled, ParkedIsBare, IngressTypeOK
  <2> QED
    BY <2>1, <2>2
<1>4. CASE docs'[x] = b
  BY <1>3, <1>4
<1>5. ASSUME NEW p \in projects, p # SENTINEL, Parked(b), docs'[x] = [b EXCEPT !.project = p]
      PROVE  /\ docs'[x].project = p /\ docs'[x].sections = {} /\ docs'[x].entities \subseteq vocab
  <2>1. b # NoDoc /\ b.project = SENTINEL /\ p \in Spelled
    BY <1>5 DEF Parked, FilingInv, IngressTypeOK
  <2> QED
    BY <1>3, <1>5, <2>1, PromotionKeeps
<1>6. \/ docs'[x] = b
      \/ Parked(b) /\ \E p \in projects : p # SENTINEL /\ docs'[x] = [b EXCEPT !.project = p]
  BY WriteChanges
<1> HIDE DEF b
<1>7. ASSUME NEW p \in projects, p # SENTINEL, Parked(b), docs'[x] = [b EXCEPT !.project = p]
      PROVE  /\ docs'[x].project \in projects \cup {SENTINEL}
             /\ docs'[x].sections \subseteq SectionsOf(docs'[x].project)
             /\ docs'[x].entities \subseteq vocab
             /\ docs'[x].project = SENTINEL => docs'[x].sections = {}
  BY <1>5, <1>7
<1> QED
  BY <1>4, <1>6, <1>7

\* Nobody else's transaction loses the ground it stands on.
LEMMA TxWriteStands ==
    ASSUME FilingInv, NEW s \in Savers, TxWrite(s)
    PROVE  LooksStand' /\ flight'[s] = NoSave /\ Passed(s)'
<1>1. \A t \in Savers \ {s} : flight'[t] = flight[t]
  BY OthersStand DEF FilingInv, SaveStep
<1>2. flight'[s] = NoSave
  BY DEF TxWrite, FilingInv, IngressTypeOK
<1>3. ASSUME NEW t \in Savers \ {s}, InTx(t)
      PROVE  IF flight[t].sawNone
             THEN Found(t)' # NoDoc => Found(t)'.entities \cap flight[t].entities = {}
             ELSE Found(t)' = Found(t)
  <2> DEFINE x == Req(t).content
             b == Becomes(x, s)
  <2>1. x \in Contents /\ Found(t) = docs[x] /\ Found(t)' = docs'[x]
    BY <1>1, <1>3, StoredIsFiled DEF Found, Req
  <2>2. CASE ~flight[t].sawNone
    <3>1. RowHeld(x, s)
      BY <1>3, <2>2 DEF RowHeld
    <3>2. x # Req(s).content
      BY <3>1, WriteChanges
    <3> QED
      BY <2>1, <2>2, <3>1, <3>2, WriteChanges DEF Becomes
  <2>3. CASE flight[t].sawNone /\ docs'[x] # NoDoc
    <3>1. b # NoDoc => b \in DocTypes /\ b.entities \cap flight[t].entities = {}
      <4>1. CASE x = Req(s).content
        <5>1. flight[s].entities \cap flight[t].entities = {}
          BY <1>3 DEF TxWrite, FilingInv, LooksStand
        <5>2. b = Stored(s) /\ InTx(s)
          BY <4>1 DEF Becomes, TxWrite
        <5> QED
          BY <5>1, <5>2, StoredIsFiled DEF Stored
      <4>2. CASE x # Req(s).content
        BY <1>3, <2>1, <2>3, <4>2 DEF Becomes, FilingInv, LooksStand, IngressTypeOK
      <4> QED
        BY <4>1, <4>2
    <3>2. CASE docs'[x] = b
      BY <2>1, <2>3, <3>1, <3>2
    <3>3. ASSUME NEW p \in projects, Parked(b), docs'[x] = [b EXCEPT !.project = p]
          PROVE  docs'[x].entities = b.entities /\ b # NoDoc
      BY <3>1, <3>3, PromotionKeeps DEF Parked, FilingInv, IngressTypeOK
    <3>4. \/ docs'[x] = b
          \/ Parked(b) /\ \E p \in projects : docs'[x] = [b EXCEPT !.project = p]
      <4>1. \A y \in Contents :
              \/ docs'[y] = Becomes(y, s)
              \/ /\ Parked(Becomes(y, s))
                 /\ \E p \in projects : docs'[y] = [Becomes(y, s) EXCEPT !.project = p]
        BY WriteChanges
      <4>2. x \in Contents
        BY <2>1
      <4> HIDE DEF x
      <4> QED
        BY <4>1, <4>2
    <3>5. docs'[x].entities \cap flight[t].entities = {}
      BY <2>3, <3>1, <3>2, <3>3, <3>4
    <3> QED
      BY <2>1, <2>3, <3>5
  <2> QED
    BY <2>1, <2>2, <2>3
<1>4. LooksStand'
  <2>1. \A t, u \in Savers : t # u /\ InTx(t)' /\ InTx(u)' => flight'[t].entities \cap flight'[u].entities = {}
    BY <1>1, <1>2 DEF FilingInv, LooksStand, InTx, At, NoSave
  <2>2. \A t \in Savers : InTx(t)' => t # s /\ InTx(t) /\ flight'[t] = flight[t]
    BY <1>1, <1>2 DEF InTx, At, NoSave
  <2>3. \A t \in Savers : InTx(t)' =>
          IF flight'[t].sawNone THEN Found(t)' # NoDoc => Found(t)'.entities \cap flight'[t].entities = {}
          ELSE Found(t)' # NoDoc /\ ~AxisConflict(Found(t)', flight'[t])
    BY <1>3, <2>2 DEF FilingInv, LooksStand
  <2> QED
    BY <2>1, <2>3 DEF LooksStand
<1>5. Passed(s)'
  BY <1>2 DEF Passed, ProjectPassed, SectionsPassed, EntitiesPassed, NoSave, At
<1> QED
  BY <1>2, <1>4, <1>5

\* SetToSeq lists every element of a finite set.
LEMMA ListsAll ==
    ASSUME NEW S, IsFiniteSet(S)
    PROVE  /\ SetToSeq(S) \in Seq(S)
           /\ \A x \in S : \E i \in DOMAIN SetToSeq(S) : SetToSeq(S)[i] = x
<1> DEFINE n == Cardinality(S)
           f == SetToSeq(S)
<1>1. n \in Nat /\ ExistsBijection(1..n, S)
  BY FS_CardinalityType
<1>2. \E g \in [1..n -> S] : IsInjective(g)
  BY <1>1 DEF ExistsBijection, Bijection, Injection, IsInjective
<1>3. f \in [1..n -> S] /\ IsInjective(f)
  BY <1>2 DEF SetToSeq
<1> HIDE DEF f
<1>4. f \in Injection(1..n, S)
  BY <1>3 DEF Injection, IsInjective
<1>5. Cardinality(1..n) = n
  BY <1>1, FS_Interval
<1> HIDE DEF n
<1>6. Cardinality(1..n) = Cardinality(S)
  BY <1>5 DEF n
<1>7. f \in Surjection(1..n, S)
  BY <1>4, <1>6, FS_Injection
<1>8. \A x \in S : \E i \in 1..n : f[i] = x
  BY <1>7 DEF Surjection
<1>9. DOMAIN f = 1..n /\ f \in Seq(S)
  BY <1>1, <1>3
<1> QED
  BY <1>8, <1>9 DEF f

\* Appending rows keeps those that were there.
LEMMA Appending ==
    ASSUME outbox \in Seq(RowTypes), NEW b \in Seq(RowTypes), NEW r \in RowTypes,
           outbox' = outbox \o b \o <<r>>
    PROVE  /\ outbox' \in Seq(RowTypes)
           /\ \A i \in DOMAIN outbox : i \in DOMAIN outbox' /\ outbox'[i] = outbox[i]
           /\ \A i \in DOMAIN outbox' \ DOMAIN outbox :
                 outbox'[i] = r \/ \E j \in DOMAIN b : outbox'[i] = b[j]
           /\ \A j \in DOMAIN b : \E i \in DOMAIN outbox' : outbox'[i] = b[j]
           /\ \E i \in DOMAIN outbox' : outbox'[i] = r
<1>1. /\ outbox' \in Seq(RowTypes) /\ Len(outbox') = Len(outbox) + Len(b) + 1
      /\ \A i \in 1..Len(outbox') : outbox'[i] = IF i <= Len(outbox) THEN outbox[i]
                                     ELSE IF i <= Len(outbox) + Len(b) THEN b[i - Len(outbox)] ELSE r
  OBVIOUS
<1>2. /\ DOMAIN outbox = 1..Len(outbox) /\ DOMAIN b = 1..Len(b) /\ DOMAIN outbox' = 1..Len(outbox')
      /\ Len(outbox) \in Nat /\ Len(b) \in Nat
  BY <1>1
<1>3. \A i \in DOMAIN outbox : i \in DOMAIN outbox' /\ outbox'[i] = outbox[i]
  BY <1>1, <1>2
<1>4. ASSUME NEW i \in DOMAIN outbox' \ DOMAIN outbox PROVE outbox'[i] = r \/ \E j \in DOMAIN b : outbox'[i] = b[j]
  <2>1. CASE i <= Len(outbox) + Len(b)
    <3>1. i - Len(outbox) \in DOMAIN b /\ outbox'[i] = b[i - Len(outbox)]
      BY <1>1, <1>2, <1>4, <2>1
    <3> QED
      BY <3>1
  <2> QED
    BY <1>1, <1>2, <1>4, <2>1
<1>5. ASSUME NEW j \in DOMAIN b PROVE \E i \in DOMAIN outbox' : outbox'[i] = b[j]
  <2>1. Len(outbox) + j \in DOMAIN outbox' /\ outbox'[Len(outbox) + j] = b[j]
    BY <1>1, <1>2, <1>5
  <2> QED
    BY <2>1
<1>6. Len(outbox') \in DOMAIN outbox' /\ outbox'[Len(outbox')] = r
  BY <1>1, <1>2
<1> QED
  BY <1>1, <1>3, <1>4, <1>5, <1>6

\* A commit adds its own row and one for each record it promotes.
LEMMA WriteRows ==
    ASSUME FilingInv, NEW s \in Savers, TxWrite(s)
    PROVE  /\ outbox' \in Seq(RowTypes)
           /\ \A i \in DOMAIN outbox : i \in DOMAIN outbox' /\ outbox'[i] = outbox[i]
           /\ \A i \in DOMAIN outbox' \ DOMAIN outbox :
                 \/ outbox'[i] = Row(Req(s).content, "record", Stored(s))
                 \/ \E x \in Contents : docs'[x] # Becomes(x, s) /\ outbox'[i] = Row(x, "project_of", docs'[x])
           /\ \E i \in DOMAIN outbox' : outbox'[i] = Row(Req(s).content, "record", Stored(s))
           /\ \A x \in Contents : docs'[x] # Becomes(x, s) =>
                 \E i \in DOMAIN outbox' : outbox'[i] = Row(x, "project_of", docs'[x])
<1> DEFINE c == Req(s).content
           before == [docs EXCEPT ![c] = Stored(s)]
           grown == {x \in Contents : before[x] # docs'[x]}
           sent == {Row(x, "project_of", docs'[x]) : x \in grown}
           last == Row(c, "record", Stored(s))
<1>1. outbox' = outbox \o SetToSeq(sent) \o <<last>>
  BY DEF TxWrite, PromotionRows
<1>2. /\ c \in Contents /\ Stored(s) \in DocTypes /\ docs \in [Contents -> DocTypes \cup {NoDoc}]
      /\ outbox \in Seq(RowTypes)
  BY StoredIsFiled DEF TxWrite, FilingInv, IngressTypeOK
<1>3. \A x \in Contents : before[x] = Becomes(x, s)
  BY <1>2 DEF Becomes
<1>4. last \in RowTypes
  BY <1>2 DEF Row, RowTypes, DocTypes
<1>5. ASSUME NEW x \in grown PROVE docs'[x] \in DocTypes /\ Row(x, "project_of", docs'[x]) \in RowTypes
  <2>1. PICK p \in projects : Parked(Becomes(x, s)) /\ docs'[x] = [Becomes(x, s) EXCEPT !.project = p]
    BY <1>3, WriteChanges
  <2>2. Becomes(x, s) \in DocTypes /\ p \in Spelled
    BY <1>2, <2>1 DEF Becomes, Parked, FilingInv, IngressTypeOK
  <2>3. docs'[x] \in DocTypes
    BY <2>1, <2>2, PromotionKeeps
  <2> QED
    BY <2>3 DEF Row, RowTypes, DocTypes
<1> HIDE DEF before
<1>6. sent \subseteq RowTypes
  BY <1>5
<1>7. IsFiniteSet(sent)
  <2>1. IsFiniteSet(grown)
    BY IngressAssumption, FS_Subset
  <2>2. [x \in grown |-> Row(x, "project_of", docs'[x])] \in Surjection(grown, sent)
    BY DEF Surjection
  <2> QED
    BY <2>1, <2>2, FS_Surjection
<1>8. \A x \in Contents : docs'[x] # Becomes(x, s) <=> x \in grown
  BY <1>3
<1> HIDE DEF grown
<1>9. \A r \in sent : \E x \in Contents : docs'[x] # Becomes(x, s) /\ r = Row(x, "project_of", docs'[x])
  BY <1>8 DEF grown
<1>10. \A x \in Contents : docs'[x] # Becomes(x, s) => Row(x, "project_of", docs'[x]) \in sent
  BY <1>8
<1> DEFINE list == SetToSeq(sent)
<1> HIDE DEF sent, last
<1>11. list \in Seq(RowTypes) /\ \A x \in sent : \E i \in DOMAIN list : list[i] = x
  BY <1>6, <1>7, ListsAll
<1>12. \A i \in DOMAIN list : list[i] \in sent
  BY <1>7, ListsAll
<1> HIDE DEF list
<1>13. /\ outbox' \in Seq(RowTypes)
       /\ \A i \in DOMAIN outbox : i \in DOMAIN outbox' /\ outbox'[i] = outbox[i]
       /\ \A i \in DOMAIN outbox' \ DOMAIN outbox : outbox'[i] = last \/ \E j \in DOMAIN list : outbox'[i] = list[j]
       /\ \A j \in DOMAIN list : \E i \in DOMAIN outbox' : outbox'[i] = list[j]
       /\ \E i \in DOMAIN outbox' : outbox'[i] = last
  <2>1. outbox' = outbox \o list \o <<last>>
    BY <1>1 DEF list
  <2> QED
    BY <1>2, <1>4, <1>11, <2>1, Appending
<1>14. \A i \in DOMAIN outbox' \ DOMAIN outbox : outbox'[i] = last \/ outbox'[i] \in sent
  BY <1>12, <1>13
<1>15. \A r \in sent : \E i \in DOMAIN outbox' : outbox'[i] = r
  BY <1>11, <1>13
<1> QED
  BY <1>9, <1>10, <1>13, <1>14, <1>15 DEF last

\* A save that passes a gate outside its transaction.
LEMMA GateKeeps ==
    ASSUME FilingInv, NEW s \in Savers, SaveStep(s),
           Passed(s)', flight'[s] \in SaveTypes \cup {NoSave}, flight'[s].at # "write",
           RegistriesGrow, KeysAreUnique', projects' \cup vocab' \subseteq Spelled,
           sections' \subseteq Spelled \X Spelled, arrivals' \in Nat,
           UNCHANGED <<docs, graphVars, moved>>, DOMAIN flight' = Savers, flight' = [t \in Savers |-> flight'[t]]
    PROVE  FilingInv'
<1>1. \A t \in Savers \ {s} : flight'[t] = flight[t]
  BY OthersStand DEF FilingInv
<1>2. IngressTypeOK'
  <2>1. flight' \in [Savers -> SaveTypes \cup {NoSave}]
    BY <1>1 DEF FilingInv, IngressTypeOK
  <2> QED
    BY <2>1 DEF FilingInv, IngressTypeOK, graphVars
<1>3. GatesPassed'
  <2>1. \A t \in Savers : Passed(t)'
    BY <1>1, StandingPasses DEF FilingInv, GatesPassed, Passed
  <2> QED
    BY <2>1 DEF GatesPassed, Passed
<1>4. RecordIsFiled' /\ ParkedIsBare'
  BY SectionsGrow DEF FilingInv, RecordIsFiled, ParkedIsBare, RegistriesGrow
<1>5. LooksStand'
  <2>1. \A t \in Savers : InTx(t)' => InTx(t) /\ flight'[t] = flight[t]
    BY <1>1 DEF InTx, At
  <2>2. \A t \in Savers : InTx(t)' => Found(t)' = Found(t)
    BY <2>1 DEF Found, Req
  <2> QED
    BY <2>1, <2>2 DEF FilingInv, LooksStand
<1> QED
  BY <1>2, <1>3, <1>4, <1>5 DEF FilingInv

LEMMA GatesStep ==
    ASSUME FilingInv, NEW s \in Savers, SaveStep(s), ~TxLook(s), ~TxWrite(s) PROVE FilingInv'
<1>1. /\ DOMAIN flight' = Savers /\ flight' = [t \in Savers |-> flight'[t]]
  <2>1. flight \in [Savers -> SaveTypes \cup {NoSave}]
    BY DEF FilingInv, IngressTypeOK
  <2>2. CASE ArriveSave(s)
    BY <2>1, <2>2 DEF ArriveSave
  <2>3. CASE GateEntities(s) \/ GateProject(s) \/ GateNewProject(s) \/ GateSections(s)
    BY <2>1, <2>3 DEF GateEntities, GateProject, GateNewProject, GateSections, Refused, Goes, DeferProject
  <2>4. CASE PreCheck(s) \/ RegisterProject(s) \/ RegisterSection(s) \/ MintEntity(s) \/ EmbedContent(s)
    BY <2>1, <2>4 DEF PreCheck, RegisterProject, RegisterSection, MintEntity, EmbedContent, Refused, Goes
  <2> QED
    BY <2>2, <2>3, <2>4 DEF SaveStep
<1>2. /\ projects \cup vocab \subseteq Spelled /\ sections \subseteq Spelled \X Spelled /\ KeysAreUnique
      /\ arrivals \in Nat
  BY DEF FilingInv, IngressTypeOK
<1>3. UNCHANGED registries => RegistriesGrow /\ KeysAreUnique'
  BY <1>2 DEF RegistriesGrow, KeysAreUnique, registries
<1>4. CASE ArriveSave(s)
  <2>1. UNCHANGED <<registries, docs, graphVars, moved>> /\ arrivals' \in Nat
    BY <1>2, <1>4 DEF ArriveSave
  <2> QED
    BY <1>1, <1>2, <1>3, <1>4, <2>1, ArrivePasses, GateKeeps DEF registries
<1>5. CASE GateEntities(s) \/ GateProject(s) \/ GateNewProject(s) \/ GateSections(s) \/ PreCheck(s) \/ EmbedContent(s)
  <2>1. UNCHANGED <<registries, docs, arrivals, graphVars, moved>>
    BY <1>5 DEF GateEntities, GateProject, GateNewProject, GateSections, PreCheck, EmbedContent
  <2>2. Passed(s)' /\ flight'[s] \in SaveTypes \cup {NoSave} /\ flight'[s].at # "write"
    BY <1>5, GateEntitiesPasses, GateProjectPasses, GateNewProjectPasses, GateSectionsPasses,
       PreCheckPasses, EmbedPasses
  <2> QED
    BY <1>1, <1>2, <1>3, <2>1, <2>2, GateKeeps DEF registries
<1>6. CASE RegisterProject(s)
  BY <1>1, <1>2, <1>6, RegisterProjectPasses, GateKeeps DEF RegisterProject
<1>7. CASE RegisterSection(s)
  BY <1>1, <1>2, <1>7, RegisterSectionPasses, GateKeeps DEF RegisterSection
<1>8. CASE MintEntity(s)
  <2>1. KeysAreUnique'
    BY <1>2, <1>8, MintEntityPasses DEF KeysAreUnique
  <2> QED
    BY <1>1, <1>2, <1>8, <2>1, MintEntityPasses, GateKeeps DEF MintEntity
<1> QED
  BY <1>4, <1>5, <1>6, <1>7, <1>8 DEF SaveStep

LEMMA TxLookStep == ASSUME FilingInv, NEW s \in Savers, TxLook(s) PROVE FilingInv'
<1>1. /\ \A t \in Savers \ {s} : flight'[t] = flight[t]
      /\ UNCHANGED <<registries, docs, arrivals, graphVars, moved>>
  BY OthersStand DEF FilingInv, SaveStep, TxLook
<1>2. RegistriesGrow /\ KeysAreUnique'
  BY <1>1 DEF FilingInv, RegistriesGrow, KeysAreUnique, registries
<1>3. IngressTypeOK'
  <2>1. flight' \in [Savers -> SaveTypes \cup {NoSave}]
    BY <1>1, TxLookPasses DEF TxLook, Refused, FilingInv, IngressTypeOK
  <2> QED
    BY <1>1, <2>1 DEF FilingInv, IngressTypeOK, graphVars, registries
<1>4. GatesPassed'
  <2>1. \A t \in Savers : Passed(t)'
    BY <1>1, <1>2, StandingPasses, TxLookPasses DEF FilingInv, GatesPassed, Passed
  <2> QED
    BY <2>1 DEF GatesPassed, Passed
<1>5. RecordIsFiled' /\ ParkedIsBare'
  BY <1>1, <1>2, SectionsGrow DEF FilingInv, RecordIsFiled, ParkedIsBare, RegistriesGrow
<1> QED
  BY <1>2, <1>3, <1>4, <1>5, TxLookStands DEF FilingInv

LEMMA TxWriteStep == ASSUME FilingInv, NEW s \in Savers, TxWrite(s) PROVE FilingInv'
<1>1. /\ \A t \in Savers \ {s} : flight'[t] = flight[t] /\ UNCHANGED <<registries, arrivals>>
      /\ UNCHANGED <<nodes, edges, drawn, overtaken>>
  BY OthersStand DEF FilingInv, SaveStep, TxWrite
<1>2. RegistriesGrow /\ KeysAreUnique'
  BY DEF TxWrite, FilingInv, RegistriesGrow, KeysAreUnique, registries
<1>3. IngressTypeOK'
  <2>1. flight' \in [Savers -> SaveTypes \cup {NoSave}]
    BY DEF TxWrite, FilingInv, IngressTypeOK
  <2>2. moved' \subseteq Contents
    BY StoredIsFiled DEF TxWrite, FilingInv, IngressTypeOK
  <2>3. docs' \in [Contents -> DocTypes \cup {NoDoc}] /\ outbox' \in Seq(RowTypes)
    BY WriteChanges, WriteRows
  <2>4. UNCHANGED <<registries, arrivals>>
    BY DEF TxWrite
  <2> QED
    BY <1>1, <2>1, <2>2, <2>3, <2>4 DEF FilingInv, IngressTypeOK, registries
<1>4. GatesPassed'
  <2>1. \A t \in Savers : Passed(t)'
    BY <1>1, <1>2, StandingPasses, TxWriteStands DEF FilingInv, GatesPassed, Passed
  <2> QED
    BY <2>1 DEF GatesPassed, Passed
<1> QED
  BY <1>2, <1>3, <1>4, TxWriteFiles, TxWriteStands DEF FilingInv

\* What a concatenation holds.
LEMMA ConcatAt ==
    ASSUME NEW S, NEW a \in Seq(S), NEW b \in Seq(S)
    PROVE  /\ a \o b \in Seq(S) /\ Len(a \o b) = Len(a) + Len(b)
           /\ \A k \in 1..(Len(a) + Len(b)) :
                 (a \o b)[k] = IF k <= Len(a) THEN a[k] ELSE b[k - Len(a)]
<1>1. a \o b \in Seq(S) /\ Len(a \o b) = Len(a) + Len(b)
  OBVIOUS
<1>2. ASSUME NEW k \in 1..(Len(a) + Len(b))
      PROVE  (a \o b)[k] = IF k <= Len(a) THEN a[k] ELSE b[k - Len(a)]
  OBVIOUS
<1> QED
  BY <1>1, <1>2

\* An applied row is gone and the others are still there.
LEMMA RowGone ==
    ASSUME outbox \in Seq(RowTypes), NEW i \in DOMAIN outbox, outbox' = Without(i)
    PROVE  /\ outbox' \in Seq(RowTypes)
           /\ \A k \in DOMAIN outbox' : \E j \in DOMAIN outbox : outbox'[k] = outbox[j]
           /\ \A j \in DOMAIN outbox \ {i} : \E k \in DOMAIN outbox' : outbox'[k] = outbox[j]
<1> DEFINE n == Len(outbox)
           a == SubSeq(outbox, 1, i - 1)
           b == SubSeq(outbox, i + 1, Len(outbox))
<1>1. n \in Nat /\ DOMAIN outbox = 1..n /\ i \in 1..n
  OBVIOUS
<1>2. /\ a \in Seq(RowTypes) /\ Len(a) = i - 1 /\ \A k \in 1..(i - 1) : a[k] = outbox[k]
      /\ b \in Seq(RowTypes) /\ Len(b) = n - i /\ \A k \in 1..(n - i) : b[k] = outbox[i + k]
  <2>1. /\ i \in 1..n /\ n \in Nat /\ n = Len(outbox)
        /\ \A k \in 1..n : outbox[k] \in RowTypes
    BY <1>1
  <2>2. a \in Seq(RowTypes) /\ Len(a) = i - 1
    BY <2>1
  <2>3. \A k \in 1..(i - 1) : a[k] = outbox[k]
    BY <2>1
  <2>4. b \in Seq(RowTypes) /\ Len(b) = n - i
    BY <2>1
  <2>5. \A k \in 1..(n - i) : b[k] = outbox[i + k]
    BY <2>1
  <2> QED
    BY <2>2, <2>3, <2>4, <2>5
<1> HIDE DEF a, b
<1>3. outbox' = a \o b
  BY DEF Without, a, b
<1>4. /\ outbox' \in Seq(RowTypes) /\ Len(outbox') = n - 1
      /\ \A k \in 1..(n - 1) : outbox'[k] = IF k < i THEN outbox[k] ELSE outbox[k + 1]
  <2>1. outbox' \in Seq(RowTypes) /\ Len(outbox') = Len(a) + Len(b)
    BY <1>2, <1>3, ConcatAt
  <2>2. \A k \in 1..(Len(a) + Len(b)) : outbox'[k] = IF k <= Len(a) THEN a[k] ELSE b[k - Len(a)]
    <3>1. a \in Seq(RowTypes) /\ b \in Seq(RowTypes)
      BY <1>2
    <3> QED
      BY <1>3, <3>1, ConcatAt
  <2>3. ASSUME NEW k \in 1..(n - 1) PROVE outbox'[k] = IF k < i THEN outbox[k] ELSE outbox[k + 1]
    <3>1. CASE k < i
      BY <1>1, <1>2, <2>2, <2>3, <3>1
    <3>2. CASE ~(k < i)
      <4>1. k - (i - 1) \in 1..(n - i) /\ i + (k - (i - 1)) = k + 1
        BY <1>1, <2>3, <3>2
      <4>2. k \in 1..(Len(a) + Len(b)) /\ ~(k <= Len(a))
        BY <1>1, <1>2, <2>3, <3>2
      <4>3. outbox'[k] = b[k - Len(a)]
        BY <2>2, <4>2
      <4> QED
        BY <1>2, <3>2, <4>1, <4>3
    <3> QED
      BY <3>1, <3>2
  <2> QED
    BY <1>1, <1>2, <2>1, <2>3
<1>5. DOMAIN outbox' = 1..(n - 1)
  BY <1>1, <1>4
<1>6. ASSUME NEW k \in DOMAIN outbox' PROVE \E j \in DOMAIN outbox : outbox'[k] = outbox[j]
  <2>1. k \in DOMAIN outbox /\ k + 1 \in DOMAIN outbox
    BY <1>1, <1>5, <1>6
  <2> QED
    BY <1>4, <1>5, <1>6, <2>1
<1>7. ASSUME NEW j \in DOMAIN outbox \ {i} PROVE \E k \in DOMAIN outbox' : outbox'[k] = outbox[j]
  <2>1. CASE j < i
    <3>1. j \in DOMAIN outbox' /\ outbox'[j] = outbox[j]
      BY <1>1, <1>4, <1>5, <1>7, <2>1
    <3> QED
      BY <3>1
  <2>2. CASE j > i
    <3>1. j - 1 \in DOMAIN outbox' /\ outbox'[j - 1] = outbox[j]
      BY <1>1, <1>4, <1>5, <1>7, <2>2
    <3> QED
      BY <3>1
  <2> QED
    BY <1>1, <1>7, <2>1, <2>2
<1> QED
  BY <1>4, <1>6, <1>7

\* The worker and the reviewers write nothing of what FilingInv is about, but types.
LEMMA WorkerFiles ==
    ASSUME FilingInv, outbox' \in Seq(RowTypes), nodes' \subseteq Contents,
           edges' \in [Contents -> SUBSET Spelled], drawn' \in [Contents -> SUBSET Spelled],
           overtaken' \subseteq Contents, UNCHANGED <<registries, docs, flight, arrivals, moved>>
    PROVE  FilingInv'
<1> USE DEF FilingInv
<1>1. IngressTypeOK' /\ KeysAreUnique'
  BY DEF IngressTypeOK, KeysAreUnique, registries
<1>2. GatesPassed'
  <2>1. RegistriesGrow
    BY DEF RegistriesGrow, registries
  <2>2. \A t \in Savers : Passed(t)'
    BY <2>1, StandingPasses DEF GatesPassed, Passed
  <2> QED
    BY <2>2 DEF GatesPassed, Passed
<1>3. RecordIsFiled' /\ ParkedIsBare'
  BY DEF RecordIsFiled, ParkedIsBare, registries, SectionsOf
<1>4. LooksStand'
  BY DEF LooksStand, InTx, At, Found, Req
<1> QED
  BY <1>1, <1>2, <1>3, <1>4

\* The types of what the worker writes.
LEMMA WorkerTypes ==
    ASSUME FilingInv, RowFails \/ ApplyRecord \/ ApplyProjectOf
    PROVE  /\ outbox' \in Seq(RowTypes) /\ nodes' \subseteq Contents
           /\ edges' \in [Contents -> SUBSET Spelled] /\ drawn' \in [Contents -> SUBSET Spelled]
           /\ overtaken' \subseteq Contents /\ UNCHANGED <<registries, docs, flight, arrivals, moved>>
<1>1. /\ outbox \in Seq(RowTypes) /\ nodes \subseteq Contents /\ overtaken \subseteq Contents
      /\ edges \in [Contents -> SUBSET Spelled] /\ drawn \in [Contents -> SUBSET Spelled]
  BY DEF FilingInv, IngressTypeOK
<1>2. \A i \in DOMAIN outbox : outbox[i] \in RowTypes
  BY <1>1
<1>3. \A i \in DOMAIN outbox : /\ outbox[i].doc \in Contents /\ outbox[i].project \in Spelled
                               /\ outbox[i].sections \in SUBSET Spelled
  BY <1>2 DEF RowTypes
<1>4. CASE RowFails
  <2>1. PICK i \in DOMAIN outbox : outbox' = [outbox EXCEPT ![i].deferred = TRUE]
    BY <1>4 DEF RowFails
  <2>2. [outbox[i] EXCEPT !.deferred = TRUE] \in RowTypes
    BY <1>2 DEF RowTypes
  <2>3. outbox' \in Seq(RowTypes)
    BY <1>1, <2>1, <2>2
  <2> QED
    BY <1>1, <1>4, <2>3 DEF RowFails
<1>5. CASE ApplyRecord
  <2>1. PICK i \in DOMAIN outbox :
          /\ nodes' = nodes \cup {outbox[i].doc}
          /\ edges' = [edges EXCEPT ![outbox[i].doc] = @ \cup GraphProject(outbox[i].project)]
          /\ drawn' = [drawn EXCEPT ![outbox[i].doc] =
                          @ \cup DrawnSections(outbox[i].project, outbox[i].sections)]
          /\ outbox' = Without(i)
    BY <1>5 DEF ApplyRecord
  <2>2. /\ GraphProject(outbox[i].project) \subseteq Spelled
        /\ DrawnSections(outbox[i].project, outbox[i].sections) \subseteq Spelled
    BY <1>3 DEF GraphProject, DrawnSections
  <2>3. /\ edges[outbox[i].doc] \cup GraphProject(outbox[i].project) \in SUBSET Spelled
        /\ drawn[outbox[i].doc] \cup DrawnSections(outbox[i].project, outbox[i].sections) \in SUBSET Spelled
    BY <1>1, <1>3, <2>2
  <2>4. /\ edges' \in [Contents -> SUBSET Spelled] /\ drawn' \in [Contents -> SUBSET Spelled]
        /\ nodes' \subseteq Contents
    BY <1>1, <1>3, <2>1, <2>3
  <2> QED
    BY <1>1, <1>5, <2>1, <2>4, RowGone DEF ApplyRecord
<1>6. CASE ApplyProjectOf
  <2>1. PICK i \in DOMAIN outbox :
          /\ edges' = IF outbox[i].doc \in nodes
                      THEN [edges EXCEPT ![outbox[i].doc] = {outbox[i].project}] ELSE edges
          /\ overtaken' = IF outbox[i].doc \in nodes THEN overtaken ELSE overtaken \cup {outbox[i].doc}
          /\ outbox' = Without(i)
    BY <1>6 DEF ApplyProjectOf
  <2>2. {outbox[i].project} \in SUBSET Spelled
    BY <1>3
  <2>3. edges' \in [Contents -> SUBSET Spelled] /\ overtaken' \subseteq Contents
    BY <1>1, <1>3, <2>1, <2>2
  <2> QED
    BY <1>1, <1>6, <2>1, <2>3, RowGone DEF ApplyProjectOf
<1> QED
  BY <1>4, <1>5, <1>6

LEMMA FilingStep == FilingInv /\ [IngressNext]_ingressVars => FilingInv'
<1> SUFFICES ASSUME FilingInv, [IngressNext]_ingressVars PROVE FilingInv'
  OBVIOUS
<1>1. ASSUME NEW s \in Savers, SaveStep(s) PROVE FilingInv'
  BY <1>1, GatesStep, TxLookStep, TxWriteStep
<1>2. CASE RowFails \/ ApplyRecord \/ ApplyProjectOf
  BY <1>2, WorkerTypes, WorkerFiles
<1>3. ASSUME UNCHANGED <<registries, docs, flight, arrivals, graphVars, moved>> PROVE FilingInv'
  BY <1>3, WorkerFiles DEF FilingInv, IngressTypeOK, graphVars
<1>4. ASSUME NEW v \in Reviews, HoldRead(v) \/ HoldWrite(v) PROVE FilingInv'
  BY <1>3, <1>4 DEF HoldRead, HoldWrite
<1>5. CASE UNCHANGED ingressVars
  BY <1>3, <1>5 DEF ingressVars
<1> QED
  BY <1>1, <1>2, <1>4, <1>5 DEF IngressNext

LEMMA FilingInit == IngressInit => FilingInv
<1> SUFFICES ASSUME IngressInit PROVE FilingInv
  OBVIOUS
<1>1. IngressTypeOK
  BY IngressAssumption DEF IngressInit, IngressTypeOK
<1>2. KeysAreUnique
  BY IngressAssumption DEF IngressInit, KeysAreUnique, AxisKey
<1>3. GatesPassed
  BY DEF IngressInit, GatesPassed, ProjectPassed, SectionsPassed, EntitiesPassed, At, NoSave
<1>4. RecordIsFiled /\ ParkedIsBare
  BY DEF IngressInit, RecordIsFiled, ParkedIsBare
<1>5. LooksStand
  BY DEF IngressInit, LooksStand, InTx, At, NoSave
<1> QED
  BY <1>1, <1>2, <1>3, <1>4, <1>5 DEF FilingInv

\* In Postgres every record is filed under registered names, in the spelling they are
\* registered in, however the gates of several saves interleave.
THEOREM RecordsAreFiled == IngressSpec => [](IngressTypeOK /\ RecordIsFiled)
<1>1. IngressSpec => []FilingInv
  BY FilingInit, FilingStep, PTL DEF IngressSpec
<1>2. FilingInv => IngressTypeOK /\ RecordIsFiled
  BY DEF FilingInv
<1> QED
  BY <1>1, <1>2, PTL

\* A commit changes the axes of a record only as AxesStay allows.
LEMMA WriteKeepsAxes ==
    ASSUME FilingInv, NEW s \in Savers, TxWrite(s), NEW c \in Contents, docs[c] # NoDoc, docs'[c] # docs[c]
    PROVE  \/ Parked(docs[c]) /\ docs'[c] = [docs[c] EXCEPT !.project = docs'[c].project]
           \/ /\ InTx(s) /\ Req(s).content = c
              /\ \/ ~AxisConflict(docs[c], flight[s])
                 \/ flight[s].sawNone /\ flight[s].entities \cap docs[c].entities = {}
<1>1. CASE Req(s).content = c
  BY <1>1 DEF TxWrite, FilingInv, LooksStand, Found
<1>2. CASE Req(s).content # c
  <2>1. PICK p \in projects : Parked(docs[c]) /\ docs'[c] = [docs[c] EXCEPT !.project = p]
    BY <1>2, WriteChanges DEF Becomes
  <2>2. docs[c] \in DocTypes /\ p \in Spelled
    BY DEF FilingInv, IngressTypeOK
  <2> QED
    BY <2>1, <2>2, PromotionKeeps
<1> QED
  BY <1>1, <1>2

\* The axes of a record are those of its first write, promotions and overlapping
\* first saves apart.
THEOREM AxesAreFixed == IngressSpec => AxesStay
<1> DEFINE Stay == \A c \in Contents : docs[c] # NoDoc /\ docs'[c] # docs[c] =>
          \/ Parked(docs[c]) /\ docs'[c] = [docs[c] EXCEPT !.project = docs'[c].project]
          \/ \E s \in Savers : /\ InTx(s) /\ Req(s).content = c
                               /\ \/ ~AxisConflict(docs[c], flight[s])
                                  \/ flight[s].sawNone /\ flight[s].entities \cap docs[c].entities = {}
<1>1. FilingInv /\ [IngressNext]_ingressVars => [Stay]_ingressVars
  <2> SUFFICES ASSUME FilingInv, IngressNext PROVE Stay
    OBVIOUS
  <2>1. ASSUME NEW s \in Savers, TxWrite(s) PROVE Stay
    BY <2>1, WriteKeepsAxes
  <2>2. ASSUME UNCHANGED docs PROVE Stay
    BY <2>2
  <2>3. ASSUME NEW s \in Savers, SaveStep(s), ~TxWrite(s) PROVE UNCHANGED docs
    BY <2>3 DEF SaveStep, ArriveSave, GateEntities, GateProject, GateNewProject, GateSections, PreCheck,
                RegisterProject, RegisterSection, MintEntity, EmbedContent, TxLook
  <2>4. (RowFails \/ ApplyRecord \/ ApplyProjectOf \/ \E v \in Reviews : HoldRead(v) \/ HoldWrite(v))
        => UNCHANGED docs
    BY DEF RowFails, ApplyRecord, ApplyProjectOf, HoldRead, HoldWrite
  <2> HIDE DEF Stay
  <2> QED
    BY <2>1, <2>2, <2>3, <2>4 DEF IngressNext
<1>2. IngressSpec => []FilingInv
  BY FilingInit, FilingStep, PTL DEF IngressSpec
<1> HIDE DEF Stay
<1>3. IngressSpec => [][Stay]_ingressVars
  BY <1>1, <1>2, PTL DEF IngressSpec
<1> QED
  BY <1>3, PTL DEF AxesStay, Stay

\* Two filings with the same keys are the same: a registry holds one name per key.
LEMMA SameAxes ==
    ASSUME SentinelIsAlone, FilingInv, NEW s \in Savers, InTx(s), Found(s) # NoDoc,
           ~AxisConflict(Found(s), flight[s])
    PROVE  Stored(s).project = Found(s).project /\ Stored(s).sections = Found(s).sections
<1> DEFINE d == Found(s)
           f == Stored(s)
<1>1. /\ f.project = flight[s].project /\ f.sections = flight[s].sections
      /\ Req(s).content \in Contents /\ d \in DocTypes
      /\ f.project \in projects \cup {SENTINEL} /\ f.sections \subseteq SectionsOf(f.project)
      /\ d.project \in projects \cup {SENTINEL} /\ d.sections \subseteq SectionsOf(d.project)
  <2>1. f.project = flight[s].project /\ f.sections = flight[s].sections
    BY DEF Stored
  <2> QED
    BY <2>1, StoredIsFiled DEF Found, FilingInv, RecordIsFiled, IngressTypeOK
<1>2. SameProject(d.project, f.project) /\ Keys(d.sections) = Keys(f.sections)
  BY <1>1 DEF AxisConflict
<1>3. f.project = d.project
  <2>1. \A a \in Aliases : a[1] # d.project
    BY <1>1, IngressAssumption DEF FilingInv, KeysAreUnique
  <2>2. AxisKey(d.project) = AxisKey(f.project)
    BY <1>2, <2>1 DEF SameProject
  <2>3. projects \subseteq Spelled
    BY DEF FilingInv, IngressTypeOK
  <2> QED
    BY <1>1, <2>2, <2>3 DEF FilingInv, KeysAreUnique, SentinelIsAlone
<1>4. \A m, n \in SectionsOf(f.project) : AxisKey(m) = AxisKey(n) => m = n
  <2> SUFFICES ASSUME NEW m \in SectionsOf(f.project), NEW n \in SectionsOf(f.project), AxisKey(m) = AxisKey(n)
               PROVE  m = n
    OBVIOUS
  <2>1. PICK x \in sections : x[1] = f.project /\ x[2] = m
    BY DEF SectionsOf
  <2>2. PICK y \in sections : y[1] = f.project /\ y[2] = n
    BY DEF SectionsOf
  <2> QED
    BY <2>1, <2>2 DEF FilingInv, KeysAreUnique
<1>5. /\ \A m \in d.sections : \E n \in f.sections : AxisKey(m) = AxisKey(n)
      /\ \A n \in f.sections : \E m \in d.sections : AxisKey(m) = AxisKey(n)
  BY <1>2 DEF Keys
<1> HIDE DEF d, f
<1>6. f.sections = d.sections
  <2>1. f.sections \subseteq SectionsOf(f.project) /\ d.sections \subseteq SectionsOf(f.project)
    BY <1>1, <1>3
  <2>2. ASSUME NEW m \in d.sections PROVE m \in f.sections
    <3>1. PICK n \in f.sections : AxisKey(m) = AxisKey(n)
      BY <1>5
    <3> QED
      BY <1>4, <2>1, <3>1
  <2>3. ASSUME NEW n \in f.sections PROVE n \in d.sections
    <3>1. PICK m \in d.sections : AxisKey(m) = AxisKey(n)
      BY <1>5
    <3> QED
      BY <1>4, <2>1, <3>1
  <2> QED
    BY <2>2, <2>3
<1> QED
  BY <1>3, <1>6 DEF d, f

\* A commit leaves the axes of a record it does not move, but for a promotion.
LEMMA UnmovedStays ==
    ASSUME SentinelIsAlone, FilingInv, NEW s \in Savers, TxWrite(s), NEW x \in Contents, docs[x] # NoDoc
    PROVE  /\ docs'[x] # NoDoc
           /\ x \notin moved' => /\ x \notin moved /\ docs'[x].sections = docs[x].sections
                                 /\ docs[x].project \in {SENTINEL, docs'[x].project}
                                 /\ docs'[x].project # docs[x].project => docs'[x] # Becomes(x, s)
<1> DEFINE b == Becomes(x, s)
<1>1. b \in DocTypes
  BY StoredIsFiled DEF Becomes, TxWrite, FilingInv, IngressTypeOK
<1>2. /\ moved \subseteq moved'
      /\ x \notin moved' => b.sections = docs[x].sections /\ b.project = docs[x].project
  <2>1. CASE x = Req(s).content
    <3>1. /\ InTx(s) /\ b = Stored(s) /\ Found(s) = docs[x]
          /\ moved' = IF AxisConflict(docs[x], flight[s]) THEN moved \cup {x} ELSE moved
      BY <2>1 DEF TxWrite, Becomes, Found
    <3> QED
      BY <3>1, SameAxes
  <2>2. CASE x # Req(s).content
    BY <2>2 DEF TxWrite, Becomes
  <2> QED
    BY <2>1, <2>2
<1>3. CASE docs'[x] = b
  BY <1>1, <1>2, <1>3 DEF DocTypes, NoDoc
<1>4. ASSUME NEW p \in projects, Parked(b), docs'[x] = [b EXCEPT !.project = p]
      PROVE  docs'[x] # NoDoc /\ docs'[x].sections = b.sections /\ b.project = SENTINEL /\ docs'[x].project = p
  BY <1>1, <1>4, PromotionKeeps DEF Parked, FilingInv, IngressTypeOK
<1>5. \/ docs'[x] = b
      \/ Parked(b) /\ \E p \in projects : docs'[x] = [b EXCEPT !.project = p]
  BY WriteChanges
<1> HIDE DEF b
<1>6. CASE docs'[x] # b
  BY <1>2, <1>4, <1>5, <1>6 DEF b
<1> QED
  BY <1>3, <1>6

\* A promoted record was parked, and has a project now.
LEMMA PromotionWrites ==
    ASSUME FilingInv, NEW s \in Savers, TxWrite(s), NEW x \in Contents, docs'[x] # Becomes(x, s)
    PROVE  /\ docs'[x] # NoDoc /\ docs'[x].project # SENTINEL
           /\ Becomes(x, s).project = SENTINEL /\ docs'[x].sections = Becomes(x, s).sections
<1>1. PICK p \in projects : /\ p # SENTINEL /\ Parked(Becomes(x, s))
                            /\ docs'[x] = [Becomes(x, s) EXCEPT !.project = p]
  BY WriteChanges
<1>2. Becomes(x, s) \in DocTypes /\ p \in Spelled
  BY <1>1, StoredIsFiled DEF Becomes, TxWrite, Parked, FilingInv, IngressTypeOK
<1> QED
  BY <1>1, <1>2, PromotionKeeps DEF Parked

\* What RowsAgree says of one row.
Agrees(row) ==
    /\ docs[row.doc] # NoDoc
    /\ row.project = SENTINEL => row.kind = "record" /\ row.sections = {}
    /\ row.doc \notin moved => /\ row.sections = docs[row.doc].sections
                               /\ row.project \in {SENTINEL, docs[row.doc].project}

\* The rows a commit adds say what it files, and the older ones are not contradicted.
LEMMA WriteAgrees ==
    ASSUME SentinelIsAlone, FilingInv, RowsAgree, NEW s \in Savers, TxWrite(s)
    PROVE  RowsAgree'
<1> DEFINE c == Req(s).content
<1>1. c \in Contents /\ Stored(s).project = SENTINEL => Stored(s).sections = {}
  BY StoredIsFiled DEF TxWrite
<1>2. \A i \in DOMAIN outbox : outbox[i].doc \in Contents /\ Agrees(outbox[i])
  <2>1. outbox \in Seq(RowTypes)
    BY DEF FilingInv, IngressTypeOK
  <2>2. ASSUME NEW i \in DOMAIN outbox PROVE outbox[i].doc \in Contents
    <3>1. outbox[i] \in RowTypes
      BY <2>1, <2>2
    <3> QED
      BY <3>1 DEF RowTypes
  <2> QED
    BY <2>2 DEF RowsAgree, Agrees
<1>3. ASSUME NEW i \in DOMAIN outbox PROVE Agrees(outbox[i])'
  <2> DEFINE row == outbox[i]
  <2>1. row.doc \in Contents /\ Agrees(row) /\ outbox'[i] = row
    BY <1>2, <1>3, WriteRows
  <2> HIDE DEF row
  <2>2. docs[row.doc] # NoDoc
    BY <2>1 DEF Agrees
  <2>3. /\ docs'[row.doc] # NoDoc
        /\ row.doc \notin moved' => /\ row.doc \notin moved
                                    /\ docs'[row.doc].sections = docs[row.doc].sections
                                    /\ docs[row.doc].project \in {SENTINEL, docs'[row.doc].project}
    BY <2>1, <2>2, UnmovedStays
  <2> QED
    BY <2>1, <2>3 DEF Agrees, row
<1>4. ASSUME NEW i \in DOMAIN outbox', outbox'[i] = Row(c, "record", Stored(s)) PROVE Agrees(outbox[i])'
  <2>1. c \in Contents /\ Becomes(c, s) = Stored(s) /\ Stored(s) # NoDoc
        /\ (Stored(s).project = SENTINEL => Stored(s).sections = {})
    BY StoredIsFiled DEF Becomes, TxWrite
  <2>2. /\ docs'[c] # NoDoc /\ docs'[c].sections = Stored(s).sections
        /\ Stored(s).project \in {SENTINEL, docs'[c].project}
    BY <2>1, PromotionWrites
  <2> QED
    BY <1>4, <2>1, <2>2 DEF Agrees, Row
<1>5. ASSUME NEW i \in DOMAIN outbox', NEW x \in Contents, docs'[x] # Becomes(x, s),
             outbox'[i] = Row(x, "project_of", docs'[x])
      PROVE  Agrees(outbox[i])'
  BY <1>5, PromotionWrites DEF Agrees, Row
<1>6. \A i \in DOMAIN outbox' : Agrees(outbox[i])'
  BY <1>3, <1>4, <1>5, WriteRows
<1> QED
  BY <1>6 DEF RowsAgree, Agrees

\* What Drawn says of one record.
DrawnOf(c) ==
    /\ c \in nodes => docs[c] # NoDoc
    /\ c \notin nodes => edges[c] = {} /\ drawn[c] = {}
    /\ c \notin moved /\ docs[c] # NoDoc =>
          /\ edges[c] \subseteq GraphProject(docs[c].project)
          /\ c \in nodes => drawn[c] = docs[c].sections
          /\ c \in overtaken \/ docs[c].project \in edges[c] \cup {SENTINEL}
             \/ \E i \in DOMAIN outbox :
                   outbox[i].doc = c /\ outbox[i].project = docs[c].project

\* A commit has a row for whatever the graph does not have.
LEMMA WriteDraws ==
    ASSUME SentinelIsAlone, FilingInv, Drawn, NEW s \in Savers, TxWrite(s)
    PROVE  Drawn'
<1> SUFFICES ASSUME NEW x \in Contents PROVE DrawnOf(x)'
  BY DEF Drawn, DrawnOf
<1>1. DrawnOf(x) /\ UNCHANGED <<nodes, edges, drawn, overtaken>>
  BY DEF Drawn, DrawnOf, TxWrite
<1>2. ASSUME docs'[x] # Becomes(x, s)
      PROVE  \E i \in DOMAIN outbox' : outbox'[i].doc = x /\ outbox'[i].project = docs'[x].project
  BY <1>2, WriteRows DEF Row
<1>3. CASE docs[x] # NoDoc
  <2>1. /\ docs'[x] # NoDoc
        /\ x \notin moved' => /\ x \notin moved /\ docs'[x].sections = docs[x].sections
                              /\ docs[x].project \in {SENTINEL, docs'[x].project}
                              /\ docs'[x].project # docs[x].project => docs'[x] # Becomes(x, s)
    BY <1>3, UnmovedStays
  <2>2. CASE x \notin moved'
    <3>1. edges'[x] \subseteq GraphProject(docs'[x].project)
      BY <1>1, <1>3, <2>1, <2>2 DEF DrawnOf, GraphProject
    <3>2. \/ x \in overtaken' \/ docs'[x].project \in edges'[x] \cup {SENTINEL}
          \/ \E i \in DOMAIN outbox' : outbox'[i].doc = x /\ outbox'[i].project = docs'[x].project
      <4>1. CASE docs'[x].project = docs[x].project
        BY <1>1, <1>3, <2>1, <2>2, <4>1, WriteRows DEF DrawnOf
      <4>2. CASE docs'[x].project # docs[x].project
        BY <1>2, <2>1, <2>2, <4>2
      <4> QED
        BY <4>1, <4>2
    <3> QED
      BY <1>1, <1>3, <2>1, <2>2, <3>1, <3>2 DEF DrawnOf
  <2>3. CASE x \in moved'
    BY <1>1, <2>1, <2>3 DEF DrawnOf
  <2> QED
    BY <2>2, <2>3
<1>4. CASE docs[x] = NoDoc
  <2>1. x \notin nodes /\ edges[x] = {} /\ drawn[x] = {}
    BY <1>1, <1>4 DEF DrawnOf
  <2>2. docs'[x] # NoDoc =>
          \E i \in DOMAIN outbox' : outbox'[i].doc = x /\ outbox'[i].project = docs'[x].project
    <3>1. CASE docs'[x] # Becomes(x, s)
      BY <1>2, <3>1
    <3>2. CASE docs'[x] = Becomes(x, s) /\ docs'[x] # NoDoc
      <4>1. x = Req(s).content /\ docs'[x] = Stored(s)
        BY <1>4, <3>2 DEF Becomes
      <4> QED
        BY <4>1, WriteRows DEF Row
    <3> QED
      BY <3>1, <3>2
  <2> QED
    BY <1>1, <2>1, <2>2 DEF DrawnOf
<1> QED
  BY <1>3, <1>4

\* The worker takes a row away and leaves the others.
LEMMA WorkerAgrees ==
    ASSUME FilingInv, RowsAgree, RowFails \/ ApplyRecord \/ ApplyProjectOf
    PROVE  RowsAgree'
<1>1. outbox \in Seq(RowTypes) /\ UNCHANGED <<docs, moved>> /\ \A i \in DOMAIN outbox : Agrees(outbox[i])
  BY DEF FilingInv, IngressTypeOK, RowsAgree, Agrees, RowFails, ApplyRecord, ApplyProjectOf
<1>2. CASE RowFails
  <2>1. PICK i \in DOMAIN outbox : outbox' = [outbox EXCEPT ![i].deferred = TRUE]
    BY <1>2 DEF RowFails
  <2>2. ASSUME NEW k \in DOMAIN outbox'
        PROVE  /\ k \in DOMAIN outbox /\ outbox'[k].doc = outbox[k].doc /\ outbox'[k].kind = outbox[k].kind
               /\ outbox'[k].project = outbox[k].project /\ outbox'[k].sections = outbox[k].sections
    BY <1>1, <2>1, <2>2 DEF RowTypes
  <2>3. \A k \in DOMAIN outbox' : Agrees(outbox[k])'
    BY <1>1, <2>2 DEF Agrees
  <2> QED
    BY <2>3 DEF RowsAgree, Agrees
<1>3. CASE ApplyRecord \/ ApplyProjectOf
  <2>1. \E i \in DOMAIN outbox : outbox' = Without(i)
    BY <1>3 DEF ApplyRecord, ApplyProjectOf
  <2>2. \A k \in DOMAIN outbox' : \E j \in DOMAIN outbox : outbox'[k] = outbox[j]
    BY <1>1, <2>1, RowGone
  <2>3. \A k \in DOMAIN outbox' : Agrees(outbox[k])'
    BY <1>1, <2>2 DEF Agrees
  <2> QED
    BY <2>3 DEF RowsAgree, Agrees
<1> QED
  BY <1>2, <1>3

\* A record whose edges nobody touches is still drawn while its rows are there.
LEMMA UntouchedIsDrawn ==
    ASSUME NEW x \in Contents, DrawnOf(x), UNCHANGED <<docs, moved>>,
           edges'[x] = edges[x], drawn'[x] = drawn[x], x \in nodes <=> x \in nodes',
           overtaken \subseteq overtaken',
           \A i \in DOMAIN outbox : outbox[i].doc = x =>
              \E k \in DOMAIN outbox' : outbox'[k].doc = x /\ outbox'[k].project = outbox[i].project
    PROVE  DrawnOf(x)'
  BY DEF DrawnOf

\* A row that files a record draws what the record says.
LEMMA RecordDraws ==
    ASSUME FilingInv, RowsAgree, Drawn, ApplyRecord, NEW x \in Contents
    PROVE  DrawnOf(x)'
<1>1. PICK i \in DOMAIN outbox :
        /\ nodes' = nodes \cup {outbox[i].doc}
        /\ edges' = [edges EXCEPT ![outbox[i].doc] = @ \cup GraphProject(outbox[i].project)]
        /\ drawn' = [drawn EXCEPT ![outbox[i].doc] =
                        @ \cup DrawnSections(outbox[i].project, outbox[i].sections)]
        /\ outbox' = Without(i)
  BY DEF ApplyRecord
<1> DEFINE row == outbox[i]
<1>2. /\ outbox \in Seq(RowTypes) /\ UNCHANGED <<registries, docs, moved, overtaken>> /\ DrawnOf(x)
      /\ edges \in [Contents -> SUBSET Spelled] /\ drawn \in [Contents -> SUBSET Spelled]
      /\ Agrees(row)
  BY DEF FilingInv, IngressTypeOK, ApplyRecord, Drawn, DrawnOf, RowsAgree, Agrees
<1>3. row \in RowTypes /\ row.doc \in Contents
  <2>1. row \in RowTypes
    BY <1>2
  <2> QED
    BY <2>1 DEF RowTypes
<1>4. \A j \in DOMAIN outbox \ {i} : \E k \in DOMAIN outbox' : outbox'[k] = outbox[j]
  BY <1>1, <1>2, RowGone
<1> HIDE DEF row
<1>5. CASE x # row.doc
  <2>1. \A j \in DOMAIN outbox : outbox[j].doc = x =>
            \E k \in DOMAIN outbox' : outbox'[k].doc = x /\ outbox'[k].project = outbox[j].project
    BY <1>4, <1>5 DEF row
  <2>2. edges'[x] = edges[x] /\ drawn'[x] = drawn[x] /\ (x \in nodes <=> x \in nodes')
    BY <1>1, <1>2, <1>5 DEF row
  <2> QED
    BY <1>2, <2>1, <2>2, UntouchedIsDrawn
<1>6. CASE x = row.doc
  <2>1. /\ x \in nodes' /\ edges'[x] = edges[x] \cup GraphProject(row.project)
        /\ drawn'[x] = drawn[x] \cup DrawnSections(row.project, row.sections)
    BY <1>1, <1>2, <1>6 DEF row
  <2>2. docs'[x] = docs[x] /\ docs[x] # NoDoc
    BY <1>2, <1>6 DEF Agrees
  <2>3. ASSUME x \notin moved
        PROVE  /\ row.project \in {SENTINEL, docs[x].project} /\ row.sections = docs[x].sections
               /\ row.project = SENTINEL => row.sections = {}
               /\ docs[x].sections \subseteq SectionsOf(docs[x].project)
               /\ edges[x] \subseteq GraphProject(docs[x].project)
               /\ drawn[x] = IF x \in nodes THEN docs[x].sections ELSE {}
    BY <1>2, <1>6, <2>2, <2>3 DEF Agrees, FilingInv, RecordIsFiled, DrawnOf
  <2>4. ASSUME x \notin moved
        PROVE  edges'[x] \subseteq GraphProject(docs[x].project) /\ drawn'[x] = docs[x].sections
    BY <2>1, <2>3, <2>4 DEF GraphProject, DrawnSections
  <2>5. ASSUME x \notin moved
        PROVE  \/ x \in overtaken' \/ docs[x].project \in edges'[x] \cup {SENTINEL}
               \/ \E k \in DOMAIN outbox' : outbox'[k].doc = x /\ outbox'[k].project = docs[x].project
    <3>1. CASE x \in overtaken \/ docs[x].project \in edges[x] \cup {SENTINEL}
      BY <1>2, <2>1, <3>1
    <3>2. CASE row.project = docs[x].project
      BY <2>1, <3>2 DEF GraphProject
    <3>3. CASE \E j \in DOMAIN outbox \ {i} : outbox[j].doc = x /\ outbox[j].project = docs[x].project
      BY <1>4, <3>3
    <3> QED
      BY <1>2, <2>2, <2>5, <3>1, <3>2, <3>3 DEF DrawnOf, row
  <2>6. x \notin moved' => x \notin moved
    BY <1>2
  <2> QED
    BY <2>1, <2>2, <2>4, <2>5, <2>6 DEF DrawnOf
<1> QED
  BY <1>5, <1>6

\* A promotion's row gives a node the one edge its record has now.
LEMMA PromotionDraws ==
    ASSUME FilingInv, RowsAgree, Drawn, ApplyProjectOf, NEW x \in Contents
    PROVE  DrawnOf(x)'
<1>1. PICK i \in DOMAIN outbox :
        /\ outbox[i].kind = "project_of"
        /\ edges' = IF outbox[i].doc \in nodes
                    THEN [edges EXCEPT ![outbox[i].doc] = {outbox[i].project}] ELSE edges
        /\ overtaken' = IF outbox[i].doc \in nodes THEN overtaken ELSE overtaken \cup {outbox[i].doc}
        /\ outbox' = Without(i)
  BY DEF ApplyProjectOf
<1> DEFINE row == outbox[i]
<1>2. /\ outbox \in Seq(RowTypes) /\ UNCHANGED <<docs, moved, nodes, drawn>> /\ DrawnOf(x)
      /\ edges \in [Contents -> SUBSET Spelled] /\ Agrees(row)
  BY DEF FilingInv, IngressTypeOK, ApplyProjectOf, Drawn, DrawnOf, RowsAgree, Agrees
<1>3. \A j \in DOMAIN outbox \ {i} : \E k \in DOMAIN outbox' : outbox'[k] = outbox[j]
  BY <1>1, <1>2, RowGone
<1> HIDE DEF row
<1>4. CASE x # row.doc
  <2>1. \A j \in DOMAIN outbox : outbox[j].doc = x =>
            \E k \in DOMAIN outbox' : outbox'[k].doc = x /\ outbox'[k].project = outbox[j].project
    BY <1>3, <1>4 DEF row
  <2>2. edges'[x] = edges[x] /\ overtaken \subseteq overtaken'
    BY <1>1, <1>2, <1>4 DEF row
  <2> QED
    BY <1>2, <2>1, <2>2, UntouchedIsDrawn
<1>5. CASE x = row.doc /\ x \in nodes
  <2>1. edges'[x] = {row.project} /\ row.project # SENTINEL /\ docs[x] # NoDoc
    BY <1>1, <1>2, <1>5 DEF row, Agrees
  <2>2. x \notin moved => row.project = docs[x].project /\ drawn[x] = docs[x].sections
    BY <1>2, <1>5, <2>1 DEF Agrees, DrawnOf
  <2> QED
    BY <1>2, <1>5, <2>1, <2>2 DEF DrawnOf, GraphProject
<1>6. CASE x = row.doc /\ x \notin nodes
  <2>1. edges' = edges /\ x \in overtaken'
    BY <1>1, <1>6 DEF row
  <2> QED
    BY <1>2, <1>6, <2>1 DEF DrawnOf
<1> QED
  BY <1>4, <1>5, <1>6

\* A failed row keeps its place and what it says.
LEMMA FailureDraws ==
    ASSUME FilingInv, Drawn, RowFails, NEW x \in Contents
    PROVE  DrawnOf(x)'
<1>1. PICK i \in DOMAIN outbox : outbox' = [outbox EXCEPT ![i].deferred = TRUE]
  BY DEF RowFails
<1>2. outbox \in Seq(RowTypes) /\ UNCHANGED <<docs, moved, nodes, edges, drawn, overtaken>> /\ DrawnOf(x)
  BY DEF FilingInv, IngressTypeOK, RowFails, Drawn, DrawnOf
<1>3. \A k \in DOMAIN outbox : /\ k \in DOMAIN outbox' /\ outbox'[k].doc = outbox[k].doc
                               /\ outbox'[k].project = outbox[k].project
  BY <1>1, <1>2 DEF RowTypes
<1> QED
  BY <1>2, <1>3, UntouchedIsDrawn

FiledInv == FilingInv /\ RowsAgree /\ Drawn

LEMMA FiledStep == ASSUME SentinelIsAlone, FiledInv, [IngressNext]_ingressVars PROVE FiledInv'
<1> USE DEF FiledInv
<1>1. FilingInv'
  BY FilingStep
<1>2. ASSUME UNCHANGED <<docs, graphVars, moved>> PROVE RowsAgree' /\ Drawn'
  BY <1>2 DEF RowsAgree, Drawn, graphVars
<1>3. ASSUME NEW s \in Savers, SaveStep(s), ~TxWrite(s) PROVE UNCHANGED <<docs, graphVars, moved>>
  BY <1>3 DEF SaveStep, ArriveSave, GateEntities, GateProject, GateNewProject, GateSections, PreCheck,
              RegisterProject, RegisterSection, MintEntity, EmbedContent, TxLook
<1>4. ASSUME NEW s \in Savers, TxWrite(s) PROVE RowsAgree' /\ Drawn'
  BY <1>4, WriteAgrees, WriteDraws
<1>5. ASSUME RowFails \/ ApplyRecord \/ ApplyProjectOf PROVE RowsAgree' /\ Drawn'
  <2>1. \A x \in Contents : DrawnOf(x)'
    BY <1>5, RecordDraws, PromotionDraws, FailureDraws
  <2>2. Drawn'
    BY <2>1 DEF Drawn, DrawnOf
  <2> QED
    BY <1>5, <2>2, WorkerAgrees
<1>6. ASSUME NEW v \in Reviews, HoldRead(v) \/ HoldWrite(v) PROVE UNCHANGED <<docs, graphVars, moved>>
  BY <1>6 DEF HoldRead, HoldWrite
<1>7. UNCHANGED ingressVars => UNCHANGED <<docs, graphVars, moved>>
  BY DEF ingressVars
<1> QED
  BY <1>1, <1>2, <1>3, <1>4, <1>5, <1>6, <1>7 DEF IngressNext

\* A record is filed under its project and its sections in Postgres, and, once its rows
\* have reached it, in the graph: where only the sentinel is spelled like the sentinel.
THEOREM FilesInBothStores == ASSUME SentinelIsAlone PROVE IngressSpec => []FiledInBothStores
<1>1. IngressInit => FiledInv
  <2>1. IngressInit => RowsAgree /\ Drawn
    BY DEF IngressInit, RowsAgree, Drawn
  <2> QED
    BY <2>1, FilingInit DEF FiledInv
<1>2. FiledInv /\ [IngressNext]_ingressVars => FiledInv'
  BY FiledStep
<1>3. FiledInv => FiledInBothStores
  <2> SUFFICES ASSUME FiledInv PROVE FiledInBothStores
    OBVIOUS
  <2>1. ASSUME NEW c \in nodes \ (overtaken \cup moved), \A i \in DOMAIN outbox : outbox[i].doc # c
        PROVE  edges[c] = GraphProject(docs[c].project) /\ drawn[c] = docs[c].sections
    <3>1. c \in Contents
      BY DEF FiledInv, FilingInv, IngressTypeOK
    <3>2. /\ edges[c] \subseteq GraphProject(docs[c].project) /\ drawn[c] = docs[c].sections
          /\ docs[c].project \in edges[c] \cup {SENTINEL}
      BY <2>1, <3>1 DEF FiledInv, Drawn
    <3> QED
      BY <3>2 DEF GraphProject
  <2> QED
    BY <2>1 DEF FiledInBothStores, GraphIsFiled, FiledInv, FilingInv
<1> QED
  BY <1>1, <1>2, <1>3, PTL DEF IngressSpec

=============================================================================
