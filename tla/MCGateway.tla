------------------------------ MODULE MCGateway ------------------------------
(***************************************************************************)
(* Seven parts of the gateway and its daemons that share no variable, one  *)
(* scene each: every behaviour plays one scene and the variables of the    *)
(* others keep their initial values.  What the parts exchange (the health  *)
(* flags, the daemon tokens, the notifications) each module has as an      *)
(* input it does not control.  The encoders' three calls and the review    *)
(* holds are scenes of their own for the same reason.                      *)
(***************************************************************************)
EXTENDS Supervision, Health, NremSchedule, Gate, Capacity, Encoders, Ingress

VARIABLE scene

Scenes == {"supervision", "health", "schedule", "gate", "capacity", "alternatives", "embed", "window",
           "ingress", "review"}

Init ==
    /\ scene \in Scenes
    /\ SupInit /\ HealthInit /\ SchedInit /\ GateInit /\ CapacityInit /\ EncodersInit /\ IngressInit
    /\ scene # "capacity" => machine = CHOOSE m \in [hw : Hardware, enc : Configs] : TRUE

\* The scene is s, and nothing outside it moves.
Plays(s) ==
    /\ scene = s /\ UNCHANGED scene
    /\ s # "supervision" => UNCHANGED supVars
    /\ s # "health" => UNCHANGED healthVars
    /\ s # "schedule" => UNCHANGED schedVars
    /\ s # "gate" => UNCHANGED gateVars
    /\ s # "capacity" => UNCHANGED capacityVars
    /\ s \notin {"alternatives", "embed", "window"} => UNCHANGED encoderVars
    /\ s \notin {"ingress", "review"} => UNCHANGED ingressVars

Next ==
    \/ \E d \in Daemons, found \in {"unreadable", "no_script", "no_pipe", "ready"} :
          Plays("supervision") /\ Probe(d, found)
    \/ \E d \in Daemons : Plays("supervision") /\ Again(d)
    \/ \E d \in Daemons : Plays("supervision") /\ Notice(d)
    \/ \E d \in Daemons : Plays("supervision") /\ CrashAges(d)
    \/ \E d \in Daemons, spawned \in BOOLEAN : Plays("supervision") /\ Spawn(d, spawned)
    \/ \E d \in Daemons, c \in {"ok", "crash"} : Plays("supervision") /\ Exit(d, c)
    \/ Plays("supervision") /\ Signal
    \/ Plays("supervision") /\ Drained
    \/ Plays("supervision") /\ NremGone
    \/ Plays("supervision") /\ RemGone
    \/ \E q \in Requests : Plays("health") /\ Ask(q)
    \/ \E q \in Requests : Plays("health") /\ TakeLock(q)
    \/ \E q \in Requests : Plays("health") /\ ClientGone(q)
    \/ \E q \in Requests, r \in Readings : Plays("health") /\ ProbeEnds(q, r)
    \/ \E status \in [Encoders -> CapStatuses], slow \in [Encoders -> BOOLEAN] :
          Plays("health") /\ ProbeCapability(status, slow)
    \/ Plays("health") /\ Expires
    \/ Plays("health") /\ Sheds
    \/ \E quiet, read, sweep \in BOOLEAN : Plays("schedule") /\ Tick(quiet, read, sweep)
    \/ \E done \in SUBSET Runs : Plays("schedule") /\ TakeBackupLock(done)
    \/ \E b \in BOOLEAN : Plays("schedule") /\ OpenRun(b)
    \/ \E b \in BOOLEAN : Plays("schedule") /\ EndJob(b)
    \/ \E b \in BOOLEAN : Plays("schedule") /\ Recover(b)
    \/ \E how \in {"completed", "aborted", "crashed"}, written \in BOOLEAN :
          Plays("schedule") /\ CloseRun(how, written)
    \/ Plays("schedule") /\ Notified
    \/ Plays("schedule") /\ AskPool
    \/ Plays("schedule") /\ SlotFree
    \/ Plays("schedule") /\ SlotWaitEnds
    \/ Plays("schedule") /\ NothingToDo
    \/ Plays("schedule") /\ ReleaseForChat
    \/ Plays("schedule") /\ Reacquire
    \/ \E starved \in 0..MaxLead : Plays("schedule") /\ RemCalls(starved)
    \/ \E notify \in BOOLEAN : Plays("schedule") /\ RemCallEnds(notify)
    \/ Plays("schedule") /\ OtherLeaves
    \/ Plays("schedule") /\ BackupEnds
    \/ Plays("schedule") /\ Die
    \/ Plays("schedule") /\ OtherArrives
    \/ Plays("schedule") /\ BackupStarts
    \/ Plays("schedule") /\ FactsArrive
    \/ Plays("schedule") /\ FactsFolded
    \/ Plays("schedule") /\ Overdue
    \/ \E q \in Calls, token \in Tokens, exact, attested \in BOOLEAN, kind \in RouteKinds :
          Plays("gate") /\ closing = "open" /\ Arrive(q, token, exact, kind, attested)
    \/ \E q \in Calls : Plays("gate") /\ Admit(q)
    \/ \E q \in Calls : Plays("gate") /\ Leave(q)
    \/ \E door \in Doors : Plays("gate") /\ Refill(door)
    \/ Plays("gate") /\ DaemonTokenIssued
    \/ Plays("gate") /\ Take
    \/ Plays("gate") /\ Appended
    \/ Plays("gate") /\ Close
    \/ Plays("gate") /\ Flushed
    \/ \E p \in Probes, write \in {"ok", "fails", "unsecured"} : Plays("capacity") /\ Derive(p, write)
    \/ Plays("capacity") /\ Snapshot
    \/ \E m \in [hw : Hardware, enc : Configs] : Plays("capacity") /\ Reboot(m)
    \/ Plays("alternatives") /\ SaveDecision
    \/ Plays("alternatives") /\ FetchPending
    \/ Plays("alternatives") /\ VectorsArrive
    \/ Plays("alternatives") /\ BatchOverflows
    \/ Plays("alternatives") /\ BatchFails
    \/ Plays("alternatives") /\ WriteVectors
    \/ Plays("alternatives") /\ WriteFails
    \/ Plays("alternatives") /\ Defer
    \/ Plays("embed") /\ Embed
    \/ Plays("embed") /\ SaveOverflows
    \/ Plays("embed") /\ SaveFails
    \/ Plays("embed") /\ NremOverflows
    \/ Plays("embed") /\ StaleConnection
    \/ Plays("embed") /\ RelayFails
    \/ Plays("embed") /\ VectorArrives
    \/ Plays("embed") /\ CallEnds
    \/ Plays("window") /\ ProbeWindow
    \/ Plays("window") /\ EncoderSilent
    \/ Plays("window") /\ WindowAnswered
    \/ Plays("window") /\ FullPayloadAnswered
    \/ \E s \in Savers : Plays("ingress") /\ ArriveSave(s)
    \/ \E s \in Savers : Plays("ingress") /\ GateEntities(s)
    \/ \E s \in Savers : Plays("ingress") /\ GateProject(s)
    \/ \E s \in Savers : Plays("ingress") /\ GateNewProject(s)
    \/ \E s \in Savers : Plays("ingress") /\ GateSections(s)
    \/ \E s \in Savers : Plays("ingress") /\ PreCheck(s)
    \/ \E s \in Savers : Plays("ingress") /\ RegisterProject(s)
    \/ \E s \in Savers : Plays("ingress") /\ RegisterSection(s)
    \/ \E s \in Savers : Plays("ingress") /\ MintEntity(s)
    \/ \E s \in Savers : Plays("ingress") /\ EmbedContent(s)
    \/ \E s \in Savers : Plays("ingress") /\ TxLook(s)
    \/ \E s \in Savers : Plays("ingress") /\ TxWrite(s)
    \/ Plays("ingress") /\ RowFails
    \/ Plays("ingress") /\ ApplyRecord
    \/ Plays("ingress") /\ ApplyProjectOf
    \/ \E v \in Reviews : Plays("review") /\ HoldRead(v)
    \/ \E v \in Reviews : Plays("review") /\ HoldWrite(v)

allVars == <<scene, supVars, healthVars, schedVars, gateVars, capacityVars, encoderVars, ingressVars>>

\* SchedFairness, in the scene it is about.
Fairness ==
    /\ WF_schedVars(scene = "schedule" /\ DaemonStep) /\ SF_schedVars(scene = "schedule" /\ SilentTick)
    /\ WF_schedVars(scene = "schedule" /\ RemStep) /\ WF_schedVars(scene = "schedule" /\ CycleEnds)
    /\ WF_schedVars(scene = "schedule" /\ OtherLeaves) /\ WF_schedVars(scene = "schedule" /\ BackupEnds)

Spec == Init /\ [][Next]_allVars /\ Fairness

-----------------------------------------------------------------------------
\* AGENT_TOKENS, one with a malformed line and a token that two agents claim, and
\* AGENT_ROLES, with roles that the roster overrules, one that no role has, and one
\* that a later line replaces.
Ents == << [name |-> "monitor", token |-> "t1", form |-> "digest"],
           [name |-> "maintenance-admin", token |-> "t2", form |-> "digest"],
           [name |-> "agent", token |-> "t3", form |-> "malformed"],
           [name |-> "agent", token |-> "t3", form |-> "digest"],
           [name |-> "maintenance-admin", token |-> "t3", form |-> "digest"] >>
RoleEnts == << [name |-> "monitor", role |-> "full"], [name |-> "agent", role |-> "read"],
               [name |-> "agent", role |-> "full"], [name |-> "maintenance-admin", role |-> "writer"] >>

\* Overflow answers: a window below the required one, an overrun by a half and by
\* three quarters, and no overrun at all.
Adv == {<<1, 2>>, <<2, 3>>, <<2, 8>>, <<2, 2>>}

\* Names and their keys: two spellings each of a project, a section and an entity.
Names1 == [n \in {"P-1", "p 1", "Q", "q-old", "parked", "sec", "S-ec", "e1", "E 1", "known", "--"} |->
            CASE n \in {"P-1", "p 1"} -> "p1" [] n = "Q" -> "q" [] n = "q-old" -> "qold"
              [] n = "parked" -> "parked" [] n \in {"sec", "S-ec"} -> "sec"
              [] n \in {"e1", "E 1"} -> "e1" [] n = "known" -> "known" [] OTHER -> ""]
Al == {<<"q-old", "Q">>}
Conf == {{"P-1", "Q"}, {"p 1", "Q"}}

Plain == [content |-> "f", kind |-> "fact", project |-> "Q", newProject |-> FALSE, sections |-> {},
          newDomain |-> FALSE, entities |-> {}, newEntities |-> {}, confirmed |-> {}, cites |-> {}]
Reqs == {
    [Plain EXCEPT !.project = "P-1", !.newProject = TRUE, !.sections = {"sec"}, !.newDomain = TRUE,
                  !.confirmed = {"Q"}],
    [Plain EXCEPT !.content = "d", !.kind = "decision", !.project = "p 1", !.newProject = TRUE,
                  !.confirmed = {"Q"}, !.cites = {"g"}],
    [Plain EXCEPT !.project = "P-1", !.sections = {"S-ec"}, !.newDomain = TRUE],
    [Plain EXCEPT !.project = "q-old", !.entities = {"e1"}, !.newEntities = {"e1"}],
    [Plain EXCEPT !.content = "g", !.project = "parked", !.entities = {"E 1", "known"},
                  !.newEntities = {"E 1"}],
    [Plain EXCEPT !.content = "d", !.kind = "decision", !.cites = {"g"}],
    [Plain EXCEPT !.entities = {"Q"}, !.newEntities = {"Q"}]}

=============================================================================
