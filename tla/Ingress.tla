------------------------------- MODULE Ingress -------------------------------
(***************************************************************************)
(* handle_save, from the axes a save names to the record it commits.       *)
(*                                                                         *)
(*   projects, sections, vocab   the three registries: project names,      *)
(*              <<project, section>> pairs, canonical entity names.  Spelled *)
(*              are spellings; two spellings with one AxisKey are one name *)
(*   docs       technical_docs, by content: the axes a record is filed on  *)
(*   flight     the saves in flight, each at the gate it has reached       *)
(*   outbox     rows that carry a record's project to the graph            *)
(*   nodes, edges, drawn   the graph: the records with a spine node, and   *)
(*              the PROJECT_OF and DOMAIN_OF edges of each                 *)
(*   review     handle_review_hold: the acknowledged pairs of one summary, *)
(*              and what each request in flight read of them               *)
(*   overtaken, moved   history: records whose promotion reached the graph *)
(*              before their node, records whose axes a second save moved  *)
(* Every gate reads the registries by itself and nothing is locked between *)
(* gates; the registrations are written after the last gate, one           *)
(* transaction each, and the record after that in a transaction of its own.*)
(***************************************************************************)
EXTENDS Integers, Sequences, SequencesExt, FiniteSets

CONSTANTS
    Contents,            \* what can be saved; the content hash names the record
    Savers,              \* saves that can be in flight at once
    Saves,               \* the saves clients send
    Spelling,            \* AxisKey of every name: a function on names
    SENTINEL,            \* the parked project, "general_discussion"
    Aliases,             \* retired project spellings: <<alias, project>>
    Confusable,          \* pairs {a, b} of names close enough to be typos
    Registered,          \* the projects registered at the start
    KnownEntities,       \* the vocabulary at the start
    Reviews,             \* hold requests that can be in flight at once
    MaxArrivals          \* bound: saves of one behaviour

\* Spelled that can be sent or stored.
Spelled == DOMAIN Spelling

\* The registries' constraints hold at the start: one project per key, and an
\* alias is neither a project nor the sentinel and stands for a project.
ASSUME IngressAssumption ==
    /\ Registered \cup KnownEntities \subseteq Spelled /\ SENTINEL \in Spelled \ Registered
    /\ \A p, q \in Registered : Spelling[p] = Spelling[q] => p = q
    /\ \A a \in Aliases : a[1] \notin Registered \cup {SENTINEL} /\ a[2] \in Registered
    /\ Saves \subseteq [content : Contents, kind : {"fact", "decision"}, project : Spelled,
                       newProject : BOOLEAN, sections : SUBSET Spelled, newDomain : BOOLEAN,
                       entities : SUBSET Spelled, newEntities : SUBSET Spelled,
                       confirmed : SUBSET Spelled, cites : SUBSET Contents]
    /\ IsFiniteSet(Contents) /\ MaxArrivals \in Nat

VARIABLES projects, sections, vocab, docs, flight, arrivals, outbox, nodes, edges, drawn,
          review, overtaken, moved

registries == <<projects, sections, vocab>>
graphVars == <<outbox, nodes, edges, drawn, overtaken>>
ingressVars == <<registries, docs, flight, arrivals, graphVars, review, moved>>

NoDoc == [kind |-> "none"]
NoSave == [at |-> "none"]

AxisKey(name) == Spelling[name]
Keys(names) == {AxisKey(n) : n \in names}
Unnameable(name) == AxisKey(name) = ""
SameSpelling(a, b) == ~Unnameable(a) /\ AxisKey(a) = AxisKey(b)

IngressInit ==
    /\ projects = Registered /\ sections = {} /\ vocab = KnownEntities
    /\ docs = [c \in Contents |-> NoDoc]
    /\ flight = [s \in Savers |-> NoSave]
    /\ arrivals = 0
    /\ outbox = <<>> /\ nodes = {} /\ edges = [c \in Contents |-> {}]
    /\ drawn = [c \in Contents |-> {}]
    /\ review = [acks |-> {}, read |-> [v \in Reviews |-> [at |-> "idle"]]]
    /\ overtaken = {} /\ moved = {}

At(s, gate) == flight[s].at = gate
Goes(s, gate) == flight' = [flight EXCEPT ![s].at = gate]
Refused(s) == flight' = [flight EXCEPT ![s] = NoSave]
Req(s) == flight[s].req
-----------------------------------------------------------------------------
\* _resolve_project_alias, _project_spellings, _domain_spellings and then
\* resolve_axis_value: exactly, by alias, by key.
AliasOf(name, aliases) == {a[2] : a \in {b \in aliases : b[1] = name}}
Keyed(name, names, aliases) ==
    {n \in names : SameSpelling(n, name)}
    \cup {a[2] : a \in {b \in aliases : SameSpelling(b[1], name)}}
Meant(name, names, aliases) ==
    CASE name \in names -> {name}
      [] name \notin names /\ AliasOf(name, aliases) # {} -> AliasOf(name, aliases)
      [] OTHER -> Keyed(name, names, aliases)

\* spelling_variant_of and unconfirmed_confusables, asked of a name declared new
Variant(name, names, aliases) ==
    \E n \in names \cup {a[1] : a \in aliases} : SameSpelling(n, name)
Unconfirmed(name, names, confirmed) ==
    {n \in names : n # name /\ {n, name} \in Confusable /\ AxisKey(n) \notin Keys(confirmed)}
MayBeNew(name, names, aliases, confirmed) ==
    /\ ~Unnameable(name)
    /\ ~Variant(name, names, aliases)
    /\ Unconfirmed(name, names, confirmed) = {}

SectionsOf(project) == {x[2] : x \in {y \in sections : y[1] = project}}
SectionMayBeNew(name, project, confirmed) == MayBeNew(name, SectionsOf(project), {}, confirmed)

\* An entity's name in the vocabulary, and a list rewritten to those names.
Canonical(entity) == {n \in vocab : SameSpelling(n, entity)}
Rewritten(names) == {e \in names : Canonical(e) = {}} \cup UNION {Canonical(e) : e \in names}

\* project_for_graph, _project_identity: the sentinel has no node, and a project
\* that is not registered no identity, without which its row fails.
GraphProject(project) == {project} \ {SENTINEL}
Identified(project) == GraphProject(project) \subseteq projects
\* _domain_identities: a section that is not registered gets no edge.
DrawnSections(project, names) == names \cap SectionsOf(project)
-----------------------------------------------------------------------------
ArriveSave(s) ==
    /\ At(s, "none") /\ arrivals < MaxArrivals
    /\ \E r \in Saves :
          flight' = [flight EXCEPT ![s] =
                      [at |-> "entities", req |-> r, project |-> r.project,
                       sections |-> r.sections, entities |-> r.entities,
                       mint |-> {}, registers |-> FALSE, adds |-> {}, sawNone |-> FALSE]]
    /\ arrivals' = arrivals + 1
    /\ UNCHANGED <<registries, docs, graphVars, review, moved>>

\* Only facts name entities, and an entity is never a project or the sentinel.
Reserved(entity, own) ==
    AxisKey(entity) \in {AxisKey(SENTINEL), AxisKey(own)}
                        \cup Keys(projects) \cup {AxisKey(a[1]) : a \in Aliases}
JudgementNamesEntities(r) == r.kind = "decision" /\ (r.entities # {} \/ r.newEntities # {})
ConfusableEntity(r) ==
    \E e \in r.newEntities : Canonical(e) = {} /\ Unconfirmed(e, vocab, r.confirmed) # {}
EntitiesRefused(r) ==
    \/ JudgementNamesEntities(r)
    \/ r.entities # {} /\ ~(r.newEntities \subseteq r.entities)
    \/ \E e \in r.newEntities : Unnameable(e)
    \/ \E e \in r.entities : ~Unnameable(e) /\ Reserved(e, r.project)
    \/ \E e \in r.entities \ r.newEntities : Canonical(e) = {}
    \/ ConfusableEntity(r)

GateEntities(s) ==
    /\ At(s, "entities")
    /\ IF EntitiesRefused(Req(s)) THEN Refused(s)
       ELSE flight' = [flight EXCEPT ![s].at = "project",
                        ![s].mint = {e \in @ \cup Req(s).newEntities : Canonical(e) = {}},
                        ![s].entities = Rewritten(@)]
    /\ UNCHANGED <<registries, docs, arrivals, graphVars, review, moved>>

\* _project_ingress_error: known exactly, new, or a spelling of a known one; where
\* the registry cannot be read no spelling is known.
GateProject(s) ==
    /\ At(s, "project")
    /\ LET supplied == Req(s).project
           meant    == Meant(supplied, projects, Aliases)
       IN \/ supplied \in projects \cup {SENTINEL} /\ Goes(s, "sections")
          \/ supplied \notin projects \cup {SENTINEL} /\ Req(s).newProject
             /\ Goes(s, "newProject")
          \/ /\ supplied \notin projects \cup {SENTINEL} /\ ~Req(s).newProject
             /\ \/ Refused(s)
                \/ \E p \in meant : flight' = [flight EXCEPT ![s].at = "sections",
                                                           ![s].project = p]
    /\ UNCHANGED <<registries, docs, arrivals, graphVars, review, moved>>

\* The registration itself is deferred until every gate has passed.
DeferProject(s) == flight' = [flight EXCEPT ![s].at = "sections", ![s].registers = TRUE]
GateNewProject(s) ==
    /\ At(s, "newProject")
    /\ IF MayBeNew(Req(s).project, projects, Aliases, Req(s).confirmed) THEN DeferProject(s)
       ELSE Refused(s)
    /\ UNCHANGED <<registries, docs, arrivals, graphVars, review, moved>>

\* _domain_ingress_error: a section belongs to a project, known or declared new
NewProjectSectionOk(s, name) == Req(s).newDomain /\ ~Unnameable(name)
SectionOk(s, name) ==
    LET here == SectionsOf(flight[s].project)
    IN IF flight[s].registers THEN NewProjectSectionOk(s, name)
       ELSE \/ name \in here
            \/ Req(s).newDomain /\ SectionMayBeNew(name, flight[s].project, Req(s).confirmed)
            \/ ~Req(s).newDomain /\ Meant(name, here, {}) # {}
DeferredSections(s) ==
    IF Req(s).newDomain THEN Req(s).sections \ SectionsOf(flight[s].project) ELSE {}
FiledSections(s) ==
    IF Req(s).newDomain THEN Req(s).sections
    ELSE UNION {Meant(n, SectionsOf(flight[s].project), {}) : n \in Req(s).sections}

GateSections(s) ==
    /\ At(s, "sections")
    /\ IF \/ Req(s).sections # {} /\ flight[s].project = SENTINEL
          \/ \E n \in Req(s).sections : ~SectionOk(s, n)
       THEN Refused(s)
       ELSE flight' = [flight EXCEPT ![s].at = "precheck", ![s].adds = DeferredSections(s),
                                   ![s].sections = FiledSections(s)]
    /\ UNCHANGED <<registries, docs, arrivals, graphVars, review, moved>>
-----------------------------------------------------------------------------
\* _axis_conflict_error: the content is stored under other axes
SameProject(stored, project) ==
    \/ AxisKey(stored) = AxisKey(project)
    \/ \E a \in Aliases : a[1] = stored /\ AxisKey(a[2]) = AxisKey(project)
AxisConflict(doc, call) ==
    /\ doc # NoDoc
    /\ \/ doc.kind # call.req.kind
       \/ ~SameProject(doc.project, call.project)
       \/ Keys(doc.sections) # Keys(call.sections)
       \/ doc.kind = "fact" /\ doc.entities # call.entities

PreCheck(s) ==
    /\ At(s, "precheck")
    /\ IF AxisConflict(docs[Req(s).content], flight[s]) THEN Refused(s)
       ELSE Goes(s, "register")
    /\ UNCHANGED <<registries, docs, arrivals, graphVars, review, moved>>

\* INSERT ... ON CONFLICT DO NOTHING on the key, then the name under the key:
\* a name somebody else registered first is accepted only in that spelling.
HeldByKey(name, names) == \E n \in names : SameSpelling(n, name)
InsertableAnyway(name, names) == TRUE
Insertable(name, names) == ~HeldByKey(name, names) \/ name \in names

InsertsNewKeys(name, names) == IF HeldByKey(name, names) THEN {} ELSE {name}

\* _commit_axis_registrations refuses two spellings of one section before it
\* writes anything; then the project.
RegisterProject(s) ==
    /\ At(s, "register")
    /\ LET name == flight[s].project
       IN IF \/ \E a, b \in flight[s].adds : a # b /\ SameSpelling(a, b)
             \/ flight[s].registers /\ ~Insertable(name, projects)
          THEN Refused(s) /\ UNCHANGED projects
          ELSE /\ Goes(s, "registerSections")
               /\ projects' = IF flight[s].registers
                              THEN projects \cup InsertsNewKeys(name, projects)
                              ELSE projects
    /\ UNCHANGED <<sections, vocab, docs, arrivals, graphVars, review, moved>>

RegisterSection(s) ==
    /\ At(s, "registerSections")
    /\ LET here == SectionsOf(flight[s].project)
       IN \/ flight[s].adds = {} /\ Goes(s, "mint") /\ UNCHANGED sections
          \/ \E n \in flight[s].adds :
                IF ~Insertable(n, here) THEN Refused(s) /\ UNCHANGED sections
                ELSE /\ sections' = sections \cup
                            {<<flight[s].project, m>> : m \in InsertsNewKeys(n, here)}
                     /\ flight' = [flight EXCEPT ![s].adds = @ \ {n}]
    /\ UNCHANGED <<projects, vocab, docs, arrivals, graphVars, review, moved>>

\* _entity_commit_mints: a name minted meanwhile in another spelling is
\* rewritten to that one.
MintedEntity(name) == IF Canonical(name) = {} THEN {name} ELSE Canonical(name)
MintEntity(s) ==
    /\ At(s, "mint")
    /\ \/ flight[s].mint = {} /\ Goes(s, "embed") /\ UNCHANGED vocab
       \/ \E n \in flight[s].mint :
             /\ flight' = [flight EXCEPT ![s].mint = @ \ {n},
                                       ![s].entities = (@ \ {n}) \cup MintedEntity(n)]
             /\ vocab' = vocab \cup InsertsNewKeys(n, vocab)
    /\ UNCHANGED <<projects, sections, docs, arrivals, graphVars, review, moved>>

\* What was registered stays when the embedder fails.
EmbedContent(s) ==
    /\ At(s, "embed")
    /\ Goes(s, "lock") \/ Refused(s)
    /\ UNCHANGED <<registries, docs, arrivals, graphVars, review, moved>>
-----------------------------------------------------------------------------
InTx(t) == At(t, "write")
\* SELECT ... FOR UPDATE holds the row if there was one to find.
RowHeld(c, s) == \E t \in Savers \ {s} : InTx(t) /\ Req(t).content = c /\ ~flight[t].sawNone
EntityLocked(s) ==
    \E t \in Savers \ {s} : InTx(t) /\ flight[t].entities \cap flight[s].entities # {}

Found(s) == docs[Req(s).content]
ConflictUnlooked(s) == FALSE
ConflictInTx(s) == AxisConflict(Found(s), flight[s])

TxLook(s) ==
    /\ At(s, "lock") /\ ~EntityLocked(s) /\ ~RowHeld(Req(s).content, s)
    /\ IF ConflictInTx(s) THEN Refused(s)
       ELSE flight' = [flight EXCEPT ![s].at = "write", ![s].sawNone = Found(s) = NoDoc]
    /\ UNCHANGED <<registries, docs, arrivals, graphVars, review, moved>>

Stored(s) == [kind |-> Req(s).kind, project |-> flight[s].project,
              sections |-> flight[s].sections, entities |-> flight[s].entities,
              cites |-> Req(s).cites]
Parked(doc) == doc # NoDoc /\ doc.kind = "fact" /\ doc.project = SENTINEL

\* _promote_grounded_parked_facts: the one real project of the judgements
\* that cite a parked fact becomes its own (sole_project, promote_record).
Agreed(c, stored) ==
    {stored[d].project : d \in {x \in Contents : /\ stored[x] # NoDoc
                                                 /\ stored[x].kind = "decision"
                                                 /\ c \in stored[x].cites}} \ {SENTINEL}
Promotable(c, stored) == Parked(stored[c]) /\ Cardinality(Agreed(c, stored)) = 1
Promoted(stored, cited) ==
    [c \in Contents |->
        IF c \in cited /\ Promotable(c, stored)
        THEN [stored[c] EXCEPT !.project = CHOOSE p \in Agreed(c, stored) : TRUE]
        ELSE stored[c]]

Row(c, kind, doc) == [doc |-> c, kind |-> kind, project |-> doc.project, sections |-> doc.sections,
                      deferred |-> FALSE]
PromotionRows(before, after) ==
    LET grown == {c \in Contents : before[c] # after[c]}
    IN SetToSeq({Row(c, "project_of", after[c]) : c \in grown})

TxWrite(s) ==
    /\ InTx(s)
    /\ \E vouched \in SUBSET Req(s).cites :   \* the promotions that do not fail
       LET c      == Req(s).content
           before == [docs EXCEPT ![c] = Stored(s)]
           after  == Promoted(before, vouched)
       IN /\ ~RowHeld(c, s)
          /\ \A f \in vouched : ~RowHeld(f, s)
          /\ docs' = after
          /\ outbox' = outbox \o PromotionRows(before, after)
                              \o <<Row(c, "record", Stored(s))>>
          /\ moved' = IF AxisConflict(docs[c], flight[s]) THEN moved \cup {c} ELSE moved
    /\ flight' = [flight EXCEPT ![s] = NoSave]
    /\ UNCHANGED <<registries, arrivals, nodes, edges, drawn, review, overtaken>>
-----------------------------------------------------------------------------
(* The worker applies rows in id order, except that a row that failed waits *)
(* for its time while younger ones go first.                                *)
Without(i) == SubSeq(outbox, 1, i - 1) \o SubSeq(outbox, i + 1, Len(outbox))
Ready(i) == \A j \in 1 .. i - 1 : outbox[j].deferred

RowFails ==
    /\ \E i \in DOMAIN outbox :
          /\ Ready(i) /\ ~outbox[i].deferred
          /\ outbox' = [outbox EXCEPT ![i].deferred = TRUE]
    /\ UNCHANGED <<registries, docs, flight, arrivals, nodes, edges, drawn, review, overtaken, moved>>

ApplyRecord ==
    /\ \E i \in DOMAIN outbox :
          /\ Ready(i) /\ outbox[i].kind = "record" /\ Identified(outbox[i].project)
          /\ nodes' = nodes \cup {outbox[i].doc}
          /\ edges' = [edges EXCEPT ![outbox[i].doc] = @ \cup GraphProject(outbox[i].project)]
          /\ drawn' = [drawn EXCEPT ![outbox[i].doc] =
                          @ \cup DrawnSections(outbox[i].project, outbox[i].sections)]
          /\ outbox' = Without(i)
    /\ UNCHANGED <<registries, docs, flight, arrivals, review, overtaken, moved>>

\* MATCH (n) finds no node to give an edge to, and the row is deleted.
ApplyProjectOf ==
    /\ \E i \in DOMAIN outbox :
          /\ Ready(i) /\ outbox[i].kind = "project_of" /\ Identified(outbox[i].project)
          /\ LET c == outbox[i].doc
             IN /\ edges' = IF c \in nodes THEN [edges EXCEPT ![c] = {outbox[i].project}]
                                           ELSE edges
                /\ overtaken' = IF c \in nodes THEN overtaken ELSE overtaken \cup {c}
          /\ outbox' = Without(i)
    /\ UNCHANGED <<registries, docs, flight, arrivals, nodes, drawn, review, moved>>
-----------------------------------------------------------------------------
\* handle_review_hold reads the list, adds its pair, and writes the list.
HoldRead(v) ==
    /\ review.read[v].at = "idle"
    /\ review' = [review EXCEPT !.read[v] = [at |-> "read", acks |-> review.acks]]
    /\ UNCHANGED <<registries, docs, flight, arrivals, graphVars, moved>>

HoldWrite(v) ==
    /\ review.read[v].at = "read"
    /\ review' = [review EXCEPT !.acks = review.read[v].acks \cup {v},
                                !.read[v] = [at |-> "done"]]
    /\ UNCHANGED <<registries, docs, flight, arrivals, graphVars, moved>>

SaveStep(s) ==
    \/ ArriveSave(s) \/ GateEntities(s) \/ GateProject(s) \/ GateNewProject(s)
    \/ GateSections(s) \/ PreCheck(s) \/ RegisterProject(s) \/ RegisterSection(s)
    \/ MintEntity(s) \/ EmbedContent(s) \/ TxLook(s) \/ TxWrite(s)

IngressNext ==
    \/ \E s \in Savers : SaveStep(s)
    \/ RowFails \/ ApplyRecord \/ ApplyProjectOf
    \/ \E v \in Reviews : HoldRead(v) \/ HoldWrite(v)

IngressSpec == IngressInit /\ [][IngressNext]_ingressVars
-----------------------------------------------------------------------------
\* Every record is filed under names the registries hold, in the spelling they
\* hold, whoever registered another spelling while the save was at its gates.
RecordIsFiled ==
    \A c \in Contents : docs[c] # NoDoc =>
        /\ docs[c].project \in projects \cup {SENTINEL}
        /\ docs[c].sections \subseteq SectionsOf(docs[c].project)
        /\ docs[c].entities \subseteq vocab

\* The axes of a record are those of its first write, except that a parked
\* fact is promoted, and that of two first saves which overlap, sharing no
\* entity, the second wins.
AxesStay ==
    [][\A c \in Contents : docs[c] # NoDoc /\ docs'[c] # docs[c] =>
          \/ Parked(docs[c]) /\ docs'[c] = [docs[c] EXCEPT !.project = docs'[c].project]
          \/ \E s \in Savers : /\ InTx(s) /\ Req(s).content = c
                               /\ \/ ~AxisConflict(docs[c], flight[s])
                                  \/ flight[s].sawNone /\ flight[s].entities \cap docs[c].entities = {}
      ]_ingressVars

\* When a record's rows have reached the graph it hangs from its project and its
\* sections and from no other, unless its promotion overtook its node or its axes
\* moved.
GraphIsFiled ==
    \A c \in nodes \ (overtaken \cup moved) :
        (\A i \in DOMAIN outbox : outbox[i].doc # c)
        => edges[c] = GraphProject(docs[c].project) /\ drawn[c] = docs[c].sections

\* The axes of a record are registered in Postgres and drawn in the graph.
FiledInBothStores == RecordIsFiled /\ GraphIsFiled
-----------------------------------------------------------------------------
(* Why a record is filed: IngressInv is inductive.                          *)

DocTypes == [kind : {"fact", "decision"}, project : Spelled, sections : SUBSET Spelled,
             entities : SUBSET Spelled, cites : SUBSET Contents]
SaveTypes == [at : {"entities", "project", "newProject", "sections", "precheck", "register",
                "registerSections", "mint", "embed", "lock", "write"},
          req : Saves, project : Spelled, sections : SUBSET Spelled, entities : SUBSET Spelled,
          mint : SUBSET Spelled, registers : BOOLEAN, adds : SUBSET Spelled, sawNone : BOOLEAN]
RowTypes == [doc : Contents, kind : {"record", "project_of"}, project : Spelled,
             sections : SUBSET Spelled, deferred : BOOLEAN]

IngressTypeOK ==
    /\ projects \cup vocab \subseteq Spelled /\ sections \subseteq Spelled \X Spelled
    /\ docs \in [Contents -> DocTypes \cup {NoDoc}]
    /\ flight \in [Savers -> SaveTypes \cup {NoSave}]
    /\ arrivals \in Nat
    /\ outbox \in Seq(RowTypes) /\ nodes \subseteq Contents
    /\ edges \in [Contents -> SUBSET Spelled] /\ drawn \in [Contents -> SUBSET Spelled]
    /\ overtaken \subseteq Contents /\ moved \subseteq Contents

\* One name per key in each registry, and no alias among the projects.
KeysAreUnique ==
    /\ Registered \subseteq projects
    /\ \A p \in projects : p # SENTINEL /\ \A a \in Aliases : a[1] # p
    /\ \A p, q \in projects : AxisKey(p) = AxisKey(q) => p = q
    /\ \A x, y \in sections : x[1] = y[1] /\ AxisKey(x[2]) = AxisKey(y[2]) => x = y

\* What a save has established when it stands at a gate.
Axes(s) == flight[s].project \in projects \cup {SENTINEL}
MayRegister(name) ==
    name # SENTINEL /\ ~Unnameable(name) /\ \A a \in Aliases : ~SameSpelling(a[1], name)
ProjectPassed(s) ==
    /\ flight[s].at \in {"entities", "project", "newProject"} => ~flight[s].registers
    /\ At(s, "newProject") => Req(s).project # SENTINEL
    /\ flight[s].at \in {"entities", "project", "newProject"} => flight[s].project = Req(s).project
    /\ flight[s].at \in {"sections", "precheck", "register"} =>
          IF flight[s].registers THEN MayRegister(flight[s].project) ELSE Axes(s)
    /\ flight[s].at \in {"registerSections", "mint", "embed", "lock", "write"} => Axes(s)
SectionsPassed(s) ==
    /\ flight[s].at \in {"precheck", "register", "registerSections", "mint", "embed", "lock",
                        "write"} =>
          /\ flight[s].sections \ flight[s].adds \subseteq SectionsOf(flight[s].project)
          /\ flight[s].project = SENTINEL => flight[s].sections = {}
          /\ \A n \in flight[s].adds : ~Unnameable(n)
    /\ flight[s].at \in {"mint", "embed", "lock", "write"} => flight[s].adds = {}
EntitiesPassed(s) ==
    /\ At(s, "entities") => flight[s].entities = Req(s).entities
    /\ flight[s].at \notin {"none", "entities"} =>
          flight[s].entities \subseteq vocab \cup flight[s].mint
    /\ flight[s].at \in {"embed", "lock", "write"} => flight[s].mint = {}
GatesPassed == \A s \in Savers : ProjectPassed(s) /\ SectionsPassed(s) /\ EntitiesPassed(s)

\* A parked record has no sections.
ParkedIsBare ==
    \A c \in Contents : docs[c] # NoDoc /\ docs[c].project = SENTINEL => docs[c].sections = {}

\* What a transaction read of the record it is about to write still stands, if it
\* found one, and what was written since shares no entity with it, if it found none.
LooksStand ==
    /\ \A s, t \in Savers :
          s # t /\ InTx(s) /\ InTx(t) => flight[s].entities \cap flight[t].entities = {}
    /\ \A s \in Savers : InTx(s) =>
          IF flight[s].sawNone
          THEN Found(s) # NoDoc => Found(s).entities \cap flight[s].entities = {}
          ELSE Found(s) # NoDoc /\ ~AxisConflict(Found(s), flight[s])

\* A row says what the record says, but for the promotion of a parked one.
RowsAgree ==
    \A i \in DOMAIN outbox :
        LET row == outbox[i]
        IN /\ docs[row.doc] # NoDoc
           /\ row.project = SENTINEL => row.kind = "record" /\ row.sections = {}
           /\ row.doc \notin moved => /\ row.sections = docs[row.doc].sections
                                      /\ row.project \in {SENTINEL, docs[row.doc].project}

\* The graph has nothing else, and what it does not have is on its way.
Drawn ==
    \A c \in Contents :
        /\ c \in nodes => docs[c] # NoDoc
        /\ c \notin nodes => edges[c] = {} /\ drawn[c] = {}
        /\ c \notin moved /\ docs[c] # NoDoc =>
              /\ edges[c] \subseteq GraphProject(docs[c].project)
              /\ c \in nodes => drawn[c] = docs[c].sections
              /\ c \in overtaken \/ docs[c].project \in edges[c] \cup {SENTINEL}
                 \/ \E i \in DOMAIN outbox :
                       outbox[i].doc = c /\ outbox[i].project = docs[c].project

IngressInv ==
    /\ IngressTypeOK /\ KeysAreUnique /\ GatesPassed
    /\ RecordIsFiled /\ ParkedIsBare /\ LooksStand /\ RowsAgree /\ Drawn

=============================================================================
