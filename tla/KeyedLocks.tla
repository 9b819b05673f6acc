----------------------------- MODULE KeyedLocks -----------------------------
(***************************************************************************)
(* BoundedKeyedLocks, the registry of one asyncio.Lock per entity name, as *)
(* handle_save uses it: a save takes the locks of its entities in sorted   *)
(* order, writes, and releases them all.  Idle locks leave the registry,   *)
(* oldest first, when it is over its bound.                                *)
(***************************************************************************)
EXTENDS Integers, FiniteSets, Sequences

CONSTANTS
    Saves,      \* requests of handle_save
    Keys,       \* entity names, in their sort order
    Versions,   \* tells apart the lock objects made for one key; enough of them
    NoSave,
    MaxSize,    \* max_size
    MaxNames    \* bound: entities of one save

\* A lock object is made for one key, once.
Locks == Keys \X Versions
NameOf(l) == l[1]

ASSUME KeysAssumption == Keys \subseteq Nat /\ Versions # {}
ASSUME SizeAssumption == MaxSize \in Nat \ {0} /\ MaxNames \in Nat \ {0}
ASSUME SavesAssumption == IsFiniteSet(Saves) /\ NoSave \notin Saves

VARIABLES
    lockOf,     \* _locks: the lock of each registered key
    older,      \* _locks: <<j, k>> when j was last used before k
    holder,     \* each lock: the save that holds it, or NoSave
    waiters,    \* each lock: _waiters
    todo,       \* each save: entities whose lock it still needs
    mine        \* each save: acquired

lockVars == <<lockOf, older, holder, waiters, todo, mine>>

Registered == DOMAIN lockOf

LockTypeOK ==
    /\ Registered \subseteq Keys /\ lockOf \in [Registered -> Locks]
    /\ older \subseteq Registered \X Registered
    /\ holder \in [Locks -> Saves \cup {NoSave}] /\ waiters \in [Locks -> Seq(Saves)]
    /\ todo \in [Saves -> SUBSET Keys] /\ mine \in [Saves -> SUBSET Locks]

LockInit ==
    /\ lockOf = [k \in {} |-> NoSave] /\ older = {}
    /\ holder = [l \in Locks |-> NoSave] /\ waiters = [l \in Locks |-> <<>>]
    /\ todo = [s \in Saves |-> {}] /\ mine = [s \in Saves |-> {}]

Waiting(s) == \E l \in Locks : \E i \in DOMAIN waiters[l] : waiters[l][i] = s
Busy(s) == todo[s] # {} \/ mine[s] # {}

InUse(l) == holder[l] # NoSave \/ waiters[l] # <<>>

\* What _evict_idle may drop; the first form forgets the waiters.
IdleButAwaited(l) == holder[l] = NoSave
Idle(l) == holder[l] = NoSave /\ waiters[l] = <<>>

\* What asyncio.Lock() returns for a key that is not registered: nobody has it.
Fresh(k) == <<k, CHOOSE v \in Versions : ~InUse(<<k, v>>)>>

-----------------------------------------------------------------------------
\* _evict_idle: from the oldest entry on, drop idle locks while the registry
\* is over its bound.  The entry just asked for is the last one, not exempt.
Evicted(locks, before) ==
    LET excess == Cardinality(DOMAIN locks) - MaxSize
        idle   == {k \in DOMAIN locks : Idle(locks[k])}
    IN  {k \in DOMAIN locks :
            excess > 0 /\ k \in idle /\ Cardinality({j \in idle : <<j, k>> \in before}) < excess}

\* get(k): the lock registered for k, or a new one, now the last used entry.
\* The lock is returned even if this very call dropped its entry.
Get(k, lk) ==
    LET locks  == [j \in Registered \cup {k} |-> IF j = k THEN lk ELSE lockOf[j]]
        before == {p \in older : k \notin {p[1], p[2]}} \cup (Registered \ {k}) \X {k}
        kept   == DOMAIN locks \ Evicted(locks, before)
    IN  /\ lockOf' = [j \in kept |-> locks[j]]
        /\ older' = before \cap (kept \X kept)

LockFor(k) == IF k \in Registered THEN lockOf[k] ELSE Fresh(k)

\* The name whose lock a save asks for next: the names are sorted.
NextKeyAny(s) == todo[s]
NextKey(s) == {k \in todo[s] : \A j \in todo[s] : k <= j}

\* A save arrives with its entities; a cancelled or finished one may return.
Begin(s) ==
    /\ ~Busy(s)
    /\ \E ks \in (SUBSET Keys) \ {{}} :
        IsFiniteSet(ks) /\ Cardinality(ks) <= MaxNames /\ todo' = [todo EXCEPT ![s] = ks]
    /\ UNCHANGED <<lockOf, older, holder, waiters, mine>>

\* lk = await _lock_for(e); await lk.acquire(): no suspension in between, nor
\* in acquire when the lock is free and nobody waits.
Acquire(s) ==
    /\ todo[s] # {} /\ ~Waiting(s)
    /\ \E k \in NextKey(s) :
        LET l == LockFor(k) IN
        /\ Get(k, l)
        /\ \/ /\ ~InUse(l)
              /\ holder' = [holder EXCEPT ![l] = s]
              /\ todo' = [todo EXCEPT ![s] = @ \ {k}]
              /\ mine' = [mine EXCEPT ![s] = @ \cup {l}]
              /\ waiters' = waiters
           \/ /\ InUse(l)
              /\ waiters' = [waiters EXCEPT ![l] = Append(@, s)]
              /\ UNCHANGED <<holder, todo, mine>>

\* The first waiter of a released lock takes it.
Wake(s) ==
    \E l \in Locks :
        /\ holder[l] = NoSave /\ waiters[l] # <<>> /\ Head(waiters[l]) = s
        /\ waiters' = [waiters EXCEPT ![l] = Tail(@)]
        /\ holder' = [holder EXCEPT ![l] = s]
        /\ todo' = [todo EXCEPT ![s] = @ \ {NameOf(l)}]
        /\ mine' = [mine EXCEPT ![s] = @ \cup {l}]
        /\ UNCHANGED <<lockOf, older>>

ReleaseAll(s) ==
    holder' = [l \in Locks |-> IF holder[l] = s THEN NoSave ELSE holder[l]]

\* The write is done: the finally block releases what was acquired.
Finish(s) ==
    /\ todo[s] = {} /\ mine[s] # {}
    /\ ReleaseAll(s)
    /\ mine' = [mine EXCEPT ![s] = {}]
    /\ UNCHANGED <<lockOf, older, waiters, todo>>

\* The request is cancelled while it waits for a lock.
Without(q, i) == [j \in 1..(Len(q) - 1) |-> IF j < i THEN q[j] ELSE q[j + 1]]

Cancel(s) ==
    /\ \E l \in Locks : \E i \in DOMAIN waiters[l] :
          waiters[l][i] = s /\ waiters' = [waiters EXCEPT ![l] = Without(@, i)]
    /\ ReleaseAll(s)
    /\ todo' = [todo EXCEPT ![s] = {}] /\ mine' = [mine EXCEPT ![s] = {}]
    /\ UNCHANGED <<lockOf, older>>

LockNext == \E s \in Saves : Begin(s) \/ Acquire(s) \/ Wake(s) \/ Finish(s) \/ Cancel(s)

LockSpec == LockInit /\ [][LockNext]_lockVars

\* The event loop runs every ready task.
FairSpec ==
    /\ LockSpec
    /\ \A s \in Saves : WF_lockVars(Acquire(s) \/ Wake(s) \/ Finish(s))

-----------------------------------------------------------------------------
\* The names each save holds, by whatever lock objects the registry made.
Service == INSTANCE LockService WITH holds <- [s \in Saves |-> {NameOf(l) : l \in mine[s]}]

\* Two saves never hold the lock of one entity at the same time, and a save gives
\* up all it has at once: the registry never hands out a second lock while the
\* first is held or awaited, whatever it evicts in between.
ImplementsService == Service!Spec

\* Every save gets its locks: no two saves wait for one another.
EverySaveFinishes == \A s \in Saves : []<>~Busy(s)

-----------------------------------------------------------------------------
(***************************************************************************)
(* The invariants behind the refinement and the absence of a wait cycle.   *)
(***************************************************************************)
\* The entities a save holds or still needs, and those that any save does.
Names(s) == todo[s] \cup {NameOf(l) : l \in mine[s]}
Claimed == UNION {Names(s) : s \in Saves}

\* A lock that is held or awaited is the one the registry has for its key.
UseIsRegistered == \A l \in Locks : InUse(l) => NameOf(l) \in Registered /\ lockOf[NameOf(l)] = l

\* A registered lock is one of its key; a save knows what it holds.
Books ==
    /\ \A k \in Registered : NameOf(lockOf[k]) = k
    /\ \A s \in Saves, l \in Locks : l \in mine[s] <=> holder[l] = s

\* A save waits in one place, for the least name it needs.
Queues ==
    /\ \A l \in Locks : \A i \in DOMAIN waiters[l] : NameOf(l) \in NextKey(waiters[l][i])
    /\ \A l, m \in Locks : \A i \in DOMAIN waiters[l], j \in DOMAIN waiters[m] :
          waiters[l][i] = waiters[m][j] => l = m /\ i = j

\* What a save holds comes before what it still needs.
InOrder == \A s \in Saves : \A l \in mine[s], k \in todo[s] : NameOf(l) < k

FewNames == \A s \in Saves : IsFiniteSet(Names(s)) /\ Cardinality(Names(s)) <= MaxNames

LockInv == LockTypeOK /\ IsFiniteSet(Registered) /\ UseIsRegistered /\ Books /\ Queues /\ InOrder

\* A save waits only for a name that comes after every name it holds, so saves that
\* wait for one another never form a circle.
WaitsUpwards ==
    \A l \in Locks : \A i \in DOMAIN waiters[l] :
        \A m \in mine[waiters[l][i]] : NameOf(m) < NameOf(l)

=============================================================================
