-------------------------- MODULE CoordinatorProofs -------------------------
(***************************************************************************)
(* Proofs about the save and supersede handlers of the coordinator, for    *)
(* any records, requests, entities and bounds.                             *)
(*                                                                         *)
(* Locks: while no more than max_size entities are wanted at a time, the   *)
(* registry is one lock per entity, whatever it evicts and makes again.    *)
(*                                                                         *)
(* Retiring a fact: what the code does not keep by itself (README, section *)
(* 3) is a hypothesis of the theorem that needs it, named below.           *)
(***************************************************************************)
EXTENDS KeyedLocks, Supersession, FiniteSetTheorems, FunctionTheorems, TLAPS

-----------------------------------------------------------------------------
(* The entity locks. *)

\* The registry has room for every entity that a save holds or still needs.
Room == IsFiniteSet(Claimed) /\ Cardinality(Claimed) <= MaxSize

-----------------------------------------------------------------------------
\* What is in use is claimed by the save that holds it or waits for it.
LEMMA UseIsClaimed ==
    ASSUME LockTypeOK, Books, Queues, NEW l \in Locks, InUse(l)
    PROVE  NameOf(l) \in Claimed
<1>1. CASE holder[l] # NoSave
  <2>1. PICK s \in Saves : holder[l] = s
    BY <1>1 DEF LockTypeOK
  <2>2. NameOf(l) \in Names(s)
    BY <2>1 DEF Books, Names
  <2> QED
    BY <2>2 DEF Claimed
<1>2. CASE waiters[l] # <<>>
  <2>1. waiters[l] \in Seq(Saves) /\ 1 \in DOMAIN waiters[l] /\ waiters[l][1] \in Saves
    BY <1>2 DEF LockTypeOK
  <2>2. NameOf(l) \in Names(waiters[l][1])
    BY <2>1 DEF Queues, NextKey, Names
  <2> QED
    BY <2>1, <2>2 DEF Claimed
<1> QED
  BY <1>1, <1>2 DEF InUse

\* A lock that is not in use and not registered can be made.
LEMMA LockForType ==
    ASSUME LockTypeOK, Books, UseIsRegistered, NEW k \in Keys
    PROVE  /\ LockFor(k) \in Locks /\ NameOf(LockFor(k)) = k
           /\ k \notin Registered => ~InUse(LockFor(k))
<1>1. CASE k \in Registered
  BY <1>1 DEF LockTypeOK, Books, LockFor
<1>2. CASE k \notin Registered
  <2>1. \A v \in Versions : ~InUse(<<k, v>>)
    BY <1>2 DEF UseIsRegistered, Locks, NameOf
  <2>2. (CHOOSE v \in Versions : ~InUse(<<k, v>>)) \in Versions
    BY <2>1, KeysAssumption
  <2> QED
    BY <1>2, <2>1, <2>2 DEF LockFor, Fresh, Locks, NameOf
<1> QED
  BY <1>1, <1>2

\* The one lock in use of a name is the one the registry gives for that name.
LEMMA UsedIsServed ==
    ASSUME UseIsRegistered, NEW l \in Locks, InUse(l)
    PROVE  LockFor(NameOf(l)) = l
  BY DEF UseIsRegistered, LockFor

-----------------------------------------------------------------------------
\* What a call of get leaves in the registry, before and after its eviction.
Looked(k) == [j \in Registered \cup {k} |-> IF j = k THEN LockFor(k) ELSE lockOf[j]]
Before(k) == {p \in older : k \notin {p[1], p[2]}} \cup (Registered \ {k}) \X {k}
Kept(k)   == (Registered \cup {k}) \ Evicted(Looked(k), Before(k))

\* A lock in use is not evicted.
LEMMA UsedIsKept ==
    ASSUME LockTypeOK, UseIsRegistered, NEW k \in Keys, NEW l \in Locks, InUse(l)
    PROVE  NameOf(l) \in Kept(k) /\ Looked(k)[NameOf(l)] = l
<1>1. NameOf(l) \in Registered /\ lockOf[NameOf(l)] = l /\ LockFor(NameOf(l)) = l
  BY UsedIsServed DEF UseIsRegistered
<1>2. Looked(k)[NameOf(l)] = l
  BY <1>1 DEF Looked
<1>3. ~Idle(l)
  BY DEF Idle, InUse
<1> QED
  BY <1>1, <1>2, <1>3 DEF Kept, Evicted

\* Nor is the entry that was just asked for, as long as there is room: every other
\* idle entry is older, and what is not idle is claimed, like the entry itself.
LEMMA AskedIsKept ==
    ASSUME LockTypeOK, IsFiniteSet(Registered), UseIsRegistered, Books, Queues, Room,
           NEW s \in Saves, NEW k \in todo[s]
    PROVE  k \in Kept(k)
<1> DEFINE D == Registered \cup {k}
           idle == {j \in D : Idle(Looked(k)[j])}
           rest == idle \ {k}
<1>0. k \in Keys
  BY DEF LockTypeOK
<1>1. D = DOMAIN Looked(k) /\ IsFiniteSet(D) /\ Cardinality(D) \in Nat
  BY FS_AddElement, FS_CardinalityType DEF Looked
<1>2. IsFiniteSet(rest) /\ Cardinality(rest) \in Nat /\ rest \subseteq D
  <2>1. rest \in SUBSET D
    OBVIOUS
  <2> QED
    BY <1>1, <2>1, FS_Subset, FS_CardinalityType
<1>3. {j \in idle : <<j, k>> \in Before(k)} = rest
  <2>1. \A j \in rest : <<j, k>> \in Before(k)
    BY DEF Before
  <2>2. <<k, k>> \notin Before(k)
    BY DEF Before
  <2> QED
    BY <2>1, <2>2
<1>4. D \ rest \subseteq Claimed
  <2>1. k \in Claimed
    BY DEF Claimed, Names
  <2>2. ASSUME NEW j \in D \ rest, j # k PROVE j \in Claimed
    <3>1. j \in Registered /\ lockOf[j] \in Locks /\ NameOf(lockOf[j]) = j
      BY <2>2 DEF LockTypeOK, Books
    <3>2. Looked(k)[j] = lockOf[j] /\ ~Idle(lockOf[j])
      BY <2>2, <3>1 DEF Looked
    <3> QED
      BY <3>1, <3>2, UseIsClaimed DEF Idle, InUse
  <2> QED
    BY <2>1, <2>2
<1>5. Cardinality(D) - Cardinality(rest) <= MaxSize
  <2>1. D \cap rest = rest
    BY <1>2
  <2>2. Cardinality(D \ rest) = Cardinality(D) - Cardinality(rest)
    BY <1>1, <2>1, FS_Difference
  <2>3. Cardinality(D \ rest) <= Cardinality(Claimed)
    BY <1>4, FS_Subset DEF Room
  <2>4. Cardinality(Claimed) \in Nat /\ MaxSize \in Nat
    BY FS_CardinalityType, SizeAssumption DEF Room
  <2> QED
    BY <1>1, <1>2, <2>2, <2>3, <2>4 DEF Room
<1>6. ~(Cardinality(rest) < Cardinality(D) - MaxSize)
  BY <1>1, <1>2, <1>5, SizeAssumption
<1> HIDE DEF rest
<1>7. k \notin Evicted(Looked(k), Before(k))
  BY <1>1, <1>3, <1>6 DEF Evicted
<1> QED
  BY <1>7 DEF Kept

\* The registry after get: a lock of each key, every lock in use, and the one asked
\* for.
LEMMA GetStep ==
    ASSUME LockTypeOK, IsFiniteSet(Registered), UseIsRegistered, Books, Queues, Room,
           NEW s \in Saves, NEW k \in todo[s], Get(k, LockFor(k))
    PROVE  /\ Registered' \subseteq Keys /\ IsFiniteSet(Registered')
           /\ lockOf' \in [Registered' -> Locks]
           /\ older' \subseteq Registered' \X Registered'
           /\ \A j \in Registered' : NameOf(lockOf'[j]) = j
           /\ k \in Registered' /\ lockOf'[k] = LockFor(k)
           /\ \A l \in Locks : InUse(l) => NameOf(l) \in Registered' /\ lockOf'[NameOf(l)] = l
<1>0. k \in Keys
  BY DEF LockTypeOK
<1>1. /\ lockOf' = [j \in Kept(k) |-> Looked(k)[j]]
      /\ older' = Before(k) \cap (Kept(k) \X Kept(k))
  BY DEF Get, Looked, Before, Kept
<1>2. Registered' = Kept(k) /\ Kept(k) \subseteq Registered \cup {k}
  BY <1>1 DEF Registered, Kept
<1>3. ASSUME NEW j \in Registered \cup {k}
      PROVE  Looked(k)[j] \in Locks /\ NameOf(Looked(k)[j]) = j
  BY <1>0, LockForType DEF Looked, LockTypeOK, Books
<1>4. IsFiniteSet(Kept(k))
  <2>1. IsFiniteSet(Registered \cup {k})
    BY FS_AddElement
  <2> QED
    BY <1>2, <2>1, FS_Subset
<1>5. Kept(k) \subseteq Keys
  BY <1>0, <1>2 DEF LockTypeOK
<1>6. Looked(k)[k] = LockFor(k)
  BY DEF Looked
<1> QED
  BY <1>0, <1>1, <1>2, <1>3, <1>4, <1>5, <1>6, UsedIsKept, AskedIsKept

-----------------------------------------------------------------------------
\* A save arrives.
LEMMA BeginStep == ASSUME LockInv, NEW s \in Saves, Begin(s) PROVE LockInv'
<1> USE DEF LockInv
<1>1. todo[s] = {} /\ mine[s] = {}
  BY DEF Begin, Busy
<1>2. PICK ks \in SUBSET Keys : todo' = [todo EXCEPT ![s] = ks]
  BY DEF Begin
<1>3. LockTypeOK' /\ IsFiniteSet(Registered)'
  BY <1>2 DEF Begin, LockTypeOK, Registered
<1>4. UseIsRegistered' /\ Books'
  BY <1>2 DEF Begin, UseIsRegistered, Books, InUse, Registered
<1>5. Queues'
  <2>1. ASSUME NEW l \in Locks, NEW i \in DOMAIN waiters[l]
        PROVE  waiters[l][i] # s /\ waiters[l][i] \in Saves
    BY <1>1, <2>1 DEF Queues, NextKey, LockTypeOK
  <2> QED
    BY <1>2, <2>1 DEF Begin, Queues, NextKey, LockTypeOK
<1>6. InOrder'
  BY <1>1, <1>2 DEF Begin, InOrder, LockTypeOK
<1> QED
  BY <1>3, <1>4, <1>5, <1>6

\* A save looks up the lock of its next name, and takes it or waits for it.
LEMMA AcquireStep == ASSUME LockInv, Room, NEW s \in Saves, Acquire(s) PROVE LockInv'
<1> USE DEF LockInv
<1>1. PICK k \in NextKey(s) :
         LET l == LockFor(k) IN
         /\ Get(k, l)
         /\ \/ /\ ~InUse(l)
               /\ holder' = [holder EXCEPT ![l] = s]
               /\ todo' = [todo EXCEPT ![s] = @ \ {k}]
               /\ mine' = [mine EXCEPT ![s] = @ \cup {l}]
               /\ waiters' = waiters
            \/ /\ InUse(l)
               /\ waiters' = [waiters EXCEPT ![l] = Append(@, s)]
               /\ UNCHANGED <<holder, todo, mine>>
  BY DEF Acquire
<1> DEFINE l == LockFor(k)
<1>2. /\ k \in todo[s] /\ k \in Keys /\ l \in Locks /\ NameOf(l) = k
      /\ todo[s] \subseteq Keys /\ \A j \in todo[s] : k <= j
  BY LockForType DEF NextKey, LockTypeOK
<1>3. /\ Registered' \subseteq Keys /\ IsFiniteSet(Registered')
      /\ lockOf' \in [Registered' -> Locks]
      /\ older' \subseteq Registered' \X Registered'
      /\ \A j \in Registered' : NameOf(lockOf'[j]) = j
      /\ k \in Registered' /\ lockOf'[k] = l
      /\ \A m \in Locks : InUse(m) => NameOf(m) \in Registered' /\ lockOf'[NameOf(m)] = m
  BY <1>1, <1>2, GetStep
<1>4. \A m \in Locks : \A i \in DOMAIN waiters[m] : waiters[m][i] # s /\ waiters[m][i] \in Saves
  BY DEF Acquire, Waiting, LockTypeOK
<1>5. CASE ~InUse(l)
  <2>1. /\ holder' = [holder EXCEPT ![l] = s] /\ waiters' = waiters
        /\ todo' = [todo EXCEPT ![s] = @ \ {k}] /\ mine' = [mine EXCEPT ![s] = @ \cup {l}]
    BY <1>1, <1>5
  <2> HIDE DEF l
  <2>2. LockTypeOK'
    BY <1>2, <1>3, <2>1 DEF LockTypeOK
  <2>3. UseIsRegistered'
    BY <1>2, <1>3, <2>1 DEF UseIsRegistered, InUse, LockTypeOK
  <2>4. Books'
    BY <1>2, <1>3, <1>5, <2>1, SavesAssumption DEF Books, InUse, LockTypeOK
  <2>5. Queues'
    BY <1>4, <2>1 DEF Queues, NextKey, LockTypeOK
  <2>6. InOrder'
    <3> SUFFICES ASSUME NEW t \in Saves, NEW m \in mine'[t], NEW j \in todo'[t]
                 PROVE  NameOf(m) < j
      BY DEF InOrder
    <3>1. CASE t = s /\ m = l
      <4>1. j \in todo[s] /\ j # k
        BY <2>1, <3>1 DEF LockTypeOK
      <4>2. j \in Nat /\ k \in Nat /\ k <= j
        BY <1>2, <4>1, KeysAssumption
      <4> QED
        BY <1>2, <3>1, <4>1, <4>2
    <3>2. CASE ~(t = s /\ m = l)
      BY <2>1, <3>2 DEF InOrder, LockTypeOK
    <3> QED
      BY <3>1, <3>2
  <2> QED
    BY <1>3, <2>2, <2>3, <2>4, <2>5, <2>6
<1>6. CASE InUse(l)
  <2>1. waiters' = [waiters EXCEPT ![l] = Append(@, s)] /\ UNCHANGED <<holder, todo, mine>>
    BY <1>1, <1>6
  <2> HIDE DEF l
  <2>2. LockTypeOK'
    BY <1>2, <1>3, <2>1 DEF LockTypeOK
  <2>3. UseIsRegistered'
    <3>1. \A m \in Locks : InUse(m)' => InUse(m)
      BY <1>6, <2>1 DEF InUse, LockTypeOK
    <3> QED
      BY <1>3, <3>1 DEF UseIsRegistered
  <2>4. Books'
    BY <1>3, <2>1 DEF Books
  <2>5. Queues'
    <3>1. ASSUME NEW m \in Locks, NEW i \in DOMAIN waiters'[m]
          PROVE  \/ i \in DOMAIN waiters[m] /\ waiters'[m][i] = waiters[m][i]
                 \/ m = l /\ i = Len(waiters[l]) + 1 /\ waiters'[m][i] = s
      BY <1>2, <2>1, <3>1 DEF LockTypeOK
    <3>2. \A t \in Saves : NextKey(t)' = NextKey(t)
      BY <2>1 DEF NextKey
    <3>3. NameOf(l) \in NextKey(s)
      BY <1>1, <1>2
    <3> QED
      BY <1>4, <3>1, <3>2, <3>3 DEF Queues
  <2>6. InOrder'
    BY <2>1 DEF InOrder
  <2> QED
    BY <1>3, <2>2, <2>3, <2>4, <2>5, <2>6
<1> QED
  BY <1>5, <1>6

\* The first waiter of a free lock takes it; it waits nowhere else.
LEMMA WakeStep == ASSUME LockInv, NEW s \in Saves, Wake(s) PROVE LockInv'
<1> USE DEF LockInv
<1>1. PICK l \in Locks :
        /\ holder[l] = NoSave /\ waiters[l] # <<>> /\ Head(waiters[l]) = s
        /\ waiters' = [waiters EXCEPT ![l] = Tail(@)]
        /\ holder' = [holder EXCEPT ![l] = s]
        /\ todo' = [todo EXCEPT ![s] = @ \ {NameOf(l)}]
        /\ mine' = [mine EXCEPT ![s] = @ \cup {l}]
        /\ UNCHANGED <<lockOf, older>>
  BY DEF Wake
<1>2. waiters[l] \in Seq(Saves) /\ 1 \in DOMAIN waiters[l] /\ waiters[l][1] = s
  BY <1>1 DEF LockTypeOK
<1>3. NameOf(l) \in NextKey(s) /\ todo[s] \subseteq Keys
  BY <1>2 DEF Queues, LockTypeOK
<1>4. ASSUME NEW m \in Locks, NEW i \in DOMAIN waiters'[m]
      PROVE  LET j == IF m = l THEN i + 1 ELSE i
             IN  /\ i \in Nat /\ j \in DOMAIN waiters[m] /\ waiters'[m][i] = waiters[m][j]
                 /\ waiters'[m][i] \in Saves \ {s}
  <2>1. CASE m = l
    <3>1. waiters'[l] = Tail(waiters[l])
      BY <1>1 DEF LockTypeOK
    <3>2. i + 1 \in DOMAIN waiters[l] /\ waiters'[l][i] = waiters[l][i + 1] /\ i \in Nat \ {0}
      BY <1>2, <1>4, <2>1, <3>1
    <3>3. waiters[l][i + 1] # s
      BY <1>2, <3>2 DEF Queues
    <3> QED
      BY <1>2, <2>1, <3>2, <3>3
  <2>2. CASE m # l
    <3>1. waiters'[m] = waiters[m] /\ waiters[m] \in Seq(Saves)
      BY <1>1, <2>2 DEF LockTypeOK
    <3>2. waiters[m][i] # s
      BY <1>2, <1>4, <2>2, <3>1 DEF Queues
    <3> QED
      BY <1>4, <2>2, <3>1, <3>2
  <2> QED
    BY <2>1, <2>2
<1>5. LockTypeOK' /\ IsFiniteSet(Registered)'
  BY <1>1, <1>2 DEF LockTypeOK, Registered
<1>6. UseIsRegistered'
  BY <1>1 DEF UseIsRegistered, InUse, Registered, LockTypeOK
<1>7. Books'
  BY <1>1, SavesAssumption DEF Books, Registered, LockTypeOK
<1>8. Queues'
  <2>1. \A t \in Saves \ {s} : NextKey(t)' = NextKey(t)
    BY <1>1 DEF NextKey, LockTypeOK
  <2>2. ASSUME NEW m \in Locks, NEW i \in DOMAIN waiters'[m]
        PROVE  NameOf(m) \in NextKey(waiters[m][i])'
    BY <1>4, <2>1, <2>2 DEF Queues
  <2>3. ASSUME NEW m \in Locks, NEW n \in Locks, NEW i \in DOMAIN waiters'[m],
               NEW j \in DOMAIN waiters'[n], waiters'[m][i] = waiters'[n][j]
        PROVE  m = n /\ i = j
    <3> DEFINE a == IF m = l THEN i + 1 ELSE i
               b == IF n = l THEN j + 1 ELSE j
    <3>1. /\ i \in Nat /\ a \in DOMAIN waiters[m] /\ waiters'[m][i] = waiters[m][a]
          /\ j \in Nat /\ b \in DOMAIN waiters[n] /\ waiters'[n][j] = waiters[n][b]
      BY <1>4
    <3>2. m = n /\ a = b
      <4>1. waiters[m][a] = waiters[n][b]
        BY <2>3, <3>1
      <4> HIDE DEF a, b
      <4> QED
        BY <3>1, <4>1 DEF Queues
    <3> QED
      BY <3>1, <3>2
  <2> QED
    BY <2>2, <2>3 DEF Queues
<1>9. InOrder'
  <2> SUFFICES ASSUME NEW t \in Saves, NEW m \in mine'[t], NEW j \in todo'[t]
               PROVE  NameOf(m) < j
    BY DEF InOrder
  <2>1. CASE t = s /\ m = l
    <3>1. j \in todo[s] /\ j # NameOf(l)
      BY <1>1, <2>1 DEF LockTypeOK
    <3>2. j \in Nat /\ NameOf(l) \in Nat /\ NameOf(l) <= j
      BY <1>3, <3>1, KeysAssumption DEF NextKey
    <3> QED
      BY <2>1, <3>1, <3>2
  <2>2. CASE ~(t = s /\ m = l)
    BY <1>1, <2>2 DEF InOrder, LockTypeOK
  <2> QED
    BY <2>1, <2>2
<1> QED
  BY <1>5, <1>6, <1>7, <1>8, <1>9

\* A save gives up what it holds.
LEMMA GiveUpStep ==
    ASSUME LockInv, NEW s \in Saves, UNCHANGED <<lockOf, older>>, ReleaseAll(s),
           mine' = [mine EXCEPT ![s] = {}], waiters' \in [Locks -> Seq(Saves)],
           \A l \in Locks : waiters'[l] # <<>> => waiters[l] # <<>>
    PROVE  UseIsRegistered' /\ Books' /\ IsFiniteSet(Registered)'
<1> USE DEF LockInv
<1>1. \A l \in Locks : holder'[l] = IF holder[l] = s THEN NoSave ELSE holder[l]
  BY DEF ReleaseAll
<1>2. UseIsRegistered'
  BY <1>1 DEF UseIsRegistered, InUse, Registered
<1>3. Books'
  BY <1>1, SavesAssumption DEF Books, Registered, LockTypeOK
<1> QED
  BY <1>2, <1>3 DEF Registered

LEMMA FinishStep == ASSUME LockInv, NEW s \in Saves, Finish(s) PROVE LockInv'
<1> USE DEF LockInv
<1>1. UseIsRegistered' /\ Books' /\ IsFiniteSet(Registered)'
  BY GiveUpStep DEF Finish, LockTypeOK
<1>2. LockTypeOK'
  BY DEF Finish, ReleaseAll, LockTypeOK, Registered
<1>3. Queues'
  BY DEF Finish, Queues, NextKey
<1>4. InOrder'
  BY DEF Finish, InOrder, LockTypeOK
<1> QED
  BY <1>1, <1>2, <1>3, <1>4

\* A save is cancelled; it waits in no other queue.
LEMMA CancelStep == ASSUME LockInv, NEW s \in Saves, Cancel(s) PROVE LockInv'
<1> USE DEF LockInv
<1>0. PICK l \in Locks :
         \E i \in DOMAIN waiters[l] :
            waiters[l][i] = s /\ waiters' = [waiters EXCEPT ![l] = Without(@, i)]
  BY DEF Cancel
<1>1. PICK i \in DOMAIN waiters[l] :
         waiters[l][i] = s /\ waiters' = [waiters EXCEPT ![l] = Without(@, i)]
  BY <1>0
<1>2. /\ waiters[l] \in Seq(Saves) /\ i \in 1..Len(waiters[l])
      /\ waiters'[l] = [j \in 1..(Len(waiters[l]) - 1) |->
                            IF j < i THEN waiters[l][j] ELSE waiters[l][j + 1]]
  BY <1>1 DEF LockTypeOK, Without
<1> DEFINE at(m, j) == IF m = l /\ j >= i THEN j + 1 ELSE j
<1>3. ASSUME NEW m \in Locks, NEW j \in DOMAIN waiters'[m]
      PROVE  /\ j \in Nat /\ at(m, j) \in DOMAIN waiters[m]
             /\ waiters'[m][j] = waiters[m][at(m, j)] /\ waiters'[m][j] \in Saves \ {s}
  <2>1. CASE m = l
    <3>1. j \in 1..(Len(waiters[l]) - 1) /\ Len(waiters[l]) \in Nat
      BY <1>2, <2>1
    <3>2. /\ j \in Nat /\ at(l, j) \in DOMAIN waiters[l] /\ at(l, j) # i
          /\ waiters'[l][j] = waiters[l][at(l, j)]
      BY <1>2, <3>1
    <3>3. waiters[l][at(l, j)] # s
      BY <1>1, <3>2 DEF Queues
    <3> QED
      BY <1>2, <2>1, <3>2, <3>3
  <2>2. CASE m # l
    <3>1. waiters'[m] = waiters[m] /\ waiters[m] \in Seq(Saves)
      BY <1>1, <2>2 DEF LockTypeOK
    <3>2. waiters[m][j] # s
      BY <1>1, <2>2, <3>1 DEF Queues
    <3> QED
      BY <2>2, <3>1, <3>2
  <2> QED
    BY <2>1, <2>2
<1>4. waiters'[l] \in Seq(Saves)
  <2>1. waiters'[l] \in [1..(Len(waiters[l]) - 1) -> Saves] /\ Len(waiters[l]) - 1 \in Nat
    BY <1>2, <1>3
  <2> QED
    BY <2>1
<1>5. waiters' \in [Locks -> Seq(Saves)]
  BY <1>1, <1>4 DEF LockTypeOK
<1>6. \A m \in Locks : waiters'[m] # <<>> => waiters[m] # <<>>
  BY <1>1, <1>2 DEF LockTypeOK
<1>7. UseIsRegistered' /\ Books' /\ IsFiniteSet(Registered)'
  BY <1>5, <1>6, GiveUpStep DEF Cancel
<1>8. LockTypeOK'
  BY <1>5 DEF Cancel, ReleaseAll, LockTypeOK, Registered
<1>9. Queues'
  <2>1. \A t \in Saves \ {s} : NextKey(t)' = NextKey(t)
    BY DEF Cancel, NextKey, LockTypeOK
  <2> HIDE DEF at
  <2>2. ASSUME NEW m \in Locks, NEW j \in DOMAIN waiters'[m]
        PROVE  NameOf(m) \in NextKey(waiters[m][j])'
    BY <1>3, <2>1, <2>2 DEF Queues
  <2>3. ASSUME NEW m \in Locks, NEW n \in Locks, NEW j \in DOMAIN waiters'[m],
               NEW k \in DOMAIN waiters'[n], waiters'[m][j] = waiters'[n][k]
        PROVE  m = n /\ j = k
    <3>1. m = n /\ at(m, j) = at(n, k) /\ j \in Nat /\ k \in Nat
      BY <1>3, <2>3 DEF Queues
    <3>2. i \in Nat
      BY <1>2
    <3> QED
      BY <3>1, <3>2 DEF at
  <2> QED
    BY <2>2, <2>3 DEF Queues
<1>10. InOrder'
  BY DEF Cancel, InOrder, LockTypeOK
<1> QED
  BY <1>7, <1>8, <1>9, <1>10

LEMMA LockStart == LockInit => LockInv
<1>1. ASSUME LockInit PROVE IsFiniteSet(Registered)
  BY <1>1, FS_EmptySet DEF LockInit, Registered
<1> QED
  BY <1>1, SavesAssumption
  DEF LockInit, LockInv, LockTypeOK, UseIsRegistered, Books, Queues, InOrder, InUse, Registered

LEMMA LockStep == LockInv /\ Room /\ [LockNext]_lockVars => LockInv'
<1> SUFFICES ASSUME LockInv, Room, [LockNext]_lockVars PROVE LockInv'
  OBVIOUS
<1>1. CASE UNCHANGED lockVars
  BY <1>1 DEF lockVars, LockInv, LockTypeOK, UseIsRegistered, Books, Queues, InOrder, InUse, Registered, NextKey
<1>2. ASSUME NEW s \in Saves, Begin(s) \/ Acquire(s) \/ Wake(s) \/ Finish(s) \/ Cancel(s)
      PROVE  LockInv'
  BY <1>2, BeginStep, AcquireStep, WakeStep, FinishStep, CancelStep
<1> QED
  BY <1>1, <1>2 DEF LockNext

-----------------------------------------------------------------------------
(***************************************************************************)
(* The refinement: a step of the registry is a Take, a GiveUp or a stutter *)
(* of LockService.                                                         *)
(***************************************************************************)
Holds == [s \in Saves |-> {NameOf(l) : l \in mine[s]}]

\* No save holds the name of a free lock that the registry gives for it.
LEMMA FreeName ==
    ASSUME LockInv, NEW l \in Locks, holder[l] = NoSave, LockFor(NameOf(l)) = l,
           NEW t \in Saves
    PROVE  NameOf(l) \notin Holds[t]
<1> USE DEF LockInv
<1> SUFFICES ASSUME NEW m \in mine[t], NameOf(m) = NameOf(l) PROVE FALSE
  BY DEF Holds
<1>1. m \in Locks /\ holder[m] = t /\ InUse(m)
  BY SavesAssumption DEF LockTypeOK, Books, InUse
<1>2. m = l
  BY <1>1, UsedIsServed
<1> QED
  BY <1>1, <1>2, SavesAssumption

\* Taking a free lock takes its name.
LEMMA TakeMaps ==
    ASSUME LockInv, NEW s \in Saves, NEW l \in Locks, holder[l] = NoSave,
           LockFor(NameOf(l)) = l, mine' = [mine EXCEPT ![s] = @ \cup {l}]
    PROVE  Service!Take(s, NameOf(l))
<1>1. \A t \in Saves : NameOf(l) \notin Holds[t]
  BY FreeName
<1>2. mine'[s] = mine[s] \cup {l} /\ \A t \in Saves \ {s} : mine'[t] = mine[t]
  BY DEF LockInv, LockTypeOK
<1>3. Holds' = [Holds EXCEPT ![s] = @ \cup {NameOf(l)}]
  <2>1. Holds'[s] = Holds[s] \cup {NameOf(l)} /\ \A t \in Saves \ {s} : Holds'[t] = Holds[t]
    BY <1>2 DEF Holds
  <2> QED
    BY <2>1 DEF Holds
<1> QED
  BY <1>1, <1>3 DEF Service!Take, Service!HeldByOther, Holds

\* Giving up every lock gives up every name.
LEMMA GiveUpMaps ==
    ASSUME LockInv, NEW s \in Saves, mine' = [mine EXCEPT ![s] = {}]
    PROVE  Service!GiveUp(s)
<1>1. Holds' = [Holds EXCEPT ![s] = {}]
  BY DEF Holds, LockInv, LockTypeOK
<1> QED
  BY <1>1 DEF Holds, Service!GiveUp

LEMMA StepMaps ==
    ASSUME LockInv, [LockNext]_lockVars
    PROVE  Service!Next \/ Holds' = Holds
<1> USE DEF LockInv
<1>1. CASE UNCHANGED mine
  BY <1>1 DEF Holds
<1>2. ASSUME NEW s \in Saves, Acquire(s), ~UNCHANGED mine PROVE Service!Next
  <2>1. PICK k \in NextKey(s) :
           ~InUse(LockFor(k)) /\ mine' = [mine EXCEPT ![s] = @ \cup {LockFor(k)}]
    BY <1>2 DEF Acquire
  <2>2. k \in Keys /\ LockFor(k) \in Locks /\ NameOf(LockFor(k)) = k
    BY <2>1, LockForType DEF NextKey, LockTypeOK
  <2> QED
    BY <2>1, <2>2, TakeMaps DEF Service!Next, InUse
<1>3. ASSUME NEW s \in Saves, Wake(s) PROVE Service!Next
  <2>1. PICK l \in Locks :
           holder[l] = NoSave /\ waiters[l] # <<>> /\ mine' = [mine EXCEPT ![s] = @ \cup {l}]
    BY <1>3 DEF Wake
  <2>2. LockFor(NameOf(l)) = l
    BY <2>1, UsedIsServed DEF InUse
  <2>3. NameOf(l) \in Keys
    BY DEF Locks, NameOf
  <2> QED
    BY <2>1, <2>2, <2>3, TakeMaps DEF Service!Next
<1>4. ASSUME NEW s \in Saves, Finish(s) \/ Cancel(s) PROVE Service!Next
  BY <1>4, GiveUpMaps DEF Finish, Cancel, Service!Next
<1> QED
  BY <1>1, <1>2, <1>3, <1>4 DEF LockNext, Begin, lockVars

-----------------------------------------------------------------------------
\* BoundedKeyedLocks.get: as long as no more than max_size entities are wanted at
\* a time, two saves never hold the lock of one entity together and a save gives up
\* all it has at once, whatever idle locks the registry evicts and makes again.
THEOREM RegistryServes == LockSpec /\ []Room => ImplementsService
<1>1. LockInit => Service!Init
  BY DEF LockInit, Service!Init
<1>2. LockInv /\ [LockNext]_lockVars => Service!Next \/ Holds' = Holds
  BY StepMaps
<1>3. LockInv /\ [LockNext]_lockVars
      => [Service!Next]_([s \in Saves |-> {NameOf(l) : l \in mine[s]}])
  BY <1>2 DEF Holds
<1> QED
  BY <1>1, <1>3, LockStart, LockStep, PTL DEF LockSpec, ImplementsService, Service!Spec

-----------------------------------------------------------------------------
(***************************************************************************)
(* A bound on the saves that makes the room: MaxNames entities each.       *)
(***************************************************************************)
Capacity == Cardinality(Saves) * MaxNames <= MaxSize

\* Each claimed entity is one of the MaxNames places of a save that claims it.
LEMMA CapacityIsRoom == FewNames /\ Capacity => Room
<1> SUFFICES ASSUME FewNames, Capacity PROVE Room
  OBVIOUS
<1> DEFINE place(s) == CHOOSE f \in [Names(s) -> 1..MaxNames] : IsInjective(f)
           owner(k) == CHOOSE s \in Saves : k \in Names(s)
           seat     == [k \in Claimed |-> <<owner(k), place(owner(k))[k]>>]
           Seats    == Saves \X (1..MaxNames)
<1>1. ASSUME NEW s \in Saves
      PROVE  place(s) \in [Names(s) -> 1..MaxNames] /\ IsInjective(place(s))
  <2> DEFINE n == Cardinality(Names(s))
  <2>1. n \in Nat /\ n <= MaxNames /\ ExistsBijection(1..n, Names(s))
    BY FS_CardinalityType DEF FewNames
  <2>2. PICK g \in Bijection(Names(s), 1..n) : TRUE
    BY <2>1, Fun_ExistsBijSymmetric DEF ExistsBijection
  <2>3. g \in [Names(s) -> 1..n] /\ IsInjective(g)
    BY <2>2 DEF Bijection, Injection, IsInjective
  <2>4. g \in [Names(s) -> 1..MaxNames]
    BY <2>1, <2>3, SizeAssumption
  <2> QED
    BY <2>3, <2>4
<1>2. \A k \in Claimed : owner(k) \in Saves /\ k \in Names(owner(k))
  BY DEF Claimed
<1> HIDE DEF place, owner
<1>3. seat \in Injection(Claimed, Seats)
  <2>1. seat \in [Claimed -> Seats]
    BY <1>1, <1>2
  <2>2. ASSUME NEW j \in Claimed, NEW k \in Claimed, seat[j] = seat[k] PROVE j = k
    <3>1. owner(j) = owner(k) /\ place(owner(j))[j] = place(owner(j))[k]
      BY <2>2
    <3>2. j \in Names(owner(j)) /\ k \in Names(owner(j)) /\ owner(j) \in Saves
      BY <1>2, <3>1
    <3> QED
      BY <1>1, <3>1, <3>2 DEF IsInjective
  <2> QED
    BY <2>1, <2>2 DEF Injection, IsInjective
<1> HIDE DEF seat
<1>4. IsFiniteSet(Seats) /\ Cardinality(Seats) = Cardinality(Saves) * MaxNames
  <2>1. IsFiniteSet(1..MaxNames) /\ Cardinality(1..MaxNames) = MaxNames
    BY FS_Interval, SizeAssumption
  <2> QED
    BY <2>1, FS_Product, SavesAssumption
<1>5. IsFiniteSet(Claimed) /\ Cardinality(Claimed) <= Cardinality(Seats)
  BY <1>3, <1>4, FS_Injection
<1>6. Cardinality(Claimed) \in Nat /\ Cardinality(Seats) \in Nat /\ MaxSize \in Nat
  BY <1>4, <1>5, FS_CardinalityType, SizeAssumption
<1> QED
  BY <1>4, <1>5, <1>6 DEF Room, Capacity

\* Taking a lock moves its name from what is needed to what is held.
LEMMA FewNamesStep == ASSUME LockInv, FewNames, [LockNext]_lockVars PROVE FewNames'
<1> USE DEF LockInv
<1>1. CASE UNCHANGED <<todo, mine>>
  BY <1>1 DEF FewNames, Names
<1>2. ASSUME NEW s \in Saves, NEW l \in Locks, NameOf(l) \in todo[s],
             todo' = [todo EXCEPT ![s] = @ \ {NameOf(l)}],
             mine' = [mine EXCEPT ![s] = @ \cup {l}]
      PROVE  FewNames'
  <2>1. \A t \in Saves : Names(t)' = Names(t)
    BY <1>2 DEF Names, LockTypeOK
  <2> QED
    BY <2>1 DEF FewNames
<1>3. ASSUME NEW s \in Saves, Acquire(s), ~UNCHANGED <<todo, mine>> PROVE FewNames'
  <2>1. PICK k \in NextKey(s) :
           /\ todo' = [todo EXCEPT ![s] = @ \ {k}]
           /\ mine' = [mine EXCEPT ![s] = @ \cup {LockFor(k)}]
    BY <1>3 DEF Acquire
  <2>2. k \in todo[s] /\ LockFor(k) \in Locks /\ NameOf(LockFor(k)) = k
    BY <2>1, LockForType DEF NextKey, LockTypeOK
  <2> QED
    BY <1>2, <2>1, <2>2
<1>4. ASSUME NEW s \in Saves, Wake(s) PROVE FewNames'
  <2>1. PICK l \in Locks :
           /\ waiters[l] # <<>> /\ Head(waiters[l]) = s
           /\ todo' = [todo EXCEPT ![s] = @ \ {NameOf(l)}]
           /\ mine' = [mine EXCEPT ![s] = @ \cup {l}]
    BY <1>4 DEF Wake
  <2>2. 1 \in DOMAIN waiters[l] /\ waiters[l][1] = s
    BY <2>1 DEF LockTypeOK
  <2>3. NameOf(l) \in todo[s]
    BY <2>2 DEF Queues, NextKey
  <2> QED
    BY <1>2, <2>1, <2>3
<1>5. ASSUME NEW s \in Saves, NEW ks \in SUBSET Keys, IsFiniteSet(ks), Cardinality(ks) <= MaxNames,
             todo' = [todo EXCEPT ![s] = ks], mine' = [mine EXCEPT ![s] = {}]
      PROVE  FewNames'
  <2>1. Names(s)' = ks /\ \A t \in Saves \ {s} : Names(t)' = Names(t)
    BY <1>5 DEF Names, LockTypeOK
  <2> QED
    BY <1>5, <2>1 DEF FewNames
<1>6. IsFiniteSet({}) /\ Cardinality({}) <= MaxNames
  BY FS_EmptySet, SizeAssumption
<1>7. ASSUME NEW s \in Saves, Begin(s) PROVE FewNames'
  <2>1. mine' = [mine EXCEPT ![s] = {}]
    BY <1>7 DEF Begin, Busy, LockTypeOK
  <2> QED
    BY <1>5, <1>7, <2>1 DEF Begin
<1>8. ASSUME NEW s \in Saves, Finish(s) \/ Cancel(s) PROVE FewNames'
  <2>1. mine' = [mine EXCEPT ![s] = {}] /\ todo' = [todo EXCEPT ![s] = {}]
    BY <1>8 DEF Finish, Cancel, LockTypeOK
  <2> QED
    BY <1>5, <1>6, <2>1
<1> QED
  BY <1>1, <1>3, <1>4, <1>7, <1>8 DEF LockNext, lockVars

LEMMA FewNamesInit == LockInit => FewNames
<1> SUFFICES ASSUME LockInit, NEW s \in Saves PROVE IsFiniteSet(Names(s)) /\ Cardinality(Names(s)) <= MaxNames
  BY DEF FewNames
<1>1. Names(s) = {}
  BY DEF LockInit, Names
<1> QED
  BY <1>1, FS_EmptySet, SizeAssumption

LEMMA LockThroughout == ASSUME Capacity PROVE LockSpec => [](LockInv /\ FewNames)
<1>1. LockInv /\ FewNames /\ [LockNext]_lockVars => (LockInv /\ FewNames)'
  BY CapacityIsRoom, LockStep, FewNamesStep
<1> QED
  BY <1>1, LockStart, FewNamesInit, PTL DEF LockSpec

\* handle_save with BoundedKeyedLocks: the registry implements one lock per entity for
\* any number of saves that together want no more entities than LOCKS_MAX_SIZE.
THEOREM LocksImplementService == ASSUME Capacity PROVE LockSpec => ImplementsService
<1>1. LockInv /\ FewNames => Room
  BY CapacityIsRoom
<1> QED
  BY <1>1, LockThroughout, RegistryServes, PTL

\* handle_save takes its locks in the order of the names: saves that wait for one
\* another never form a circle.
THEOREM NoCircularWait == ASSUME Capacity PROVE LockSpec => []WaitsUpwards
<1>1. LockInv => WaitsUpwards
  BY DEF LockInv, LockTypeOK, Queues, NextKey, InOrder, WaitsUpwards
<1> QED
  BY <1>1, LockThroughout, PTL

-----------------------------------------------------------------------------
(* Retiring a fact. *)

\* A content that a request may retire is not saved as a correction.
FreshCorrections == Corrections \cap Targets = {}

\* No verdict reverses a record that replaces a fact.
SparedSuccessors == \A r \in Reversals : Judges[r] \notin Successors \cup Corrections

\* Verdicts reverse decisions only.
DecisionsReversed == \A r \in Reversals : Judges[r] \in Decisions

\* A save that retires a fact is the save of a fact.
FactsCorrect == Corrections \subseteq Facts

-----------------------------------------------------------------------------
\* The types hold at the start.
LEMMA TypeInit == Init => TypeOK
<1> SUFFICES ASSUME Init PROVE TypeOK
  OBVIOUS
<1>1. docs \subseteq Records /\ superseded \subseteq docs
  BY SetsAssumption DEF Init, Records, Judgements
<1>2. /\ supersededBy \in [Facts -> Records \cup {None}]
      /\ acks \in [Facts -> SUBSET Decisions]
  BY DEF Init
<1>3. basedOn \in [Judgements -> SUBSET Facts] /\ informed \in [Judgements -> SUBSET Facts]
  BY Grounds0Assumption DEF Init
<1>4. /\ lock \in Clients \cup {None}
      /\ pc \in [Clients -> {"idle", "check", "ready", "locked", "checked"}]
      /\ req \in [Clients -> Requests \cup {None}]
      /\ \A c \in Clients : IF pc[c] = "idle" THEN req[c] = None ELSE req[c] \in Requests
      /\ lost \in [Clients -> SUBSET Decisions]
      /\ \A c \in Clients : lost[c] # {} => pc[c] = "checked"
      /\ requests \in Nat /\ crashes \in Nat
  BY DEF Init
<1> QED
  BY <1>1, <1>2, <1>3, <1>4 DEF TypeOK

\* An answer leaves the requests well-typed.
LEMMA AnswerType ==
    ASSUME TypeOK, NEW c \in Clients, Answer(c)
    PROVE  /\ lock' \in Clients \cup {None}
           /\ pc' \in [Clients -> {"idle", "check", "ready", "locked", "checked"}]
           /\ req' \in [Clients -> Requests \cup {None}]
           /\ \A x \in Clients : IF pc'[x] = "idle" THEN req'[x] = None ELSE req'[x] \in Requests
           /\ lost' \in [Clients -> SUBSET Decisions]
           /\ \A x \in Clients : lost'[x] # {} => pc'[x] = "checked"
  BY DEF TypeOK, Answer

\* What is not the requests' own.
DocTypes ==
    /\ docs \subseteq Records /\ superseded \subseteq docs
    /\ supersededBy \in [Facts -> Records \cup {None}]
    /\ acks \in [Facts -> SUBSET Decisions]
    /\ basedOn \in [Judgements -> SUBSET Facts] /\ informed \in [Judgements -> SUBSET Facts]

\* Every step keeps the types of the requests.
LEMMA ReqTypeStep ==
    ASSUME TypeOK, [Next]_vars
    PROVE  /\ lock' \in Clients \cup {None}
           /\ pc' \in [Clients -> {"idle", "check", "ready", "locked", "checked"}]
           /\ req' \in [Clients -> Requests \cup {None}]
           /\ \A c \in Clients : IF pc'[c] = "idle" THEN req'[c] = None ELSE req'[c] \in Requests
           /\ lost' \in [Clients -> SUBSET Decisions]
           /\ \A c \in Clients : lost'[c] # {} => pc'[c] = "checked"
<1> DEFINE Goal ==
      /\ lock' \in Clients \cup {None}
      /\ pc' \in [Clients -> {"idle", "check", "ready", "locked", "checked"}]
      /\ req' \in [Clients -> Requests \cup {None}]
      /\ \A c \in Clients : IF pc'[c] = "idle" THEN req'[c] = None ELSE req'[c] \in Requests
      /\ lost' \in [Clients -> SUBSET Decisions]
      /\ \A c \in Clients : lost'[c] # {} => pc'[c] = "checked"
<1>1. ASSUME NEW c \in Clients, Arrive(c) PROVE Goal
  <2>1. PICK r \in Requests :
          pc[c] = "idle" /\ req' = [req EXCEPT ![c] = r] /\ pc' = [pc EXCEPT ![c] = "check"]
          /\ lock' = lock /\ lost' = lost
    <3>1. PICK op \in {"supersede", "save"}, f \in Targets, a \in SUBSET Decisions :
            \E n \in IF op = "save" THEN Corrections ELSE Successors \cup {None} :
              /\ op = "supersede" => n # f
              /\ req' = [req EXCEPT ![c] = [op |-> op, old |-> f, new |-> n, ack |-> a]]
      BY <1>1 DEF Arrive
    <3>2. PICK n \in IF op = "save" THEN Corrections ELSE Successors \cup {None} :
            req' = [req EXCEPT ![c] = [op |-> op, old |-> f, new |-> n, ack |-> a]]
      BY <3>1
    <3>3. f \in Facts /\ n \in Records \cup {None}
      BY <3>2, SetsAssumption DEF Records, Judgements
    <3>4. [op |-> op, old |-> f, new |-> n, ack |-> a] \in Requests
      BY <3>3 DEF Requests
    <3> QED
      BY <1>1, <3>2, <3>4 DEF Arrive
  <2> QED
    BY <2>1 DEF TypeOK
<1>2. ASSUME NEW c \in Clients, Refuse(c) PROVE Goal
  BY <1>2, AnswerType DEF Refuse
<1>3. ASSUME NEW c \in Clients, PreCheck(c) PROVE Goal
  <2>1. CASE /\ pc[c] = "check" /\ pc' = [pc EXCEPT ![c] = "ready"]
             /\ lock' = lock /\ req' = req /\ lost' = lost
    BY <2>1 DEF TypeOK
  <2> QED
    BY <1>2, <1>3, <2>1 DEF PreCheck
<1>4. ASSUME NEW c \in Clients, TxLock(c) PROVE Goal
  <2>1. CASE /\ pc[c] = "ready" /\ pc' = [pc EXCEPT ![c] = "locked"]
             /\ lock' = c /\ req' = req /\ lost' = lost
    BY <2>1 DEF TypeOK
  <2> QED
    BY <1>2, <1>4, <2>1 DEF TxLock
<1>5. ASSUME NEW c \in Clients, TxCheck(c) PROVE Goal
  <2>1. CASE /\ pc[c] = "locked" /\ pc' = [pc EXCEPT ![c] = "checked"]
             /\ lost' = [lost EXCEPT ![c] = Ungrounded(req[c].old)]
             /\ lock' = lock /\ req' = req
    <3>1. Ungrounded(req[c].old) \in SUBSET Decisions
      BY DEF Ungrounded
    <3> QED
      BY <2>1, <3>1 DEF TypeOK
  <2> QED
    BY <1>2, <1>5, <2>1 DEF TxCheck
<1>6. ASSUME NEW c \in Clients, TxCommit(c) PROVE Goal
  BY <1>2, <1>6, AnswerType DEF TxCommit
<1>7. CASE Crash
  BY <1>7 DEF Crash, TypeOK
<1>8. CASE UNCHANGED reqVars
  BY <1>8 DEF reqVars, TypeOK
<1> QED
  BY <1>1, <1>3, <1>4, <1>5, <1>6, <1>7, <1>8
     DEF Next, Handle, SaveFact, SaveDecision, SaveRetro, vars

\* What retiring a fact writes has its types.
LEMMA RetireType ==
    ASSUME TypeOK, NEW c \in Clients, req[c] \in Requests, Retire(c)
    PROVE  /\ superseded' = superseded \cup {req[c].old}
           /\ supersededBy' \in [Facts -> Records \cup {None}]
           /\ acks' \in [Facts -> SUBSET Decisions]
<1>1. /\ req[c].old \in Facts /\ req[c].new \in Records \cup {None}
      /\ req[c].ack \in SUBSET Decisions /\ lost[c] \in SUBSET Decisions
  BY DEF Requests, TypeOK
<1> QED
  BY <1>1 DEF Retire, TypeOK

\* Every step keeps the types of the rows.
LEMMA DocTypeStep ==
    ASSUME TypeOK, Bodies, Exclusive, [Next]_vars
    PROVE  /\ docs' \subseteq Records /\ superseded' \subseteq docs'
           /\ supersededBy' \in [Facts -> Records \cup {None}]
           /\ acks' \in [Facts -> SUBSET Decisions]
           /\ basedOn' \in [Judgements -> SUBSET Facts]
           /\ informed' \in [Judgements -> SUBSET Facts]
<1> DEFINE Goal ==
      /\ docs' \subseteq Records /\ superseded' \subseteq docs'
      /\ supersededBy' \in [Facts -> Records \cup {None}]
      /\ acks' \in [Facts -> SUBSET Decisions]
      /\ basedOn' \in [Judgements -> SUBSET Facts]
      /\ informed' \in [Judgements -> SUBSET Facts]
<1>1. CASE UNCHANGED docVars
  BY <1>1 DEF docVars, TypeOK
<1>2. ASSUME NEW c \in Clients, TxCommit(c) PROVE Goal
  <2>1. CASE Refuse(c)
    BY <1>1, <2>1 DEF Refuse
  <2>2. CASE ~Refuse(c)
    <3>1. pc[c] = "checked" /\ req[c] \in Requests /\ Retiring(c)
      BY <1>2 DEF TxCommit, TypeOK, Retiring
    <3>2. req[c].old \in docs
      BY <3>1 DEF Exclusive, Standing
    <3>3. /\ docs' = docs \cup (IF req[c].op = "save" THEN {req[c].new} ELSE {})
          /\ IF req[c].new # req[c].old THEN Retire(c)
             ELSE UNCHANGED <<superseded, supersededBy, acks>>
          /\ IF req[c].op = "save" /\ req[c].new \in Decisions
             THEN \E based, other \in SUBSET Citable :
                     based \cap other = {} /\ Cite(req[c].new, based, other)
             ELSE UNCHANGED <<basedOn, informed>>
      BY <1>2, <2>2 DEF TxCommit
    <3>4. req[c].op = "save" => req[c].new \in Records
      BY <3>1, SetsAssumption DEF Bodies, Records, Judgements
    <3>5. docs' \subseteq Records /\ superseded' \subseteq docs'
      BY <3>1, <3>2, <3>3, <3>4, RetireType DEF TypeOK
    <3>6. supersededBy' \in [Facts -> Records \cup {None}] /\ acks' \in [Facts -> SUBSET Decisions]
      BY <3>1, <3>3, RetireType DEF TypeOK
    <3>7. basedOn' \in [Judgements -> SUBSET Facts] /\ informed' \in [Judgements -> SUBSET Facts]
      BY <3>3, SetsAssumption DEF TypeOK, Cite
    <3> QED
      BY <3>5, <3>6, <3>7
  <2> QED
    BY <2>1, <2>2
<1>3. ASSUME NEW f \in Facts, SaveFact(f) PROVE Goal
  BY <1>3 DEF SaveFact, TypeOK, Records
<1>4. ASSUME NEW d \in Decisions, SaveDecision(d) PROVE Goal
  <2>1. PICK based, other \in SUBSET Citable : Cite(d, based, other)
    BY <1>4 DEF SaveDecision
  <2>2. basedOn' \in [Judgements -> SUBSET Facts] /\ informed' \in [Judgements -> SUBSET Facts]
    BY <2>1, SetsAssumption DEF Cite, TypeOK
  <2> QED
    BY <1>4, <2>2 DEF SaveDecision, TypeOK, Records, Judgements
<1>5. ASSUME NEW r \in Retros, SaveRetro(r) PROVE Goal
  <2>1. PICK based, other \in SUBSET Citable : Cite(r, based, other)
    BY <1>5 DEF SaveRetro
  <2>2. basedOn' \in [Judgements -> SUBSET Facts] /\ informed' \in [Judgements -> SUBSET Facts]
    BY <2>1, SetsAssumption DEF Cite, TypeOK
  <2> QED
    BY <1>5, <2>2 DEF SaveRetro, TypeOK, Records, Judgements
<1> QED
  BY <1>1, <1>2, <1>3, <1>4, <1>5
     DEF Next, Handle, Arrive, PreCheck, TxLock, TxCheck, Refuse, Crash, docVars, vars

LEMMA TypeStep == ASSUME TypeOK, Bodies, Exclusive, [Next]_vars PROVE TypeOK'
<1>1. requests' \in Nat /\ crashes' \in Nat
  BY DEF TypeOK, Next, Arrive, Handle, PreCheck, TxLock, TxCheck, TxCommit, Refuse, Crash,
         SaveFact, SaveDecision, SaveRetro, vars
<1> QED
  BY <1>1, ReqTypeStep, DocTypeStep DEF TypeOK

-----------------------------------------------------------------------------
\* What a step may do to a request that is not idle afterwards: leave it alone, ...
LEMMA ReqMoves ==
    ASSUME TypeOK, [Next]_vars, NEW c \in Clients, pc'[c] # "idle"
    PROVE  \/ pc'[c] = pc[c] /\ req'[c] = req[c] /\ lost'[c] = lost[c]
           \/ pc'[c] = "check" /\ Arrive(c)
           \/ pc'[c] = "ready" /\ pc[c] # "idle" /\ req'[c] = req[c] /\ PreCheck(c)
           \/ pc'[c] = "locked" /\ pc[c] # "idle" /\ req'[c] = req[c] /\ TxLock(c) /\ lock' = c
           \/ pc'[c] = "checked" /\ pc[c] = "locked" /\ req'[c] = req[c] /\ TxCheck(c)
<1> DEFINE Goal ==
           \/ pc'[c] = pc[c] /\ req'[c] = req[c] /\ lost'[c] = lost[c]
           \/ pc'[c] = "check" /\ Arrive(c)
           \/ pc'[c] = "ready" /\ pc[c] # "idle" /\ req'[c] = req[c] /\ PreCheck(c)
           \/ pc'[c] = "locked" /\ pc[c] # "idle" /\ req'[c] = req[c] /\ TxLock(c) /\ lock' = c
           \/ pc'[c] = "checked" /\ pc[c] = "locked" /\ req'[c] = req[c] /\ TxCheck(c)
<1>1. ASSUME NEW x \in Clients, Refuse(x) \/ TxCommit(x) PROVE Goal
  <2>1. Answer(x)
    BY <1>1 DEF Refuse, TxCommit
  <2>2. x # c
    BY <2>1 DEF Answer, TypeOK
  <2> QED
    BY <2>1, <2>2 DEF Answer, TypeOK
<1>2. ASSUME NEW x \in Clients, Arrive(x) PROVE Goal
  <2>1. CASE x = c
    <3>1. pc'[c] = "check"
      BY <1>2, <2>1 DEF Arrive, TypeOK
    <3> QED
      BY <1>2, <2>1, <3>1
  <2>2. CASE x # c
    <3>1. \E b : req' = [req EXCEPT ![x] = b]
      BY <1>2 DEF Arrive
    <3>2. req'[c] = req[c]
      BY <2>2, <3>1 DEF TypeOK
    <3> QED
      BY <1>2, <2>2, <3>2 DEF Arrive, TypeOK
  <2> QED
    BY <2>1, <2>2
<1>3. ASSUME NEW x \in Clients, PreCheck(x), ~Refuse(x) PROVE Goal
  BY <1>3 DEF PreCheck, TypeOK
<1>4. ASSUME NEW x \in Clients, TxLock(x), ~Refuse(x) PROVE Goal
  BY <1>4 DEF TxLock, TypeOK
<1>5. ASSUME NEW x \in Clients, TxCheck(x), ~Refuse(x) PROVE Goal
  BY <1>5 DEF TxCheck, TypeOK
<1>6. CASE Crash
  BY <1>6 DEF Crash
<1>7. CASE UNCHANGED reqVars
  BY <1>7 DEF reqVars
<1> QED
  BY <1>1, <1>2, <1>3, <1>4, <1>5, <1>6, <1>7
     DEF Next, Handle, SaveFact, SaveDecision, SaveRetro, vars

LEMMA BodiesStep == ASSUME TypeOK, Bodies, [Next]_vars PROVE Bodies'
<1> SUFFICES ASSUME NEW c \in Clients, pc'[c] # "idle"
             PROVE  /\ req'[c].old \in Targets
                    /\ \/ req'[c].op = "save" /\ req'[c].new \in Corrections
                       \/ /\ req'[c].op = "supersede"
                          /\ req'[c].new \in (Successors \cup {None}) \ {req'[c].old}
  BY DEF Bodies
<1>1. CASE pc[c] # "idle" /\ req'[c] = req[c]
  BY <1>1 DEF Bodies
<1>2. CASE Arrive(c)
  <2>1. PICK op \in {"supersede", "save"}, f \in Targets, a \in SUBSET Decisions :
          \E n \in IF op = "save" THEN Corrections ELSE Successors \cup {None} :
            /\ op = "supersede" => n # f
            /\ req' = [req EXCEPT ![c] = [op |-> op, old |-> f, new |-> n, ack |-> a]]
    BY <1>2 DEF Arrive
  <2>2. PICK n \in IF op = "save" THEN Corrections ELSE Successors \cup {None} :
            /\ op = "supersede" => n # f
            /\ req' = [req EXCEPT ![c] = [op |-> op, old |-> f, new |-> n, ack |-> a]]
    BY <2>1
  <2>3. req'[c] = [op |-> op, old |-> f, new |-> n, ack |-> a]
    BY <2>2 DEF TypeOK
  <2> QED
    BY <2>2, <2>3
<1> QED
  BY <1>1, <1>2, ReqMoves

-----------------------------------------------------------------------------
\* Records stay, and only the request with the lock, or a verdict, retires one.
LEMMA DocMoves ==
    ASSUME TypeOK, Bodies, Exclusive, [Next]_vars
    PROVE  /\ docs \subseteq docs'
           /\ \/ UNCHANGED <<superseded, supersededBy, acks>>
              \/ /\ \E r \in Reversals : SaveRetro(r) /\ superseded' = superseded \cup {Judges[r]}
                 /\ UNCHANGED <<supersededBy, acks>>
              \/ \E c \in Clients :
                    /\ pc[c] = "checked" /\ pc'[c] = "idle" /\ TxCommit(c)
                    /\ req[c].new # req[c].old /\ Retire(c)
<1> DEFINE Goal ==
           /\ docs \subseteq docs'
           /\ \/ UNCHANGED <<superseded, supersededBy, acks>>
              \/ /\ \E r \in Reversals : SaveRetro(r) /\ superseded' = superseded \cup {Judges[r]}
                 /\ UNCHANGED <<supersededBy, acks>>
              \/ \E c \in Clients :
                    /\ pc[c] = "checked" /\ pc'[c] = "idle" /\ TxCommit(c)
                    /\ req[c].new # req[c].old /\ Retire(c)
<1>1. CASE UNCHANGED docVars
  BY <1>1 DEF docVars
<1>2. ASSUME NEW c \in Clients, TxCommit(c) PROVE Goal
  <2>1. CASE Refuse(c)
    BY <1>1, <2>1 DEF Refuse
  <2>2. CASE ~Refuse(c)
    <3>1. pc'[c] = "idle"
      BY <1>2 DEF TxCommit, Refuse, Answer, TypeOK
    <3> QED
      BY <1>2, <2>2, <3>1 DEF TxCommit
  <2> QED
    BY <2>1, <2>2
<1>3. CASE \E f \in Facts : SaveFact(f)
  BY <1>3 DEF SaveFact
<1>4. CASE \E d \in Decisions : SaveDecision(d)
  BY <1>4 DEF SaveDecision
<1>5. ASSUME NEW r \in Retros, SaveRetro(r) PROVE Goal
  BY <1>5 DEF SaveRetro
<1> QED
  BY <1>1, <1>2, <1>3, <1>4, <1>5
     DEF Next, Handle, Arrive, PreCheck, TxLock, TxCheck, Refuse, Crash, docVars, vars

\* One request at a time is past the lock, and nobody else writes what it read.
LEMMA ExclusiveStep ==
    ASSUME TypeOK, Bodies, Exclusive, Marks, [Next]_vars PROVE Exclusive'
<1> SUFFICES ASSUME NEW c \in Clients, Retiring(c)'
             PROVE  /\ lock' = c /\ Standing(req[c].old)' 
                    /\ req'[c].op = "supersede" =>
                         /\ req'[c].new \in docs' \cup {None}
                         /\ req'[c].new \in Facts => supersededBy'[req'[c].new] = None
  BY DEF Exclusive
<1>1. pc'[c] \in {"locked", "checked"}
  BY DEF Retiring
<1>2. CASE TxLock(c) /\ lock' = c /\ req'[c] = req[c] /\ pc[c] # "idle"
  <2>1. Standing(req[c].old) /\ SuccessorOk(c) /\ UNCHANGED docVars
    BY <1>1, <1>2 DEF TxLock, Refuse, Answer, TypeOK
  <2>2. req[c].op = "supersede" /\ req[c].new \in Facts => supersededBy[req[c].new] = None
    BY <2>1, SetsAssumption DEF SuccessorOk, Standing, Marks, Records
  <2> QED
    BY <1>2, <2>1, <2>2 DEF SuccessorOk, Standing, docVars
<1>3. CASE Retiring(c) /\ req'[c] = req[c]
  <2>1. lock = c /\ Standing(req[c].old)
    BY <1>3 DEF Exclusive
  <2>2. lock' = c
    <3>1. ASSUME NEW x \in Clients, Retiring(x) PROVE x = c
      BY <3>1, <2>1 DEF Exclusive
    <3>2. ASSUME NEW x \in Clients, Answer(x) PROVE lock' = c
      <4>1. x # c
        BY <1>1, <3>2 DEF Answer, TypeOK
      <4> QED
        BY <2>1, <3>2, <4>1 DEF Answer
    <3> QED
      BY <1>1, <2>1, <3>2, SetsAssumption DEF Answer, Next, Arrive, Handle, PreCheck, TxLock, TxCheck, TxCommit, Refuse,
         Crash, SaveFact, SaveDecision, SaveRetro, vars, reqVars
  <2>3. /\ supersededBy' = supersededBy
        /\ req[c].old \notin superseded'
    <3>1. ASSUME NEW x \in Clients, pc[x] = "checked" PROVE x = c
      BY <3>1, <2>1 DEF Exclusive, Retiring
    <3>2. ASSUME NEW r \in Retros, SaveRetro(r) PROVE Judges[r] # req[c].old
      BY <3>2, <1>3 DEF SaveRetro, RowFree, Retiring
    <3> QED
      BY <1>1, <2>1, <3>1, <3>2, DocMoves, SetsAssumption DEF Standing
  <2>4. docs \subseteq docs'
    BY DocMoves
  <2> QED
    BY <1>3, <2>1, <2>2, <2>3, <2>4 DEF Standing, Exclusive
<1> QED
  BY <1>1, <1>2, <1>3, ReqMoves DEF Retiring

\* The fact that is retired stood until then, and its answers are stored with it.
LEMMA MarksStep ==
    ASSUME TypeOK, Bodies, Exclusive, Marks, [Next]_vars PROVE Marks'
<1> SUFFICES ASSUME NEW f \in Facts, supersededBy'[f] # None \/ acks'[f] # {}
             PROVE  f \in superseded' \cap Targets
  BY DEF Marks
<1>1. CASE supersededBy'[f] = supersededBy[f] /\ acks'[f] = acks[f]
  BY <1>1, DocMoves DEF Marks, Retire
<1>2. ASSUME NEW c \in Clients, pc[c] = "checked", Retire(c) PROVE f \in superseded' \cap Targets
  <2>1. req[c].old \in Targets
    BY <1>2 DEF Bodies
  <2>2. f # req[c].old => supersededBy'[f] = supersededBy[f] /\ acks'[f] = acks[f]
    <3>1. supersededBy \in [Facts -> Records \cup {None}] /\ acks \in [Facts -> SUBSET Decisions]
      BY DEF TypeOK
    <3>2. acks' = acks \/ \E a : acks' = [acks EXCEPT ![req[c].old] = a]
      BY <1>2 DEF Retire
    <3>3. \E b : supersededBy' = [supersededBy EXCEPT ![req[c].old] = b]
      BY <1>2 DEF Retire
    <3> QED
      BY <3>1, <3>2, <3>3
  <2> QED
    BY <1>1, <1>2, <2>1, <2>2 DEF Retire
<1> QED
  BY <1>1, <1>2, DocMoves

\* A judgement's citations are written with its row, a verdict's after its target's.
LEMMA FiledStep == ASSUME TypeOK, Bodies, Exclusive, Filed, [Next]_vars PROVE Filed'
<1>1. ASSUME NEW j \in Judgements \ docs' PROVE basedOn'[j] = {}
  <2>1. basedOn[j] = {} /\ j \in Judgements \ docs
    BY DocMoves DEF Filed
  <2>2. CASE basedOn' = basedOn
    BY <2>1, <2>2
  <2>3. ASSUME NEW i \in docs', NEW based, NEW other, Cite(i, based, other)
        PROVE  basedOn'[j] = {}
    BY <2>1, <2>3 DEF Cite, TypeOK
  <2>4. ASSUME NEW c \in Clients, TxCommit(c) PROVE basedOn'[j] = {}
    BY <2>2, <2>3, <2>4 DEF TxCommit, Refuse, docVars
  <2>5. ASSUME NEW d \in Decisions, SaveDecision(d) PROVE basedOn'[j] = {}
    BY <2>3, <2>5 DEF SaveDecision
  <2>6. ASSUME NEW r \in Retros, SaveRetro(r) PROVE basedOn'[j] = {}
    BY <2>3, <2>6 DEF SaveRetro
  <2> QED
    BY <2>2, <2>4, <2>5, <2>6
       DEF Next, Handle, Arrive, PreCheck, TxLock, TxCheck, Refuse, Crash, SaveFact, docVars, vars
<1>2. ASSUME NEW r \in Retros \cap docs' PROVE Judges[r] \in docs'
  <2>1. CASE r \in docs
    BY <2>1, DocMoves DEF Filed
  <2>2. CASE r \notin docs
    <3>1. ASSUME NEW c \in Clients, TxCommit(c) PROVE FALSE
      <4>1. req[c].op = "save" => req[c].new \in Corrections
        BY <3>1 DEF TxCommit, Bodies
      <4> QED
        BY <2>2, <3>1, <4>1, SetsAssumption DEF TxCommit, Refuse, docVars, Judgements
    <3>2. SaveRetro(r)
      BY <1>2, <2>2, <3>1, SetsAssumption DEF Next, Handle, Arrive, PreCheck, TxLock, TxCheck,
         Refuse, Crash, SaveFact, SaveDecision, SaveRetro, docVars, vars, Judgements
    <3> QED
      BY <3>2, DocMoves DEF SaveRetro
  <2> QED
    BY <2>1, <2>2
<1> QED
  BY <1>1, <1>2 DEF Filed

\* RetireInv holds in every reachable state, whatever saves and verdicts come between
\* the statements of a request.
THEOREM RetireInductive == Spec => []RetireInv
<1>1. Init => RetireInv
  BY TypeInit, SetsAssumption, Grounds0Assumption
     DEF Init, RetireInv, Bodies, Exclusive, Retiring, Marks, Filed, Judgements
<1>2. RetireInv /\ [Next]_vars => RetireInv'
  BY TypeStep, BodiesStep, ExclusiveStep, MarksStep, FiledStep DEF RetireInv
<1> QED
  BY <1>1, <1>2, PTL DEF Spec

\* Every reachable state of the retiring routes has its types.
THEOREM RetireTypes == Spec => []TypeOK
<1>1. RetireInv => TypeOK
  BY DEF RetireInv
<1> QED
  BY <1>1, RetireInductive, PTL

-----------------------------------------------------------------------------
(***************************************************************************)
(* What a retired fact points at, and the answers it keeps.                *)
(***************************************************************************)
\* A save never stores as a correction a fact that already has a successor. The code
\* does not look: a retired fact saved again with metadata.supersedes becomes a
\* successor (coordinator.py:7823), where handle_supersede refuses it (7994).
CorrectionsAreNew ==
    [][\A c \in Clients : /\ pc[c] = "checked" /\ pc'[c] = "idle" /\ req[c].op = "save"
                         /\ supersededBy' # supersededBy /\ req[c].new \in Facts
                         => supersededBy[req[c].new] = None]_vars

\* Chains of superseded_by end, however long a series of corrections grows, as long
\* as no save stores a fact that has a successor as a correction: each new edge leads to a
\* record that has no edge of its own.
THEOREM ChainsEnd == Spec /\ CorrectionsAreNew => []Acyclic
<1> DEFINE New == \A c \in Clients : /\ pc[c] = "checked" /\ pc'[c] = "idle" /\ req[c].op = "save"
                                    /\ supersededBy' # supersededBy /\ req[c].new \in Facts
                                    => supersededBy[req[c].new] = None
<1>1. Init => Acyclic
  BY SetsAssumption DEF Init, Acyclic, Records
<1>2. RetireInv /\ Acyclic /\ [Next]_vars /\ [New]_vars => Acyclic'
  <2> SUFFICES ASSUME RetireInv, Acyclic, [Next]_vars, [New]_vars,
                      NEW S \in SUBSET Facts, S # {}
               PROVE  \E f \in S : supersededBy'[f] \notin S
    BY DEF Acyclic
  <2>1. PICK g \in S : supersededBy[g] \notin S
    BY DEF Acyclic
  <2>2. CASE supersededBy' = supersededBy
    BY <2>1, <2>2
  <2>3. ASSUME NEW c \in Clients, pc[c] = "checked", pc'[c] = "idle", Retire(c),
               req[c].new # req[c].old, supersededBy' # supersededBy
        PROVE  \E f \in S : supersededBy'[f] \notin S
    <3>1. supersededBy' = [supersededBy EXCEPT ![req[c].old] = req[c].new]
      BY <2>3 DEF Retire
    <3>2. supersededBy \in [Facts -> Records \cup {None}] /\ S \subseteq Facts
      BY DEF RetireInv, TypeOK
    <3>3. req[c].op \in {"save", "supersede"}
      BY <2>3 DEF RetireInv, Bodies
    <3>4. req[c].new \in Facts => supersededBy[req[c].new] = None
      <4>1. CASE req[c].op = "supersede"
        BY <2>3, <4>1 DEF RetireInv, Exclusive, Retiring
      <4>2. CASE req[c].op = "save"
        BY <2>3, <4>2 DEF vars, docVars
      <4> QED
        BY <3>3, <4>1, <4>2
    <3>5. CASE req[c].old = g /\ req[c].new \in S
      <4>1. req[c].new \in Facts /\ req[c].old \in Facts /\ None \notin Facts
        BY <3>2, <3>5, SetsAssumption DEF Records
      <4>2. req[c].old # req[c].new
        BY <2>3
      <4>3. supersededBy'[req[c].new] = None /\ None \notin S
        BY <3>1, <3>2, <3>4, <4>1, <4>2
      <4> QED
        BY <3>5, <4>3
    <3> QED
      BY <2>1, <3>1, <3>2, <3>5
  <2> QED
    BY <2>2, <2>3, DocMoves DEF RetireInv
<1> QED
  BY <1>1, <1>2, RetireInductive, PTL DEF Spec, CorrectionsAreNew

\* When no fact that may be retired is ever saved as a correction, corrections are
\* new, so chains end: the constants the run instantiates.
COROLLARY FreshChainsEnd == ASSUME FreshCorrections PROVE Spec => []Acyclic
<1> DEFINE New == \A c \in Clients : /\ pc[c] = "checked" /\ pc'[c] = "idle" /\ req[c].op = "save"
                                    /\ supersededBy' # supersededBy /\ req[c].new \in Facts
                                    => supersededBy[req[c].new] = None
<1>1. RetireInv => [New]_vars
  BY DEF RetireInv, Bodies, Marks, FreshCorrections
<1> HIDE DEF New
<1>2. Spec => [][New]_vars
  BY <1>1, RetireInductive, PTL
<1> QED
  BY <1>2, ChainsEnd, PTL DEF CorrectionsAreNew, New

\* The answers stored with a fact stay as they are: a fact is retired once, and no
\* later save of its content touches them.
THEOREM AnswersStay == Spec => AnswersKept
<1>1. RetireInv /\ [Next]_vars => (\A f \in Facts : acks[f] # {} => acks'[f] = acks[f])
  <2> SUFFICES ASSUME RetireInv, [Next]_vars, NEW f \in Facts, acks[f] # {}
               PROVE  acks'[f] = acks[f]
    OBVIOUS
  <2>1. ASSUME NEW c \in Clients, pc[c] = "checked", Retire(c) PROVE acks'[f] = acks[f]
    <3>1. f # req[c].old
      BY <2>1 DEF RetireInv, Exclusive, Retiring, Standing, Marks
    <3>2. acks' = acks \/ \E a : acks' = [acks EXCEPT ![req[c].old] = a]
      BY <2>1 DEF Retire
    <3> QED
      BY <3>1, <3>2 DEF RetireInv, TypeOK
  <2> QED
    BY <2>1, DocMoves DEF RetireInv
<1>2. [][\A f \in Facts : acks[f] # {} => acks'[f] = acks[f]]_vars <=> AnswersKept
  BY DEF AnswersKept
<1> QED
  BY <1>1, <1>2, RetireInductive, PTL DEF Spec

\* With the lock, and no reversal of a successor, what the request read still stands.
LEMMA StillStandsStep ==
    ASSUME RetireInv, StillStands, SparedSuccessors, FreshCorrections, [Next]_vars
    PROVE  StillStands'
<1>1. ASSUME NEW c \in Clients, Retiring(c)' PROVE SuccessorOk(c)'
  <2>1. pc'[c] \in {"locked", "checked"}
    BY <1>1 DEF Retiring
  <2>2. CASE TxLock(c) /\ req'[c] = req[c]
    <3>1. SuccessorOk(c) /\ UNCHANGED docVars
      BY <2>1, <2>2 DEF TxLock, Refuse, Answer, RetireInv, TypeOK
    <3> QED
      BY <2>2, <3>1 DEF SuccessorOk, Standing, docVars
  <2>3. CASE Retiring(c) /\ req'[c] = req[c]
    <3> SUFFICES ASSUME req[c].op = "supersede", req[c].new # None
                 PROVE  req[c].new \in docs' /\ req[c].new \notin superseded'
      BY <2>3 DEF SuccessorOk, Standing
    <3>1. Standing(req[c].new) /\ req[c].new \in Successors
      BY <2>3 DEF StillStands, SuccessorOk, RetireInv, Bodies, Retiring
    <3>2. ASSUME NEW x \in Clients, pc[x] = "checked" PROVE x = c
      BY <2>3, <3>2 DEF RetireInv, Exclusive, Retiring
    <3> QED
      BY <2>1, <3>1, <3>2, DocMoves DEF RetireInv, SparedSuccessors, Standing
  <2> QED
    BY <2>1, <2>2, <2>3, ReqMoves DEF RetireInv, Retiring
<1>2. superseded' \cap Corrections = {}
  <2>1. ASSUME NEW c \in Clients, pc[c] = "checked", Retire(c) PROVE superseded' \cap Corrections = {}
    BY <2>1 DEF Retire, RetireInv, Bodies, StillStands, FreshCorrections
  <2> QED
    BY <2>1, DocMoves DEF RetireInv, StillStands, SparedSuccessors
<1> QED
  BY <1>1, <1>2 DEF StillStands

\* A fact is retired once, in favour of a record that stands when the row is
\* flagged, and keeps the answers stored with it: if no verdict reverses a
\* successor and no retired content is saved again as a correction.
THEOREM RetirementStays ==
    ASSUME SparedSuccessors, FreshCorrections PROVE Spec => RetirementIsFinal
<1>1. Init => StillStands
  BY DEF Init, StillStands, Retiring
<1>2. RetireInv /\ StillStands /\ [Next]_vars => StillStands'
  BY StillStandsStep
<1>3. RetireInv /\ StillStands /\ [Next]_vars =>
        \A f \in Facts :
          supersededBy'[f] # supersededBy[f] =>
              /\ f \notin superseded /\ supersededBy'[f] \in docs'
              /\ supersededBy'[f] \notin superseded'
  <2> SUFFICES ASSUME RetireInv, StillStands, [Next]_vars, NEW f \in Facts,
                      supersededBy'[f] # supersededBy[f]
               PROVE  /\ f \notin superseded /\ supersededBy'[f] \in docs'
                      /\ supersededBy'[f] \notin superseded'
    OBVIOUS
  <2>1. PICK c \in Clients : /\ pc[c] = "checked" /\ pc'[c] = "idle" /\ TxCommit(c)
                             /\ req[c].new # req[c].old /\ Retire(c)
    BY DocMoves DEF RetireInv
  <2>2. supersededBy' = [supersededBy EXCEPT ![req[c].old] = req[c].new]
        /\ superseded' = superseded \cup {req[c].old}
    BY <2>1 DEF Retire
  <2>3. f = req[c].old /\ supersededBy'[f] = req[c].new
    BY <2>2 DEF RetireInv, TypeOK
  <2>4. Standing(f)
    BY <2>1, <2>3 DEF RetireInv, Exclusive, Retiring
  <2>5. CASE req[c].op = "supersede"
    <3>1. supersededBy[f] = None
      BY <2>4 DEF RetireInv, Marks, Standing
    <3>2. Standing(req[c].new)
      BY <2>1, <2>3, <2>5, <3>1 DEF StillStands, Retiring, SuccessorOk
    <3> QED
      BY <2>1, <2>2, <2>3, <2>4, <3>2, DocMoves DEF RetireInv, Standing
  <2>6. CASE req[c].op = "save"
    <3>1. req[c].new \in Corrections
      BY <2>1, <2>6 DEF RetireInv, Bodies
    <3>2. req[c].new \in docs'
      BY <2>1, <2>2, <2>3, <2>6 DEF TxCommit, Refuse, docVars
    <3> QED
      BY <2>1, <2>2, <2>3, <2>4, <3>1, <3>2 DEF StillStands, Standing
  <2> QED
    BY <2>1, <2>5, <2>6 DEF RetireInv, Bodies
<1>4. [][\A f \in Facts :
          supersededBy'[f] # supersededBy[f] =>
              /\ f \notin superseded /\ supersededBy'[f] \in docs'
              /\ supersededBy'[f] \notin superseded']_vars <=> SuccessorStood
  BY DEF SuccessorStood
<1>5. Spec => SuccessorStood
  BY <1>1, <1>2, <1>3, <1>4, RetireInductive, PTL DEF Spec
<1>6. RetirementIsFinal <=> SuccessorStood /\ AnswersKept
  BY DEF RetirementIsFinal
<1> QED
  BY <1>5, <1>6, AnswersStay, PTL

-----------------------------------------------------------------------------
(***************************************************************************)
(* The last ground of a thread.                                            *)
(***************************************************************************)
\* The threads depend on the judgements and their citations only.
LEMMA ThreadFrame ==
    ASSUME NEW d \in Decisions,
           Retros \cap docs' = Retros \cap docs,
           \A r \in Retros : Judges[r] = d => (r \in superseded' <=> r \in superseded),
           \A j \in {d} \cup {r \in Retros : Judges[r] = d} :
              basedOn'[j] = basedOn[j] /\ informed'[j] = informed[j]
    PROVE  Thread(d)' = Thread(d) /\ Grounds(d)' = Grounds(d) /\ Cited(d)' = Cited(d)
<1>1. Thread(d)' = Thread(d)
  BY DEF Thread
<1>2. \A j \in Thread(d) : basedOn'[j] = basedOn[j] /\ informed'[j] = informed[j]
  BY DEF Thread
<1>3. {basedOn'[j] : j \in Thread(d)'} = {basedOn[j] : j \in Thread(d)}
  BY <1>1, <1>2
<1>4. {informed'[j] : j \in Thread(d)'} = {informed[j] : j \in Thread(d)}
  BY <1>1, <1>2
<1> QED
  BY <1>1, <1>3, <1>4 DEF Grounds, Cited

\* Saving a fact can only give a thread a ground.
LEMMA UngroundedShrinks ==
    ASSUME NEW f \in Facts, NEW g \in Facts, SaveFact(g)
    PROVE  Ungrounded(f)' \subseteq Ungrounded(f)
<1> SUFFICES ASSUME NEW d \in Decisions, d \in Ungrounded(f)' PROVE d \in Ungrounded(f)
  BY DEF Ungrounded
<1>1. docs' = docs \cup {g} /\ UNCHANGED <<superseded, basedOn, informed>>
  BY DEF SaveFact
<1>2. Grounds(d)' = Grounds(d) /\ Cited(d)' = Cited(d)
  <2>1. Retros \cap docs' = Retros \cap docs
    BY <1>1, SetsAssumption DEF Judgements
  <2> QED
    BY <1>1, <2>1, ThreadFrame
<1>3. d # g
  BY SetsAssumption DEF Judgements
<1> QED
  BY <1>1, <1>2, <1>3 DEF Ungrounded, Standing

\* If no judgement commits in between, the second check is still good when the row is flagged.
LEMMA StillLostStep ==
    ASSUME ~JudgementsRace, RetireInv, StillLost, [Next]_vars
    PROVE  StillLost'
<1> SUFFICES ASSUME NEW c \in Clients, pc'[c] = "checked", NEW f, f = req'[c].old
             PROVE  Ungrounded(f)' \subseteq lost'[c] \cap req'[c].ack
  BY DEF StillLost
<1>1. CASE TxCheck(c) /\ pc[c] = "locked" /\ req'[c] = req[c]
  <2>1. /\ Answered(c) /\ lost' = [lost EXCEPT ![c] = Ungrounded(req[c].old)]
        /\ UNCHANGED docVars
    BY <1>1 DEF TxCheck, Refuse, Answer, RetireInv, TypeOK
  <2>2. Ungrounded(f)' = Ungrounded(f)
    BY <2>1 DEF docVars, Ungrounded, Standing, Cited, Grounds, Thread
  <2>3. lost'[c] = Ungrounded(f)
    BY <1>1, <2>1 DEF RetireInv, TypeOK
  <2> QED
    BY <1>1, <2>1, <2>2, <2>3 DEF Answered
<1>2. CASE pc[c] = "checked" /\ req'[c] = req[c] /\ lost'[c] = lost[c]
  <2>1. Ungrounded(f) \subseteq lost'[c] \cap req'[c].ack
    BY <1>2 DEF StillLost
  <2>2. CASE UNCHANGED docVars
    <3>1. Ungrounded(f)' = Ungrounded(f)
      BY <2>2 DEF docVars, Ungrounded, Standing, Cited, Grounds, Thread
    <3> QED
      BY <2>1, <3>1
  <2>3. ASSUME NEW g \in Facts, SaveFact(g) PROVE Ungrounded(f)' \subseteq Ungrounded(f)
    <3>1. f \in Facts
      BY <1>2 DEF RetireInv, TypeOK, Requests
    <3> QED
      BY <2>3, <3>1, UngroundedShrinks
  <2>4. ASSUME NEW x \in Clients, TxCommit(x) PROVE FALSE
    <3>1. x = c
      BY <1>2, <2>4 DEF TxCommit, RetireInv, Exclusive, Retiring
    <3> QED
      BY <3>1, <2>4 DEF TxCommit, Refuse, Answer, RetireInv, TypeOK
  <2>5. ~NoCheckPending
    BY <1>2 DEF NoCheckPending
  <2> QED
    BY <2>1, <2>2, <2>3, <2>4, <2>5
       DEF Next, Handle, Arrive, PreCheck, TxLock, TxCheck, Refuse, Crash, SaveDecision, SaveRetro,
           docVars, vars
<1> QED
  BY <1>1, <1>2, ReqMoves DEF RetireInv

\* Only a stored decision has grounds.
LEMMA GroundedIsStored ==
    ASSUME RetireInv, NEW d \in Decisions, HasGround(d) PROVE d \in docs
<1> SUFFICES ASSUME d \notin docs PROVE Grounds(d) = {}
  BY DEF HasGround
<1>1. Thread(d) = {d} /\ basedOn[d] = {}
  BY DEF RetireInv, Filed, Thread, Judgements
<1> QED
  BY <1>1 DEF Grounds

\* A decision that loses its ground to a retirement was lost at the second check.
LEMMA CommitIsAnswered ==
    ASSUME RetireInv, StillLost, FactsCorrect, NEW c \in Clients, pc[c] = "checked",
           TxCommit(c), Retire(c), superseded' # superseded,
           NEW d \in Decisions, HasGround(d), ~HasGround(d)', d \notin superseded'
    PROVE  \E f \in superseded' \ superseded : f \in Facts /\ d \in acks'[f]
<1> DEFINE f == req[c].old
<1>1. /\ superseded' = superseded \cup {f} /\ Standing(f) /\ f \in Facts
      /\ req[c].op = "save" => req[c].new \in Facts
      /\ acks \in [Facts -> SUBSET Decisions]
  BY DEF Retire, RetireInv, Exclusive, Retiring, TypeOK, Requests, Bodies, FactsCorrect
<1>2. /\ docs \subseteq docs' /\ docs' \ docs \subseteq Facts
      /\ UNCHANGED <<basedOn, informed>>
  BY <1>1, SetsAssumption DEF TxCommit, Refuse, docVars, Judgements
<1>3. Grounds(d)' = Grounds(d)
  <2>1. Retros \cap docs' = Retros \cap docs
    BY <1>2, SetsAssumption DEF Judgements
  <2>2. f \notin Retros
    BY <1>1, SetsAssumption DEF Judgements
  <2> QED
    BY <1>1, <1>2, <2>1, <2>2, ThreadFrame
<1>4. d \in Ungrounded(f)
  <2>1. Standing(d)
    BY <1>1, GroundedIsStored DEF Standing
  <2>2. \A g \in Grounds(d) : Standing(g) => g = f
    BY <1>1, <1>2, <1>3 DEF HasGround, Standing
  <2>3. f \in Cited(d)
    BY <2>2 DEF HasGround, Cited, Grounds
  <2> QED
    BY <2>1, <2>2, <2>3 DEF Ungrounded
<1>5. d \in lost[c] \cap req[c].ack
  BY <1>4 DEF StillLost
<1>6. acks'[f] = lost[c] \cap req[c].ack
  BY <1>1, <1>5 DEF Retire
<1>7. f \in superseded' \ superseded
  BY <1>1 DEF Standing
<1> QED
  BY <1>1, <1>5, <1>6, <1>7

\* A verdict that reverses a decision takes no ground from another one.
LEMMA ReversalKeepsGrounds ==
    ASSUME RetireInv, DecisionsReversed, NEW r \in Reversals, SaveRetro(r),
           superseded' = superseded \cup {Judges[r]},
           NEW d \in Decisions, HasGround(d), d \notin superseded'
    PROVE  HasGround(d)'
<1>1. Judges[r] \in Decisions /\ Judges[r] # d /\ r \in Retros
  BY SetsAssumption DEF DecisionsReversed
<1>2. docs' = docs \cup {r} /\ \E based, other : Cite(r, based, other)
  BY DEF SaveRetro
<1>3. d # r /\ Judges[r] \notin Retros
  BY <1>1, SetsAssumption
<1>4. Thread(d)' = Thread(d) /\ \A j \in Thread(d) : basedOn'[j] = basedOn[j]
  <2>1. Thread(d)' = Thread(d)
    BY <1>1, <1>2, <1>3 DEF Thread
  <2>2. Thread(d) \subseteq Judgements /\ r \notin Thread(d)
    BY <1>1, <1>3 DEF Thread, Judgements
  <2> QED
    BY <1>2, <2>1, <2>2 DEF Cite, RetireInv, TypeOK
<1>5. {basedOn'[j] : j \in Thread(d)'} = {basedOn[j] : j \in Thread(d)}
  BY <1>4
<1>6. Grounds(d)' = Grounds(d)
  BY <1>5 DEF Grounds
<1>7. PICK g \in Grounds(d) : Standing(g)
  BY DEF HasGround
<1>8. g \in Facts
  <2>1. PICK j \in Thread(d) : g \in basedOn[j]
    BY DEF Grounds
  <2>2. j \in Judgements
    BY <2>1 DEF Thread, Judgements
  <2> QED
    BY <2>1, <2>2 DEF RetireInv, TypeOK
<1>9. g # Judges[r]
  BY <1>1, <1>8, SetsAssumption DEF Judgements
<1> QED
  BY <1>2, <1>6, <1>7, <1>9 DEF HasGround, Standing

\* A decision that loses its last standing ground without being reversed itself is
\* named in the answers stored with the fact: if no judgement commits between the
\* second check and the UPDATE, verdicts reverse decisions, and saves that retire a
\* fact are saves of facts.
THEOREM LastGroundAnswered ==
    ASSUME ~JudgementsRace, DecisionsReversed, FactsCorrect
    PROVE  Spec => LastGroundNeedsAnswer
<1>1. Init => StillLost
  BY DEF Init, StillLost
<1>2. RetireInv /\ StillLost /\ [Next]_vars => StillLost'
  BY StillLostStep
<1>3. RetireInv /\ StillLost /\ [Next]_vars =>
        \A d \in Decisions :
          superseded' # superseded /\ HasGround(d) /\ ~HasGround(d)' /\ d \notin superseded'
              => \E f \in superseded' \ superseded : f \in Facts /\ d \in acks'[f]
  <2> SUFFICES ASSUME RetireInv, StillLost, [Next]_vars, NEW d \in Decisions,
                      superseded' # superseded, HasGround(d), ~HasGround(d)', d \notin superseded'
               PROVE  \E f \in superseded' \ superseded : f \in Facts /\ d \in acks'[f]
    OBVIOUS
  <2>1. ASSUME NEW r \in Reversals, SaveRetro(r), superseded' = superseded \cup {Judges[r]}
        PROVE  FALSE
    BY <2>1, ReversalKeepsGrounds
  <2>2. ASSUME NEW c \in Clients, pc[c] = "checked", TxCommit(c), Retire(c)
        PROVE  \E f \in superseded' \ superseded : f \in Facts /\ d \in acks'[f]
    BY <2>2, CommitIsAnswered
  <2> QED
    BY <2>1, <2>2, DocMoves DEF RetireInv
<1>4. [][\A d \in Decisions :
          superseded' # superseded /\ HasGround(d) /\ ~HasGround(d)' /\ d \notin superseded'
              => \E f \in superseded' \ superseded : f \in Facts /\ d \in acks'[f]]_vars
      <=> LastGroundNeedsAnswer
  BY DEF LastGroundNeedsAnswer
<1> QED
  BY <1>1, <1>2, <1>3, <1>4, RetireInductive, PTL DEF Spec

=============================================================================
