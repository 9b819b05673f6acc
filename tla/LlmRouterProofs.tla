-------------------------- MODULE LlmRouterProofs --------------------------
(***************************************************************************)
(* Proofs about the walk of a chat request through the LLM backends, for   *)
(* any pool, capacities, windows, calls and thresholds.                    *)
(***************************************************************************)
EXTENDS LlmRouter, FiniteSetTheorems, WellFoundedInduction, TLAPS

\* A set of indexes has a first one.
LEMMA FirstIndex ==
    ASSUME NEW S \in SUBSET Nat, S # {}
    PROVE  First(S) \in S /\ \A j \in S : First(S) <= j
<1> DEFINE below == {0..i : i \in S}
<1>1. below \subseteq FiniteSubsetsOf(Nat) /\ below # {}
  <2>1. \A i \in S : 0..i \subseteq Nat /\ IsFiniteSet(0..i)
    BY FS_Interval
  <2> QED
    BY <2>1 DEF FiniteSubsetsOf
<1>2. PICK x \in below : \A y \in below : ~(<<y, x>> \in StrictSubsetOrdering(Nat))
  BY <1>1, WFMin, FS_StrictSubsetOrderingWellFounded
<1>3. PICK i \in S : x = 0..i
  BY <1>2
<1>4. ASSUME NEW j \in S, j < i PROVE FALSE
  <2>1. 0..j \subseteq 0..i /\ i \in 0..i /\ i \notin 0..j
    BY <1>4
  <2>2. 0..j \subseteq Nat /\ 0..i \subseteq Nat /\ 0..j # 0..i
    BY <2>1
  <2>3. <<0..j, x>> \in StrictSubsetOrdering(Nat)
    BY <1>3, <2>1, <2>2, Zenon DEF StrictSubsetOrdering
  <2> QED
    BY <1>2, <2>3
<1>5. \A j \in S : i <= j
  BY <1>4
<1> QED
  BY <1>5 DEF First

\* The indexes of a walk are numbers.
LEMMA IndexType == ASSUME NEW q \in Seq(Backends) PROVE DOMAIN q \subseteq Nat \ {0}
  OBVIOUS

\* _next_index: a later backend that meets the floors.
LEMMA NextIndexMeets ==
    ASSUME NEW q \in Seq(Backends), NEW i \in DOMAIN q, NEW est, NEW f,
           NextIndex(q, i, est, f) # 0
    PROVE  LET n == NextIndex(q, i, est, f)
           IN  n \in DOMAIN q /\ i < n /\ MeetsFloors(q[n], est, f)
<1> DEFINE S == {j \in DOMAIN q : j > i /\ MeetsFloors(q[j], est, f)}
<1>1. S \in SUBSET Nat /\ S # {}
  BY IndexType DEF NextIndex
<1>2. First(S) \in S
  BY <1>1, FirstIndex
<1> QED
  BY <1>1, <1>2 DEF NextIndex

\* _free_self_hosted_peer: a later backend that meets the floors and has a slot.
LEMMA FreePeerMeets ==
    ASSUME NEW q \in Seq(Backends), NEW i \in DOMAIN q, NEW est, NEW f, NEW cool, NEW s,
           FreePeer(q, i, est, f, cool, s) # 0
    PROVE  LET n == FreePeer(q, i, est, f, cool, s)
           IN  n \in DOMAIN q /\ i < n /\ MeetsFloors(q[n], est, f) /\ ~Full(q[n], s)
<1> DEFINE S == {j \in DOMAIN q :
                  /\ j > i /\ Priority[q[j]] = Priority[q[i]] /\ q[j] \in SelfHosted
                  /\ ~Full(q[j], s) /\ q[j] \notin cool
                  /\ MeetsFloors(q[j], est, f)}
<1>1. S \in SUBSET Nat /\ S # {}
  BY IndexType DEF FreePeer
<1>2. First(S) \in S
  BY <1>1, FirstIndex
<1> QED
  BY <1>1, <1>2 DEF FreePeer

\* Where the loop of _walk_llm stops: at the backend it began with or at a later one
\* that meets the floors, and it tries only one that has a slot.
LEMMA LandMeets ==
    ASSUME NEW q \in Seq(Backends), NEW from \in DOMAIN q, NEW est, NEW f, NEW cool, NEW s
    PROVE  LET l == Land(q, from, est, f, cool, s)
           IN  /\ l.step \in {"end", "wait", "try"}
               /\ l.step # "end" =>
                    /\ l.at \in DOMAIN q /\ from <= l.at
                    /\ l.at = from \/ MeetsFloors(q[l.at], est, f)
               /\ l.step = "try" => ~Full(q[l.at], s)
<1> DEFINE ahead == {j \in DOMAIN q : j > from /\ MoveOnDown /\ MeetsFloors(q[j], est, f)}
           up    == {j \in {from} \cup ahead : q[j] \notin cool}
           i     == First(up)
           spare == FreePeer(q, i, est, f, cool, s)
           l     == Land(q, from, est, f, cool, s)
<1>1. l = IF up = {} THEN [step |-> "end", at |-> from]
          ELSE IF ~Full(q[i], s) THEN [step |-> "try", at |-> i]
          ELSE IF spare # 0 THEN [step |-> "try", at |-> spare]
          ELSE [step |-> "wait", at |-> i]
  BY DEF Land
<1>2. CASE up = {}
  BY <1>1, <1>2
<1>3. CASE up # {}
  <2>1. up \in SUBSET Nat
    BY IndexType
  <2>2. i \in up
    BY <1>3, <2>1, FirstIndex
  <2>3. i \in DOMAIN q /\ from <= i /\ (i = from \/ MeetsFloors(q[i], est, f))
    BY <2>2, IndexType
  <2> HIDE DEF up, i
  <2>4. spare # 0 => /\ spare \in DOMAIN q /\ i < spare
                     /\ MeetsFloors(q[spare], est, f) /\ ~Full(q[spare], s)
    BY <2>3, FreePeerMeets
  <2> HIDE DEF spare, l
  <2> QED
    BY <1>1, <1>3, <2>3, <2>4, IndexType DEF l
<1> QED
  BY <1>2, <1>3

\* Room and window are numbers.
LEMMA RoomType ==
    ASSUME NEW b \in Backends, NEW est \in Sizes
    PROVE  NCtx[b] \in Nat /\ ReplyRoom(b, est) \in Int
<1>1. NCtx[b] \in Nat /\ MaxOutput[b] \in Nat /\ est \in Int /\ 100 - FitMargin \in Int
  BY BackendAssumption
<1>2. NCtx[b] * (100 - FitMargin) \in Int
  BY <1>1
<1>3. ContextRoom(b, est) \in Int
  BY <1>1, <1>2 DEF ContextRoom
<1> QED
  BY <1>1, <1>3 DEF ReplyRoom

-----------------------------------------------------------------------------
(***************************************************************************)
(* Every step of a walk either answers or goes on to a backend.            *)
(***************************************************************************)
Here(c) == order[c][at[c]]
Entry   == [b : Backends, end : Ends]
Floors  == [n : Nat, room : Int, strict : {"none", "n", "room"}]
Stand(c, q, n, st) ==
    /\ order' = [order EXCEPT ![c] = q] /\ at' = [at EXCEPT ![c] = n] /\ pc' = [pc EXCEPT ![c] = st]

\* The slots s without the one of c, if it had one.
Without(c, s) ==
    /\ s \in [Backends -> Nat]
    /\ \A b \in Backends : s[b] = Cardinality(Trying(b) \ {c}) /\ (b \in DOMAIN Cap => s[b] <= Cap[b])

\* Backend n of q comes after what was tried, h, which the floor f covers.
Fits(c, q, n, f, h) ==
    /\ q \in Seq(Backends) /\ n \in DOMAIN q /\ f \in Floors
    /\ \A i, j \in DOMAIN q : q[i] = q[j] => i = j
    /\ h \in [Calls -> Seq(Entry)] /\ \A d \in Calls \ {c} : h[d] = tried[d]
    /\ \A i \in DOMAIN h[c] :
          /\ \E m \in 1..(n - 1) : q[m] = h[c][i].b
          /\ NotSmaller(h[c][i], q[n], size[c])
          /\ \A x \in Backends : MeetsFloors(x, size[c], f) => NotSmaller(h[c][i], x, size[c])
    /\ \A i, j \in DOMAIN h[c] : i < j =>
          h[c][i].b # h[c][j].b /\ NotSmaller(h[c][i], h[c][j].b, size[c])

Answers(c) ==
    /\ \E r \in Replies : Answered(c, r) /\ (sawReply'[c] => r \notin {"queued", "fault", "no_backend"})
    /\ Without(c, inflight')

GoesOn(c) ==
    \E q \in Seq(Backends), n \in Nat, f \in Floors, h \in [Calls -> Seq(Entry)],
       s \in [Backends -> Nat] :
        /\ Fits(c, q, n, f, h) /\ Without(c, s)
        /\ reply[c] = "none" /\ UNCHANGED reply /\ floor' = [floor EXCEPT ![c] = f]
        /\ \/ Stand(c, q, n, "wait") /\ inflight' = s /\ tried' = h
           \/ /\ Stand(c, q, n, "try") /\ ~Full(q[n], s)
              /\ inflight' = [s EXCEPT ![q[n]] = @ + 1]
              /\ tried' = [h EXCEPT ![c] = Append(@, [b |-> q[n], end |-> "open"])]

Charges(c) == \E saw \in BOOLEAN : sawReply' = [sawReply EXCEPT ![c] = saw]

WalkStep ==
    /\ UNCHANGED <<size, prefix>>
    /\ \/ \E c \in Calls : pc[c] # "done" /\ Charges(c) /\ (Answers(c) \/ GoesOn(c))
       \/ UNCHANGED <<inflight, walkVars>>

\* Leaving a backend frees the slot of the walk.
LEMMA Leaving ==
    ASSUME TypeOK, WalkOK, SlotsAccounted, NEW c \in Calls
    PROVE  /\ pc[c] = "try" => Without(c, [inflight EXCEPT ![Here(c)] = @ - 1])
           /\ pc[c] # "try" => Without(c, inflight)
<1>1. ASSUME NEW b \in Backends
      PROVE  /\ IsFiniteSet(Trying(b)) /\ Cardinality(Trying(b)) \in Nat
             /\ IsFiniteSet(Trying(b) \ {c}) /\ Cardinality(Trying(b) \ {c}) \in Nat
             /\ Cardinality(Trying(b) \ {c})
                  = IF c \in Trying(b) THEN Cardinality(Trying(b)) - 1 ELSE Cardinality(Trying(b))
  <2>1. IsFiniteSet(Trying(b))
    BY FS_Subset, BackendAssumption DEF Trying
  <2> QED
    BY <2>1, FS_RemoveElement, FS_CardinalityType
<1>2. \A b \in Backends : b \in DOMAIN Cap => Cap[b] \in Nat
  BY BackendAssumption
<1>3. CASE pc[c] = "try"
  <2>1. Here(c) \in Backends
    <3>1. order[c] \in Seq(Backends) /\ at[c] \in DOMAIN order[c]
      BY <1>3 DEF TypeOK, WalkOK, Walking
    <3> QED
      BY <3>1 DEF Here
  <2>2. \A b \in Backends : c \in Trying(b) <=> b = Here(c)
    BY <1>3 DEF Trying, Here
  <2> DEFINE s == [inflight EXCEPT ![Here(c)] = @ - 1]
  <2>3. ASSUME NEW b \in Backends
        PROVE  /\ s[b] = Cardinality(Trying(b) \ {c}) /\ s[b] \in Nat
               /\ b \in DOMAIN Cap => s[b] <= Cap[b]
    <3>1. inflight[b] \in Nat /\ inflight[b] = Cardinality(Trying(b))
          /\ (b \in DOMAIN Cap => inflight[b] <= Cap[b])
      BY DEF SlotsAccounted, TypeOK
    <3>2. s[b] = IF b = Here(c) THEN inflight[b] - 1 ELSE inflight[b]
      BY <2>1 DEF TypeOK
    <3> QED
      BY <1>1, <1>2, <2>2, <3>1, <3>2
  <2>4. s \in [Backends -> Nat]
    BY <2>3 DEF TypeOK
  <2> QED
    BY <1>3, <2>3, <2>4 DEF Without
<1>4. CASE pc[c] # "try"
  <2>1. \A b \in Backends : c \notin Trying(b)
    BY <1>4 DEF Trying
  <2> QED
    BY <1>1, <1>4, <2>1 DEF Without, SlotsAccounted, TypeOK
<1> QED
  BY <1>3, <1>4

\* GoOn answers, or stands at a backend that fits.
LEMMA GoOnStep ==
    ASSUME NEW c \in Calls, NEW q \in Seq(Backends), NEW i \in DOMAIN q, NEW f \in Floors,
           NEW saw \in BOOLEAN, NEW cool, NEW s \in [Backends -> Nat],
           NEW h \in [Calls -> Seq(Entry)], GoOn(c, q, i, f, saw, cool, s, h),
           \A n \in DOMAIN q : i <= n /\ (n = i \/ MeetsFloors(q[n], size[c], f)) => Fits(c, q, n, f, h),
           sawReply'[c] = saw, Without(c, s), reply[c] = "none"
    PROVE  Answers(c) \/ GoesOn(c)
<1> DEFINE l == Land(q, i, size[c], f, cool, s)
<1>1. /\ l.step \in {"end", "wait", "try"}
      /\ l.step # "end" =>
            /\ l.at \in DOMAIN q /\ i <= l.at
            /\ l.at = i \/ MeetsFloors(q[l.at], size[c], f)
      /\ l.step = "try" => ~Full(q[l.at], s)
  BY LandMeets
<1> HIDE DEF l
<1>2. CASE l.step = "end"
  <2>1. Answered(c, AfterReplyOrQueue(saw, "queued")) /\ inflight' = s
    BY <1>2 DEF GoOn, l
  <2>2. AfterReplyOrQueue(saw, "queued") \in Replies
        /\ (saw => AfterReplyOrQueue(saw, "queued") \notin {"queued", "fault", "no_backend"})
    BY DEF AfterReplyOrQueue, Replies, Reasons
  <2> QED
    BY <2>1, <2>2 DEF Answers
<1>3. CASE l.step # "end"
  <2>1. /\ Stand(c, q, l.at, l.step) /\ floor' = [floor EXCEPT ![c] = f] /\ UNCHANGED reply
        /\ l.step = "try" =>
              /\ inflight' = [s EXCEPT ![q[l.at]] = @ + 1]
              /\ tried' = [h EXCEPT ![c] = Append(@, [b |-> q[l.at], end |-> "open"])]
        /\ l.step = "wait" => inflight' = s /\ tried' = h
    BY <1>1, <1>3 DEF GoOn, l, Stand
  <2>2. Fits(c, q, l.at, f, h) /\ l.at \in Nat
    BY <1>1, <1>3, IndexType
  <2>3. l.step \in {"wait", "try"}
    BY <1>1, <1>3
  <2>4. \/ Stand(c, q, l.at, "wait") /\ inflight' = s /\ tried' = h
        \/ /\ Stand(c, q, l.at, "try") /\ ~Full(q[l.at], s)
           /\ inflight' = [s EXCEPT ![q[l.at]] = @ + 1]
           /\ tried' = [h EXCEPT ![c] = Append(@, [b |-> q[l.at], end |-> "open"])]
    BY <1>1, <2>1, <2>3
  <2>5. GoesOn(c)
    BY <2>1, <2>2, <2>4 DEF GoesOn
  <2> QED
    BY <2>5
<1> QED
  BY <1>2, <1>3

\* _order_backends: distinct backends of the pool.
LEMMA OrderType ==
    ASSUME TypeOK, NEW p \in Prefixes, NEW est, NEW q \in OrderBackends(est, p)
    PROVE  q \in Seq(Backends) /\ \A i, j \in DOMAIN q : q[i] = q[j] => i = j
<1> DEFINE S == {b \in Pool : Qualifies(b, est)}
<1>1. IsFiniteSet(S) /\ S \subseteq Backends
  <2>1. S \in SUBSET Backends
    BY DEF Pool
  <2> QED
    BY <2>1, FS_Subset, BackendAssumption
<1>2. q \in [1..Cardinality(S) -> S] /\ Cardinality(S) \in Nat
  BY <1>1, FS_CardinalityType DEF OrderBackends
<1>3. \A i, j \in DOMAIN q : i < j => Before(SortKey(q[i], p), SortKey(q[j], p))
  BY DEF OrderBackends
<1> HIDE DEF S
<1>4. ASSUME NEW b \in Backends PROVE ~Before(SortKey(b, p), SortKey(b, p))
  <2>1. Priority[b] \in Int /\ NCtx[b] \in Int /\ Index[b] \in Int /\ inflight[b] \in Int
    BY BackendAssumption DEF TypeOK
  <2>2. DOMAIN SortKey(b, p) = 1..6 /\ \A i \in 1..6 : SortKey(b, p)[i] \in Int
    BY <2>1 DEF SortKey
  <2> QED
    BY <2>2 DEF Before
<1>5. q \in Seq(Backends)
  BY <1>1, <1>2
<1>6. ASSUME NEW i \in DOMAIN q, NEW j \in DOMAIN q, q[i] = q[j] PROVE i = j
  <2>1. ~(i < j) /\ ~(j < i)
    BY <1>3, <1>4, <1>5, <1>6
  <2> QED
    BY <1>2, <2>1
<1> QED
  BY <1>5, <1>6

\* A request enters: refused at once, or on its way to a first backend.
LEMMA EnterWalks == ASSUME WalkInv, NEW c \in Calls, Enter(c) PROVE WalkStep
<1> USE DEF WalkInv
<1>1. pc[c] = "idle" /\ ~sawReply[c] /\ tried[c] = <<>> /\ reply[c] = "none" /\ sawReply[c] \in BOOLEAN
  BY DEF Enter, WalkOK, TypeOK
<1>2. Without(c, inflight)
  BY <1>1, Leaving
<1>3. sawReply' = [sawReply EXCEPT ![c] = FALSE] /\ ~sawReply'[c] /\ UNCHANGED <<size, prefix>>
  BY <1>1 DEF Enter, TypeOK
<1>4. PICK q \in OrderBackends(size[c], prefix[c]) :
         IF c \notin Framework THEN Answered(c, "refused") /\ UNCHANGED inflight
         ELSE IF Pool = {} THEN Answered(c, "no_backend") /\ UNCHANGED inflight
         ELSE IF q = <<>> THEN Answered(c, "no_context") /\ UNCHANGED inflight
         ELSE GoOn(c, q, 1, NoFloor, FALSE, cooled, inflight, tried)
  BY DEF Enter
<1>5. CASE \E r \in {"refused", "no_backend", "no_context"} : Answered(c, r) /\ UNCHANGED inflight
  <2>1. Answers(c)
    BY <1>2, <1>3, <1>5 DEF Answers, Replies, Reasons, Without
  <2> QED
    BY <1>1, <1>3, <2>1 DEF WalkStep, Charges
<1>6. CASE q # <<>> /\ GoOn(c, q, 1, NoFloor, FALSE, cooled, inflight, tried)
  <2>1. q \in Seq(Backends) /\ \A i, j \in DOMAIN q : q[i] = q[j] => i = j
    BY OrderType DEF TypeOK
  <2>2. 1 \in DOMAIN q
    BY <1>6, <2>1
  <2>3. NoFloor \in Floors /\ tried \in [Calls -> Seq(Entry)] /\ inflight \in [Backends -> Nat]
    <3>1. NoFloor \in Floors
      BY DEF NoFloor, Floors
    <3> QED
      BY <3>1 DEF TypeOK, Entry
  <2>4. \A n \in DOMAIN q : Fits(c, q, n, NoFloor, tried)
    BY <1>1, <2>1, <2>3 DEF Fits
  <2>5. Answers(c) \/ GoesOn(c)
    <3>1. sawReply'[c] = FALSE
      BY <1>3 DEF TypeOK
    <3> QED
      BY <1>1, <1>2, <1>6, <2>1, <2>2, <2>3, <2>4, <3>1, GoOnStep
  <2> QED
    BY <1>1, <1>3, <2>5 DEF WalkStep, Charges
<1> QED
  BY <1>4, <1>5, <1>6

\* A slot frees: the walk tries the backend it waited for.
LEMMA SlotWalks == ASSUME WalkInv, NEW c \in Calls, SlotFrees(c) PROVE WalkStep
<1> USE DEF WalkInv
<1> DEFINE q == order[c]
           n == at[c]
<1>1. pc[c] = "wait" /\ reply[c] = "none" /\ sawReply[c] \in BOOLEAN /\ n \in DOMAIN q
  BY DEF SlotFrees, WalkOK, Walking, TypeOK
<1>2. q \in Seq(Backends) /\ n \in Nat /\ floor[c] \in Floors /\ inflight \in [Backends -> Nat]
      /\ tried \in [Calls -> Seq(Entry)] /\ tried[c] \in Seq(Entry)
  BY DEF TypeOK, Floors, Entry
<1>3. Without(c, inflight)
  BY <1>1, Leaving
<1>4. Fits(c, q, n, floor[c], tried)
  <2>1. ASSUME NEW i \in DOMAIN tried[c]
        PROVE  /\ \E m \in 1..(n - 1) : q[m] = tried[c][i].b
               /\ NotSmaller(tried[c][i], q[n], size[c])
               /\ \A x \in Backends : MeetsFloors(x, size[c], floor[c]) => NotSmaller(tried[c][i], x, size[c])
    <3>1. PICK m \in 1..n : q[m] = tried[c][i].b
      BY <1>1 DEF PathOK, Walking
    <3>2. m # n /\ NotSmaller(tried[c][i], q[n], size[c])
      BY <1>1, <3>1 DEF WaitOK
    <3>3. m \in 1..(n - 1)
      BY <1>2, <3>1, <3>2
    <3>4. \A x \in Backends : MeetsFloors(x, size[c], floor[c]) => NotSmaller(tried[c][i], x, size[c])
      BY <1>1 DEF PathOK, Walking
    <3> QED
      BY <3>1, <3>2, <3>3, <3>4
  <2> HIDE DEF q, n
  <2>2. \A i, j \in DOMAIN tried[c] : i < j =>
           tried[c][i].b # tried[c][j].b /\ NotSmaller(tried[c][i], tried[c][j].b, size[c])
    BY DEF NeverSmaller
  <2>3. \A i, j \in DOMAIN q : q[i] = q[j] => i = j
    BY DEF WalkOK, q
  <2> QED
    BY <1>1, <1>2, <2>1, <2>2, <2>3 DEF Fits
<1>5. /\ order' = [order EXCEPT ![c] = q] /\ at' = [at EXCEPT ![c] = n]
      /\ floor' = [floor EXCEPT ![c] = floor[c]] /\ sawReply' = [sawReply EXCEPT ![c] = sawReply[c]]
  BY DEF SlotFrees, TypeOK
<1>6. /\ ~Full(q[n], inflight) /\ pc' = [pc EXCEPT ![c] = "try"]
      /\ inflight' = [inflight EXCEPT ![q[n]] = @ + 1] /\ UNCHANGED <<reply, size, prefix>>
      /\ tried' = [tried EXCEPT ![c] = Append(@, [b |-> q[n], end |-> "open"])]
  BY DEF SlotFrees
<1> HIDE DEF q, n
<1>7. GoesOn(c)
  BY <1>1, <1>2, <1>3, <1>4, <1>5, <1>6 DEF GoesOn, Stand
<1> QED
  BY <1>1, <1>5, <1>6, <1>7 DEF WalkStep, Charges

-----------------------------------------------------------------------------
\* The floor and the history after the try of c ended in k.
FloorAfter(c, k) ==
    CASE k = "context" -> [n |-> NCtx[Here(c)], room |-> ReplyRoom(Here(c), size[c]), strict |-> "n"]
      [] k = "cut_off" -> [n |-> NCtx[Here(c)], room |-> ReplyRoom(Here(c), size[c]), strict |-> "room"]
      [] OTHER -> floor[c]
TriedAfter(c, k) == [tried EXCEPT ![c][Len(tried[c])].end = k]

\* A backend not smaller than one that is not smaller than a third is not smaller than it.
LEMMA NotSmallerTransitive ==
    ASSUME NEW a \in Entry, NEW b \in Backends, NEW x \in Backends, NEW est \in Sizes,
           NotSmaller(a, b, est), NCtx[x] >= NCtx[b], ReplyRoom(x, est) >= ReplyRoom(b, est)
    PROVE  NotSmaller(a, x, est)
<1>1. a.b \in Backends
  BY DEF Entry
<1>2. /\ NCtx[a.b] \in Nat /\ NCtx[b] \in Nat /\ NCtx[x] \in Nat
      /\ ReplyRoom(a.b, est) \in Int /\ ReplyRoom(b, est) \in Int /\ ReplyRoom(x, est) \in Int
  BY <1>1, RoomType
<1> QED
  BY <1>2 DEF NotSmaller

\* What a step past the failed try leads to fits.
LEMMA TryFits ==
    ASSUME WalkInv, NEW c \in Calls, pc[c] = "try", NEW k \in Ends, NEW n \in DOMAIN order[c],
           at[c] < n, MeetsFloors(order[c][n], size[c], FloorAfter(c, k))
    PROVE  Fits(c, order[c], n, FloorAfter(c, k), TriedAfter(c, k))
<1> USE DEF WalkInv
<1> DEFINE q == order[c]
           L == Len(tried[c])
           f == FloorAfter(c, k)
           h == TriedAfter(c, k)
           est == size[c]
<1>1. /\ q \in Seq(Backends) /\ at[c] \in DOMAIN q /\ at[c] \in Nat /\ n \in Nat /\ est \in Sizes
      /\ \A i, j \in DOMAIN q : q[i] = q[j] => i = j
      /\ Here(c) \in Backends /\ q[n] \in Backends
  <2>1. q \in Seq(Backends) /\ at[c] \in DOMAIN q /\ at[c] \in Nat /\ est \in Sizes
    BY DEF TypeOK, WalkOK, Walking
  <2>2. Here(c) \in Backends /\ q[n] \in Backends
    BY <2>1 DEF Here
  <2>3. \A i, j \in DOMAIN q : q[i] = q[j] => i = j
    BY DEF WalkOK
  <2> QED
    BY <2>1, <2>2, <2>3, IndexType
<1>2. /\ tried \in [Calls -> Seq(Entry)] /\ tried[c] \in Seq(Entry) /\ L \in DOMAIN tried[c]
      /\ tried[c][L] = [b |-> Here(c), end |-> "open"] /\ L \in Nat /\ DOMAIN tried[c] = 1..L
  <2>1. tried \in [Calls -> Seq(Entry)] /\ tried[c] \in Seq(Entry)
    BY DEF TypeOK, Entry
  <2>2. tried[c] # <<>> /\ tried[c][L] = [b |-> Here(c), end |-> "open"]
    BY DEF WalkOK, Here
  <2>3. L \in Nat /\ DOMAIN tried[c] = 1..L /\ L # 0
    BY <2>1, <2>2
  <2> QED
    BY <2>1, <2>2, <2>3
<1>3. f \in Floors
  <2>1. floor[c] \in Floors
    BY DEF TypeOK, Floors
  <2>2. NCtx[Here(c)] \in Nat /\ ReplyRoom(Here(c), est) \in Int
    BY <1>1, RoomType
  <2> QED
    BY <2>1, <2>2 DEF FloorAfter, Floors
<1>4. /\ h \in [Calls -> Seq(Entry)] /\ \A d \in Calls \ {c} : h[d] = tried[d]
      /\ DOMAIN h[c] = 1..L /\ h[c][L] = [b |-> Here(c), end |-> k]
      /\ \A i \in 1..(L - 1) : h[c][i] = tried[c][i]
  <2>1. h = [tried EXCEPT ![c] = [tried[c] EXCEPT ![L] = [tried[c][L] EXCEPT !.end = k]]]
    BY DEF TriedAfter
  <2>2. [tried[c][L] EXCEPT !.end = k] = [b |-> Here(c), end |-> k]
    BY <1>2
  <2>3. [b |-> Here(c), end |-> k] \in Entry
    BY <1>1 DEF Entry
  <2>4. h[c] = [tried[c] EXCEPT ![L] = [b |-> Here(c), end |-> k]]
    BY <1>2, <2>1, <2>2
  <2>5. h[c] \in Seq(Entry)
    BY <1>2, <2>3, <2>4
  <2> QED
    BY <1>2, <2>1, <2>4, <2>5
<1> HIDE DEF h, f
<1>5. \A i \in 1..L : h[c][i].b = tried[c][i].b /\ h[c][i] \in Entry
  BY <1>2, <1>4
<1>6. ASSUME NEW i \in 1..L PROVE \E m \in 1..(n - 1) : q[m] = h[c][i].b
  <2>1. PICK m \in 1..at[c] : q[m] = tried[c][i].b
    BY <1>2 DEF PathOK, Walking
  <2> QED
    BY <1>1, <1>5, <2>1
<1>7. ASSUME NEW i \in 1..L, NEW x \in Backends, MeetsFloors(x, est, f)
      PROVE  NotSmaller(h[c][i], x, est)
  <2>1. /\ NCtx[Here(c)] \in Nat /\ ReplyRoom(Here(c), est) \in Int
        /\ NCtx[x] \in Nat /\ ReplyRoom(x, est) \in Int
    BY <1>1, RoomType
  <2>2. k = "context" => NCtx[x] > NCtx[Here(c)] /\ ReplyRoom(x, est) >= ReplyRoom(Here(c), est)
    BY <1>7, <2>1 DEF f, FloorAfter, MeetsFloors
  <2>3. k = "cut_off" => NCtx[x] >= NCtx[Here(c)] /\ ReplyRoom(x, est) > ReplyRoom(Here(c), est)
    BY <1>7, <2>1 DEF f, FloorAfter, MeetsFloors
  <2>4. CASE i = L
    BY <1>4, <2>1, <2>2, <2>3, <2>4 DEF NotSmaller
  <2>5. CASE i < L
    <3>1. h[c][i] = tried[c][i] /\ tried[c][i] \in Entry
      BY <1>2, <1>4, <2>5
    <3>2. NotSmaller(tried[c][i], Here(c), est)
      BY <1>2, <2>5 DEF NeverSmaller
    <3>3. CASE k \in {"context", "cut_off"}
      <4>1. NCtx[x] >= NCtx[Here(c)] /\ ReplyRoom(x, est) >= ReplyRoom(Here(c), est)
        BY <2>1, <2>2, <2>3, <3>3
      <4> QED
        BY <1>1, <3>1, <3>2, <4>1, NotSmallerTransitive
    <3>4. CASE k \notin {"context", "cut_off"}
      <4>1. f = floor[c]
        BY <3>4 DEF f, FloorAfter
      <4> QED
        BY <1>2, <1>7, <3>1, <4>1 DEF PathOK, Walking
    <3> QED
      BY <3>3, <3>4
  <2> QED
    BY <1>2, <2>4, <2>5
<1>8. ASSUME NEW i \in 1..L, NEW j \in 1..L, i < j
      PROVE  h[c][i].b # h[c][j].b /\ NotSmaller(h[c][i], h[c][j].b, est)
  <2>1. h[c][i] = tried[c][i]
    BY <1>2, <1>4, <1>8
  <2>2. tried[c][i].b # tried[c][j].b /\ NotSmaller(tried[c][i], tried[c][j].b, est)
    BY <1>2, <1>8 DEF NeverSmaller
  <2> QED
    BY <1>5, <2>1, <2>2
<1>9. MeetsFloors(q[n], est, f)
  BY DEF f
<1> HIDE DEF q, est, L
<1>10. Fits(c, q, n, f, h)
  BY <1>1, <1>3, <1>4, <1>6, <1>7, <1>8, <1>9 DEF Fits, est, q
<1> QED
  BY <1>10 DEF q, f, h

LEMMA KindType == ASSUME NEW b, NEW o \in Outcomes PROVE Kind(b, o) \in Ends
<1>1. o.what \in Transport \cup Statuses \cup Bodies
  BY DEF Outcomes
<1> QED
  BY <1>1 DEF Kind, Ends, Transport, Statuses, Bodies

\* A try ends: an answer, or the next backend.
LEMMA TryWalks == ASSUME WalkInv, NEW c \in Calls, NEW o \in Outcomes, TryEnds(c, o) PROVE WalkStep
<1> USE DEF WalkInv
<1> DEFINE b    == Here(c)
           q    == order[c]
           k    == Kind(b, o)
           s    == [inflight EXCEPT ![b] = @ - 1]
           saw  == sawReply[c] \/ Paid(o)
           h    == TriedAfter(c, k)
           f    == FloorAfter(c, k)
           cool == IF Trips(b, o) THEN cooled \cup {b} ELSE cooled
           next == NextIndex(q, at[c], size[c], f)
<1>1. /\ pc[c] = "try" /\ sawReply' = [sawReply EXCEPT ![c] = saw] /\ UNCHANGED <<size, prefix>>
      /\ \/ next # 0 /\ GoOn(c, q, next, f, saw, cool, s, h)
         \/ /\ \/ \E r \in {"queued", "fault"} : Answered(c, AfterReplyOrQueue(saw, r))
               \/ \E r \in {"no_context", "cut_off", "connection_lost", "loop", "unparseable", "complete"} :
                     Answered(c, r)
            /\ inflight' = s
  BY Zenon DEF TryEnds, Released, FloorAfter, TriedAfter, Here
<1>2. saw \in BOOLEAN /\ sawReply'[c] = saw /\ Charges(c)
  <2>1. saw \in BOOLEAN
    OBVIOUS
  <2>2. sawReply'[c] = saw
    BY <1>1 DEF TypeOK
  <2> QED
    BY <1>1, <2>1, <2>2 DEF Charges
<1>3. Without(c, s) /\ s \in [Backends -> Nat] /\ reply[c] = "none" /\ pc[c] # "done"
  BY <1>1, Leaving DEF Without, WalkOK
<1>4. q \in Seq(Backends) /\ at[c] \in DOMAIN q /\ k \in Ends
  BY <1>1, KindType DEF TypeOK, WalkOK, Walking
<1> HIDE DEF saw, k, s, cool
<1>5. CASE next # 0 /\ GoOn(c, q, next, f, saw, cool, s, h)
  <2>1. next \in DOMAIN q /\ at[c] < next /\ MeetsFloors(q[next], size[c], f)
    BY <1>4, <1>5, NextIndexMeets
  <2> HIDE DEF next
  <2>2. \A n \in DOMAIN q : next <= n /\ (n = next \/ MeetsFloors(q[n], size[c], f)) => Fits(c, q, n, f, h)
    <3> SUFFICES ASSUME NEW n \in DOMAIN q, next <= n, n = next \/ MeetsFloors(q[n], size[c], f)
                 PROVE  Fits(c, q, n, f, h)
      OBVIOUS
    <3>1. at[c] < n
      BY <1>4, <2>1
    <3>2. MeetsFloors(q[n], size[c], f)
      BY <2>1
    <3> QED
      BY <1>1, <1>4, <3>1, <3>2, TryFits
  <2>3. f \in Floors /\ h \in [Calls -> Seq(Entry)]
    <3>1. next <= next
      BY <1>4, <2>1
    <3>2. Fits(c, q, next, f, h)
      BY <2>1, <2>2, <3>1
    <3> QED
      BY <3>2 DEF Fits
  <2> HIDE DEF f, h, q
  <2>4. Answers(c) \/ GoesOn(c)
    BY <1>2, <1>3, <1>4, <1>5, <2>1, <2>2, <2>3, GoOnStep
  <2> QED
    BY <1>1, <1>2, <1>3, <2>4 DEF WalkStep
<1>6. ASSUME NEW r \in {"queued", "fault"}, Answered(c, AfterReplyOrQueue(saw, r)), inflight' = s
      PROVE  WalkStep
  <2>1. AfterReplyOrQueue(saw, r) \in Replies
        /\ (saw => AfterReplyOrQueue(saw, r) \notin {"queued", "fault", "no_backend"})
    BY DEF AfterReplyOrQueue, Replies, Reasons
  <2>2. Answers(c)
    BY <1>2, <1>3, <1>6, <2>1 DEF Answers
  <2> QED
    BY <1>1, <1>2, <1>3, <2>2 DEF WalkStep
<1>7. ASSUME NEW r \in {"no_context", "cut_off", "connection_lost", "loop", "unparseable", "complete"},
             Answered(c, r), inflight' = s
      PROVE  WalkStep
  <2>1. r \in Replies /\ r \notin {"queued", "fault", "no_backend"}
    BY DEF Replies, Reasons
  <2>2. Answers(c)
    BY <1>3, <1>7, <2>1 DEF Answers
  <2> QED
    BY <1>1, <1>2, <1>3, <2>2 DEF WalkStep
<1> QED
  BY <1>1, <1>5, <1>6, <1>7

\* The client leaves.
LEMMA CancelledWalks == ASSUME WalkInv, NEW c \in Calls, Cancelled(c) PROVE WalkStep
<1> USE DEF WalkInv
<1>1. Without(c, inflight')
  BY Leaving DEF Cancelled, Here
<1>2. Answered(c, "gone") /\ "gone" \in Replies /\ pc[c] # "done"
  BY DEF Cancelled, Replies
<1>3. Answers(c)
  BY <1>1, <1>2 DEF Answers
<1>4. sawReply' = [sawReply EXCEPT ![c] = sawReply[c]] /\ sawReply[c] \in BOOLEAN
      /\ UNCHANGED <<size, prefix>>
  BY DEF Cancelled, TypeOK
<1> QED
  BY <1>2, <1>3, <1>4 DEF WalkStep, Charges

LEMMA NextWalks == WalkInv /\ [Next]_vars => WalkStep
<1> SUFFICES ASSUME WalkInv, [Next]_vars PROVE WalkStep
  OBVIOUS
<1>1. CASE UNCHANGED <<inflight, walkVars>>
  BY <1>1 DEF WalkStep, walkVars
<1>2. ASSUME NEW b \in Backends, CooldownEnds(b) \/ FailureAges(b) PROVE WalkStep
  BY <1>1, <1>2 DEF CooldownEnds, FailureAges
<1>3. ASSUME NEW p \in Prefixes, AffinityAges(p) PROVE WalkStep
  BY <1>1, <1>3 DEF AffinityAges
<1> QED
  BY <1>1, <1>2, <1>3, EnterWalks, SlotWalks, TryWalks, CancelledWalks DEF Next, vars, poolVars

-----------------------------------------------------------------------------
(***************************************************************************)
(* The invariant is inductive.                                             *)
(***************************************************************************)
PoolOK ==
    /\ fails \in [Backends -> Nat] /\ cooled \subseteq Backends
    /\ affinity \in [Prefixes -> Backends \cup {NoBackend}]

LEMMA PoolStep == WalkInv /\ [Next]_vars => PoolOK'
<1> SUFFICES ASSUME WalkInv, [Next]_vars PROVE PoolOK'
  OBVIOUS
<1> USE DEF WalkInv
<1>1. CASE UNCHANGED <<fails, cooled, affinity>>
  BY <1>1 DEF TypeOK, PoolOK
<1>2. ASSUME NEW c \in Calls, NEW o \in Outcomes, TryEnds(c, o) PROVE PoolOK'
  <2>1. order[c] \in Seq(Backends) /\ at[c] \in DOMAIN order[c] /\ prefix[c] \in Prefixes
    BY <1>2 DEF TryEnds, TypeOK, WalkOK, Walking
  <2>2. Here(c) \in Backends
    BY <2>1 DEF Here
  <2>3. FailsAfter(Here(c), o) \in Nat
    BY <2>2 DEF FailsAfter, TypeOK
  <2>4. /\ fails' = [fails EXCEPT ![Here(c)] = FailsAfter(Here(c), o)]
        /\ cooled' = IF Trips(Here(c), o) THEN cooled \cup {Here(c)} ELSE cooled
        /\ affinity' = IF Kind(Here(c), o) = "complete" THEN [affinity EXCEPT ![prefix[c]] = Here(c)] ELSE affinity
    BY <1>2, Zenon DEF TryEnds, Here
  <2> QED
    BY <2>1, <2>2, <2>3, <2>4 DEF PoolOK, TypeOK
<1>3. ASSUME NEW c \in Calls, Enter(c) \/ SlotFrees(c) \/ Cancelled(c) PROVE PoolOK'
  BY <1>1, <1>3 DEF Enter, SlotFrees, Cancelled
<1>4. ASSUME NEW b \in Backends, CooldownEnds(b) \/ FailureAges(b) PROVE PoolOK'
  <2>1. CASE CooldownEnds(b)
    BY <2>1 DEF CooldownEnds, TypeOK, PoolOK
  <2>2. CASE FailureAges(b)
    BY <2>2 DEF FailureAges, TypeOK, PoolOK
  <2> QED
    BY <1>4, <2>1, <2>2
<1>5. ASSUME NEW p \in Prefixes, AffinityAges(p) PROVE PoolOK'
  BY <1>5 DEF AffinityAges, TypeOK, PoolOK
<1> QED
  BY <1>1, <1>2, <1>3, <1>4, <1>5 DEF Next, vars, poolVars

\* An answer ends the walk.
LEMMA AnswersStep ==
    ASSUME WalkInv, NEW c \in Calls, Charges(c), Answers(c), UNCHANGED <<size, prefix>>, PoolOK'
    PROVE  WalkInv'
<1> USE DEF WalkInv
<1>1. PICK r \in Replies : Answered(c, r) /\ (sawReply'[c] => r \notin {"queued", "fault", "no_backend"})
  BY DEF Answers
<1>2. PICK saw \in BOOLEAN : sawReply' = [sawReply EXCEPT ![c] = saw]
  BY DEF Charges
<1>3. Without(c, inflight')
  BY DEF Answers
<1>4. TypeOK'
  <2>1. NoFloor \in [n : Nat, room : Int, strict : {"none", "n", "room"}]
    BY DEF NoFloor
  <2>2. inflight' \in [Backends -> Nat] /\ sawReply' \in [Calls -> BOOLEAN]
    BY <1>2, <1>3 DEF Without, TypeOK
  <2>3. pc' \in [Calls -> {"idle", "wait", "try", "done"}] /\ reply' \in [Calls -> Replies]
    BY <1>1 DEF Answered, TypeOK
  <2>4. order' \in [Calls -> Seq(Backends)] /\ at' \in [Calls -> Nat]
    <3>1. order' = [order EXCEPT ![c] = <<>>] /\ at' = [at EXCEPT ![c] = 0]
      BY <1>1 DEF Answered
    <3>2. order \in [Calls -> Seq(Backends)] /\ at \in [Calls -> Nat] /\ <<>> \in Seq(Backends)
      BY DEF TypeOK
    <3> QED
      BY <3>1, <3>2
  <2>5. tried' \in [Calls -> Seq([b : Backends, end : Ends])]
    <3>1. tried' = [tried EXCEPT ![c] = <<>>]
      BY <1>1 DEF Answered
    <3>2. tried \in [Calls -> Seq(Entry)]
      BY DEF TypeOK, Entry
    <3>3. tried' \in [Calls -> Seq(Entry)]
      BY <3>1, <3>2
    <3> QED
      BY <3>3 DEF Entry
  <2>6. floor' \in [Calls -> [n : Nat, room : Int, strict : {"none", "n", "room"}]]
    BY <1>1, <2>1 DEF Answered, TypeOK
  <2> QED
    BY <2>2, <2>3, <2>4, <2>5, <2>6 DEF TypeOK, PoolOK
<1>5. WalkOK'
  BY <1>1, <1>2 DEF WalkOK, Walking, Answered, TypeOK
<1>6. PathOK' /\ WaitOK'
  <2>1. ~Walking(c)'
    BY <1>1 DEF Walking, Answered, TypeOK
  <2>2. ASSUME NEW d \in Calls, d # c
        PROVE  /\ pc'[d] = pc[d] /\ order'[d] = order[d] /\ at'[d] = at[d]
               /\ floor'[d] = floor[d] /\ tried'[d] = tried[d] /\ size'[d] = size[d]
    BY <1>1, <2>2 DEF Answered, TypeOK
  <2>3. PathOK'
    BY <2>1, <2>2 DEF PathOK, Walking
  <2>4. WaitOK'
    BY <2>1, <2>2 DEF WaitOK, Walking
  <2> QED
    BY <2>3, <2>4
<1>7. SlotsAccounted'
  <2>1. \A b \in Backends : Trying(b)' = Trying(b) \ {c}
    BY <1>1 DEF Trying, Answered, TypeOK
  <2> QED
    BY <1>3, <2>1 DEF SlotsAccounted, Without
<1>8. PaidIsNotRepeated'
  BY <1>1, <1>2 DEF PaidIsNotRepeated, Answered, TypeOK
<1>9. NeverSmaller'
  BY <1>1 DEF NeverSmaller, Answered, TypeOK
<1> QED
  BY <1>4, <1>5, <1>6, <1>7, <1>8, <1>9

\* A walk goes on to a backend that fits.
LEMMA GoesOnStep ==
    ASSUME WalkInv, NEW c \in Calls, Charges(c), GoesOn(c), UNCHANGED <<size, prefix>>, PoolOK'
    PROVE  WalkInv'
<1> USE DEF WalkInv
<1>1. PICK q \in Seq(Backends), n \in Nat, f \in Floors, h \in [Calls -> Seq(Entry)],
           s \in [Backends -> Nat] :
        /\ Fits(c, q, n, f, h) /\ Without(c, s)
        /\ reply[c] = "none" /\ UNCHANGED reply /\ floor' = [floor EXCEPT ![c] = f]
        /\ \/ Stand(c, q, n, "wait") /\ inflight' = s /\ tried' = h
           \/ /\ Stand(c, q, n, "try") /\ ~Full(q[n], s)
              /\ inflight' = [s EXCEPT ![q[n]] = @ + 1]
              /\ tried' = [h EXCEPT ![c] = Append(@, [b |-> q[n], end |-> "open"])]
  BY DEF GoesOn
<1>2. PICK saw \in BOOLEAN : sawReply' = [sawReply EXCEPT ![c] = saw]
  BY DEF Charges
<1> DEFINE e == [b |-> q[n], end |-> "open"]
           st == pc'[c]
<1>3. /\ st \in {"wait", "try"} /\ Stand(c, q, n, st)
      /\ st = "wait" => inflight' = s /\ tried' = h
      /\ st = "try" => /\ ~Full(q[n], s) /\ inflight' = [s EXCEPT ![q[n]] = @ + 1]
                       /\ tried' = [h EXCEPT ![c] = Append(@, e)]
  BY <1>1 DEF Stand, TypeOK
<1>4. n \in DOMAIN q /\ q[n] \in Backends /\ e \in Entry /\ h[c] \in Seq(Entry)
  <2>1. n \in DOMAIN q
    BY <1>1 DEF Fits
  <2>2. q[n] \in Backends
    BY <2>1
  <2>3. [b |-> q[n], end |-> "open"] \in Entry
    BY <2>2 DEF Entry, Ends
  <2>4. e \in Entry
    BY <2>3 DEF e
  <2> QED
    BY <2>1, <2>2, <2>4
<1> HIDE DEF st, e
\* What changes for c, and that nothing does for the others.
<1>5. /\ pc'[c] = st /\ order'[c] = q /\ at'[c] = n /\ floor'[c] = f /\ size'[c] = size[c]
      /\ tried'[c] = IF st = "try" THEN Append(h[c], e) ELSE h[c]
  BY <1>1, <1>3 DEF Stand, TypeOK, st
<1>6. ASSUME NEW d \in Calls, d # c
      PROVE  /\ pc'[d] = pc[d] /\ order'[d] = order[d] /\ at'[d] = at[d] /\ floor'[d] = floor[d]
             /\ tried'[d] = tried[d] /\ size'[d] = size[d] /\ sawReply'[d] = sawReply[d]
             /\ reply'[d] = reply[d]
  <2>1. pc'[d] = pc[d] /\ order'[d] = order[d] /\ at'[d] = at[d]
    BY <1>3, <1>6 DEF Stand, TypeOK
  <2>2. floor' = [floor EXCEPT ![c] = f] /\ reply' = reply
    BY <1>1
  <2>3. floor'[d] = floor[d] /\ size'[d] = size[d] /\ sawReply'[d] = sawReply[d]
        /\ reply'[d] = reply[d]
    BY <1>2, <1>6, <2>2 DEF TypeOK
  <2>4. h \in [Calls -> Seq(Entry)] /\ h[d] = tried[d]
    BY <1>1, <1>6 DEF Fits
  <2>5. tried' = h \/ tried' = [h EXCEPT ![c] = Append(@, e)]
    BY <1>3
  <2>6. tried'[d] = tried[d]
    BY <1>6, <2>4, <2>5
  <2> QED
    BY <2>1, <2>3, <2>6
<1>7. /\ Len(h[c]) \in Nat /\ DOMAIN h[c] = 1..Len(h[c])
      /\ st = "wait" => tried'[c] = h[c]
      /\ st = "try" => /\ DOMAIN tried'[c] = 1..(Len(h[c]) + 1) /\ Len(tried'[c]) = Len(h[c]) + 1
                       /\ tried'[c][Len(h[c]) + 1] = e
                       /\ \A i \in 1..Len(h[c]) : tried'[c][i] = h[c][i]
  BY <1>4, <1>5
<1>8. e.b = q[n] /\ e.end = "open"
  BY DEF e
<1>9. TypeOK'
  <2>1. inflight' \in [Backends -> Nat] /\ sawReply' \in [Calls -> BOOLEAN] /\ reply' \in [Calls -> Replies]
    <3>1. inflight' \in [Backends -> Nat]
      <4>1. s \in [Backends -> Nat]
        BY <1>1 DEF Without
      <4>2. [s EXCEPT ![q[n]] = @ + 1] \in [Backends -> Nat]
        BY <1>4, <4>1
      <4> QED
        BY <1>3, <4>1, <4>2
    <3>2. sawReply' \in [Calls -> BOOLEAN]
      BY <1>2 DEF TypeOK
    <3>3. reply' \in [Calls -> Replies]
      BY <1>1 DEF TypeOK
    <3> QED
      BY <3>1, <3>2, <3>3
  <2>2. pc' \in [Calls -> {"idle", "wait", "try", "done"}] /\ at' \in [Calls -> Nat]
    BY <1>3 DEF Stand, TypeOK
  <2>3. order' \in [Calls -> Seq(Backends)]
    BY <1>3 DEF Stand, TypeOK
  <2>4. tried' \in [Calls -> Seq([b : Backends, end : Ends])]
    <3>1. Append(h[c], e) \in Seq(Entry)
      BY <1>4
    <3>2. tried' \in [Calls -> Seq(Entry)]
      BY <1>3, <3>1
    <3> QED
      BY <3>2 DEF Entry
  <2>5. floor' \in [Calls -> [n : Nat, room : Int, strict : {"none", "n", "room"}]]
    <3>1. floor' = [floor EXCEPT ![c] = f] /\ floor \in [Calls -> Floors]
      BY <1>1 DEF TypeOK, Floors
    <3> QED
      BY <3>1 DEF Floors
  <2>6. size' \in [Calls -> Sizes] /\ prefix' \in [Calls -> Prefixes]
    BY DEF TypeOK
  <2> QED
    BY <2>1, <2>2, <2>3, <2>4, <2>5, <2>6 DEF TypeOK, PoolOK
<1>10. WalkOK'
  <2>1. /\ n \in DOMAIN q /\ \A i, j \in DOMAIN q : q[i] = q[j] => i = j
        /\ st = "try" => tried'[c] # <<>> /\ tried'[c][Len(tried'[c])] = e
    BY <1>1, <1>4, <1>7 DEF Fits
  <2>2. reply'[c] = "none" /\ st # "idle"
    BY <1>1, <1>3
  <2> SUFFICES ASSUME NEW d \in Calls
      PROVE  /\ pc'[d] \in {"wait", "try"} => at'[d] \in DOMAIN order'[d]
             /\ \A i, j \in DOMAIN order'[d] : order'[d][i] = order'[d][j] => i = j
             /\ pc'[d] = "idle" => ~sawReply'[d] /\ tried'[d] = <<>>
             /\ pc'[d] # "done" => reply'[d] = "none"
             /\ pc'[d] = "try" => /\ tried'[d] # <<>>
                                  /\ tried'[d][Len(tried'[d])] = [b |-> order'[d][at'[d]], end |-> "open"]
    BY DEF WalkOK, Walking
  <2>3. CASE d = c
    BY <1>3, <1>5, <2>1, <2>2, <2>3 DEF e
  <2>4. CASE d # c
    <3>1. /\ pc'[d] = pc[d] /\ order'[d] = order[d] /\ at'[d] = at[d] /\ floor'[d] = floor[d]
          /\ tried'[d] = tried[d] /\ size'[d] = size[d] /\ sawReply'[d] = sawReply[d]
          /\ reply'[d] = reply[d]
      BY <1>6, <2>4
    <3> QED
      BY <3>1, <2>4 DEF WalkOK, Walking
  <2> QED
    BY <2>3, <2>4
<1>11. PathOK'
  <2>1. ASSUME NEW i \in DOMAIN tried'[c]
        PROVE  /\ \E m \in 1..n : q[m] = tried'[c][i].b
               /\ \A x \in Backends : MeetsFloors(x, size[c], f) => NotSmaller(tried'[c][i], x, size[c])
    <3>1. CASE i \in DOMAIN h[c]
      <4>1. tried'[c][i] = h[c][i]
        BY <1>3, <1>7, <3>1
      <4> QED
        BY <1>1, <3>1, <4>1 DEF Fits
    <3>2. CASE i \notin DOMAIN h[c]
      <4>1. tried'[c][i] = e
        BY <1>3, <1>7, <3>2
      <4>2. n \in 1..n
        BY <1>4
      <4> QED
        BY <1>8, <4>1, <4>2 DEF NotSmaller
    <3> QED
      BY <3>1, <3>2
  <2>2. \A d \in Calls \ {c} : Walking(d)' = Walking(d)
    BY <1>6 DEF Walking
  <2> SUFFICES ASSUME NEW d \in Calls, Walking(d)', NEW i \in DOMAIN tried'[d]
      PROVE  /\ \E m \in 1..at'[d] : order'[d][m] = tried'[d][i].b
             /\ \A b \in Backends :
                  MeetsFloors(b, size'[d], floor'[d]) => NotSmaller(tried'[d][i], b, size'[d])
    BY DEF PathOK
  <2>3. CASE d = c
    BY <1>5, <2>1, <2>3
  <2>4. CASE d # c
    <3>1. /\ pc'[d] = pc[d] /\ order'[d] = order[d] /\ at'[d] = at[d] /\ floor'[d] = floor[d]
          /\ tried'[d] = tried[d] /\ size'[d] = size[d] /\ sawReply'[d] = sawReply[d]
          /\ reply'[d] = reply[d]
      BY <1>6, <2>4
    <3> QED
      BY <3>1, <2>4, <2>2 DEF PathOK
  <2> QED
    BY <2>3, <2>4
<1>12. WaitOK'
  <2>1. ASSUME st = "wait", NEW i \in DOMAIN h[c]
        PROVE  h[c][i].b # q[n] /\ NotSmaller(h[c][i], q[n], size[c])
    <3>1. PICK m \in 1..(n - 1) : q[m] = h[c][i].b
      BY <1>1 DEF Fits
    <3>2. m \in DOMAIN q /\ m # n
      BY <1>4
    <3>3. q[m] # q[n]
      BY <1>1, <1>4, <3>2 DEF Fits
    <3> QED
      BY <1>1, <3>1, <3>3 DEF Fits
  <2> SUFFICES ASSUME NEW d \in Calls, pc'[d] = "wait", NEW i \in DOMAIN tried'[d]
      PROVE  /\ tried'[d][i].b # order'[d][at'[d]]
             /\ NotSmaller(tried'[d][i], order'[d][at'[d]], size'[d])
    BY DEF WaitOK
  <2>2. CASE d = c
    BY <1>5, <1>7, <2>1, <2>2
  <2>3. CASE d # c
    <3>1. /\ pc'[d] = pc[d] /\ order'[d] = order[d] /\ at'[d] = at[d] /\ floor'[d] = floor[d]
          /\ tried'[d] = tried[d] /\ size'[d] = size[d] /\ sawReply'[d] = sawReply[d]
          /\ reply'[d] = reply[d]
      BY <1>6, <2>3
    <3> QED
      BY <3>1, <2>3 DEF WaitOK
  <2> QED
    BY <2>2, <2>3
<1>13. NeverSmaller'
  <2>1. ASSUME NEW i \in DOMAIN tried'[c], NEW j \in DOMAIN tried'[c], i < j
        PROVE  /\ tried'[c][i].b # tried'[c][j].b
               /\ NotSmaller(tried'[c][i], tried'[c][j].b, size[c])
    <3>1. CASE j \in DOMAIN h[c]
      <4>1. i \in DOMAIN h[c] /\ tried'[c][i] = h[c][i] /\ tried'[c][j] = h[c][j]
        BY <1>3, <1>7, <2>1, <3>1
      <4> QED
        BY <1>1, <2>1, <3>1, <4>1 DEF Fits
    <3>2. CASE j \notin DOMAIN h[c]
      <4>1. i \in DOMAIN h[c] /\ tried'[c][i] = h[c][i] /\ tried'[c][j] = e
        <5> DEFINE l == Len(h[c])
        <5>1. st = "try"
          BY <1>3, <1>7, <2>1, <3>2
        <5>2. /\ l \in Nat /\ DOMAIN h[c] = 1..l /\ DOMAIN tried'[c] = 1..(l + 1)
              /\ tried'[c][l + 1] = e /\ \A k \in 1..l : tried'[c][k] = h[c][k]
          BY <1>7, <5>1
        <5> HIDE DEF l
        <5>3. i \in 1..(l + 1) /\ j \in 1..(l + 1) /\ j \notin 1..l /\ i < j
          BY <2>1, <3>2, <5>2
        <5>4. j = l + 1 /\ i \in 1..l
          BY <5>2, <5>3
        <5> QED
          BY <5>2, <5>4
      <4>2. PICK m \in 1..(n - 1) : q[m] = h[c][i].b
        BY <1>1, <4>1 DEF Fits
      <4>3. m \in DOMAIN q /\ m # n
        BY <1>4
      <4>4. q[m] # q[n]
        BY <1>1, <1>4, <4>3 DEF Fits
      <4>5. NotSmaller(h[c][i], q[n], size[c])
        BY <1>1, <4>1 DEF Fits
      <4> QED
        BY <1>8, <4>1, <4>2, <4>4, <4>5
    <3> QED
      BY <3>1, <3>2
  <2> SUFFICES ASSUME NEW d \in Calls, NEW i \in DOMAIN tried'[d], NEW j \in DOMAIN tried'[d], i < j
      PROVE  /\ tried'[d][i].b # tried'[d][j].b
             /\ NotSmaller(tried'[d][i], tried'[d][j].b, size'[d])
    BY DEF NeverSmaller
  <2>2. CASE d = c
    BY <1>5, <2>1, <2>2
  <2>3. CASE d # c
    <3>1. /\ pc'[d] = pc[d] /\ order'[d] = order[d] /\ at'[d] = at[d] /\ floor'[d] = floor[d]
          /\ tried'[d] = tried[d] /\ size'[d] = size[d] /\ sawReply'[d] = sawReply[d]
          /\ reply'[d] = reply[d]
      BY <1>6, <2>3
    <3> QED
      BY <3>1, <2>3 DEF NeverSmaller
  <2> QED
    BY <2>2, <2>3
<1>14. PaidIsNotRepeated'
  BY <1>1, <1>6 DEF PaidIsNotRepeated
<1>15. SlotsAccounted'
  <2> SUFFICES ASSUME NEW b \in Backends
               PROVE  /\ inflight'[b] = Cardinality(Trying(b)')
                      /\ b \in DOMAIN Cap => inflight'[b] <= Cap[b]
    BY DEF SlotsAccounted
  <2>1. s[b] = Cardinality(Trying(b) \ {c}) /\ s[b] \in Nat /\ (b \in DOMAIN Cap => s[b] <= Cap[b])
    BY <1>1 DEF Without
  <2>2. CASE st = "try" /\ b = q[n]
    <3>1. Trying(b)' = (Trying(b) \ {c}) \cup {c}
      BY <1>5, <1>6, <2>2 DEF Trying
    <3>2. IsFiniteSet(Trying(b) \ {c})
      <4>1. Trying(b) \ {c} \in SUBSET Calls
        BY DEF Trying
      <4> QED
        BY <4>1, FS_Subset, BackendAssumption
    <3>3. Cardinality(Trying(b)') = Cardinality(Trying(b) \ {c}) + 1
      BY <3>1, <3>2, FS_AddElement
    <3>4. inflight'[b] = s[b] + 1
      BY <1>1, <1>3, <2>2
    <3>5. b \in DOMAIN Cap => s[b] < Cap[b]
      BY <1>3, <2>1, <2>2, BackendAssumption DEF Full
    <3>6. b \in DOMAIN Cap => Cap[b] \in Nat
      BY BackendAssumption
    <3> QED
      BY <2>1, <3>3, <3>4, <3>5, <3>6
  <2>3. CASE ~(st = "try" /\ b = q[n])
    <3>1. Trying(b)' = Trying(b) \ {c}
      BY <1>3, <1>5, <1>6, <2>3 DEF Trying
    <3>2. inflight'[b] = s[b]
      BY <1>1, <1>3, <1>4, <2>3
    <3> QED
      BY <2>1, <3>1, <3>2
  <2> QED
    BY <2>2, <2>3
<1> QED
  BY <1>9, <1>10, <1>11, <1>12, <1>13, <1>14, <1>15

\* A step of the pool alone.
LEMMA BesideStep ==
    ASSUME WalkInv, UNCHANGED <<inflight, walkVars>>, PoolOK'
    PROVE  WalkInv'
<1> USE DEF WalkInv, walkVars
<1>1. TypeOK'
  BY DEF TypeOK, PoolOK
<1>2. WalkOK' /\ PaidIsNotRepeated'
  BY DEF WalkOK, Walking, PaidIsNotRepeated
<1>3. \A b \in Backends : Trying(b)' = Trying(b)
  BY DEF Trying
<1>4. SlotsAccounted'
  BY <1>3 DEF SlotsAccounted
<1>5. PathOK'
  BY DEF PathOK, Walking
<1>6. WaitOK' /\ NeverSmaller'
  BY DEF WaitOK, NeverSmaller
<1> QED
  BY <1>1, <1>2, <1>4, <1>5, <1>6

LEMMA WalkInvStep == WalkInv /\ [Next]_vars => WalkInv'
  BY NextWalks, PoolStep, AnswersStep, GoesOnStep, BesideStep DEF WalkStep

LEMMA WalkInit == Init => WalkInv
<1> SUFFICES ASSUME Init PROVE WalkInv
  OBVIOUS
<1>1. TypeOK
  <2>1. NoFloor \in [n : Nat, room : Int, strict : {"none", "n", "room"}]
    BY DEF NoFloor
  <2> QED
    BY <2>1 DEF Init, TypeOK, Replies
<1>2. SlotsAccounted
  <2>1. \A b \in Backends : Trying(b) = {}
    BY DEF Init, Trying
  <2>2. \A b \in DOMAIN Cap : Cap[b] \in Nat
    BY BackendAssumption
  <2>3. \A b \in Backends : inflight[b] = 0
    BY DEF Init
  <2>4. Cardinality({}) = 0
    BY FS_EmptySet
  <2> QED
    BY <2>1, <2>2, <2>3, <2>4 DEF SlotsAccounted
<1>3. WalkOK /\ PathOK /\ WaitOK /\ PaidIsNotRepeated /\ NeverSmaller
  BY DEF Init, WalkOK, PathOK, WaitOK, PaidIsNotRepeated, NeverSmaller, Walking
<1> QED
  BY <1>1, <1>2, <1>3 DEF WalkInv

LEMMA WalkThroughout == Spec => []WalkInv
  BY WalkInit, WalkInvStep, PTL DEF Spec

-----------------------------------------------------------------------------
\* The state of the chat route is of the types declared for it.
THEOREM RouterTypes == Spec => []TypeOK
<1>1. WalkInv => TypeOK
  BY DEF WalkInv
<1> QED
  BY <1>1, WalkThroughout, PTL

\* _acquire_llm_slot, _release_llm_slot: _llm_inflight counts exactly the tries that
\* are at a backend and stays within its max_inflight, for any number of walks.
THEOREM SlotsAreAccounted == Spec => []SlotsAccounted
<1>1. WalkInv => SlotsAccounted
  BY DEF WalkInv
<1> QED
  BY <1>1, WalkThroughout, PTL

\* _walk_llm: once a try of a walk may have been charged, the walk is not answered
\* with a reply that sends the daemon round again.
THEOREM PaidNotRepeated == Spec => []PaidIsNotRepeated
<1>1. WalkInv => PaidIsNotRepeated
  BY DEF WalkInv
<1> QED
  BY <1>1, WalkThroughout, PTL

\* _walk_llm, _meets_floors: a walk asks each backend once, and after a context refusal
\* or a cut-off reply only backends with a larger window or more room, for any pool.
THEOREM LaterIsNotSmaller == Spec => []NeverSmaller
<1>1. WalkInv => NeverSmaller
  BY DEF WalkInv
<1> QED
  BY <1>1, WalkThroughout, PTL

=============================================================================
