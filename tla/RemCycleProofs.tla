--------------------------- MODULE RemCycleProofs ---------------------------
(***************************************************************************)
(* Proofs about the REM daemon, for any records, pools and batch size: it  *)
(* pays once for a record, heeds the backlog, and loses no record between  *)
(* the graph, the outbox row and the backlog.                              *)
(***************************************************************************)
EXTENDS RemCycle, Integers, FiniteSetTheorems, TLAPS

\* The tasks as records; what the fields are is Typed's.
Ops == {"batch", "call", "yield", "result", "mark", "clear", "withhold"}
Args == (SUBSET Facts) \cup {"pick", "again", "none"} \cup BOOLEAN \cup [reason : Reasons, paid : BOOLEAN]
TaskTypes == [op : Ops, r : Records \cup {NoRow}, arg : Args]

RemI == RemInv /\ todo \in Seq(TaskTypes)

\* Tasks over the records S in an order that fits between lo and hi.
Fits(q, S, lo, hi) ==
    /\ q \in Seq(TaskTypes) /\ Orderly(q)
    /\ \A i \in DOMAIN q : Of(q[i]) \subseteq S /\ lo <= Rank(q[i]) /\ Rank(q[i]) <= hi

-----------------------------------------------------------------------------
LEMMA RankIsNumber == \A t : Rank(t) \in 0..2
  BY DEF Rank

\* The elements of a concatenation are those of its parts.
LEMMA Joined ==
    ASSUME NEW T, NEW p \in Seq(T), NEW q \in Seq(T)
    PROVE  /\ p \o q \in Seq(T) /\ DOMAIN (p \o q) = 1..(Len(p) + Len(q))
           /\ \A i \in DOMAIN p : i \in DOMAIN (p \o q) /\ (p \o q)[i] = p[i]
           /\ \A i \in DOMAIN q : Len(p) + i \in DOMAIN (p \o q) /\ (p \o q)[Len(p) + i] = q[i]
           /\ \A i \in DOMAIN (p \o q) :
                 \/ i \in DOMAIN p /\ (p \o q)[i] = p[i]
                 \/ i > Len(p) /\ i - Len(p) \in DOMAIN q /\ (p \o q)[i] = q[i - Len(p)]
<1>1. /\ p \o q \in Seq(T) /\ Len(p \o q) = Len(p) + Len(q)
      /\ \A i \in 1..(Len(p) + Len(q)) : (p \o q)[i] = IF i <= Len(p) THEN p[i] ELSE q[i - Len(p)]
  OBVIOUS
<1>2. /\ DOMAIN (p \o q) = 1..(Len(p) + Len(q)) /\ DOMAIN p = 1..Len(p) /\ DOMAIN q = 1..Len(q)
      /\ Len(p) \in Nat /\ Len(q) \in Nat
  BY <1>1
<1> QED
  BY <1>1, <1>2

LEMMA FitsJoin ==
    ASSUME NEW S, NEW T, S \cap T = {}, NEW lo \in Int, NEW m \in Int, NEW hi \in Int, lo <= m, m <= hi,
           NEW p, Fits(p, S, lo, m), NEW q, Fits(q, T, m, hi)
    PROVE  Fits(p \o q, S \cup T, lo, hi)
<1> DEFINE w == p \o q
<1>1. p \in Seq(TaskTypes) /\ q \in Seq(TaskTypes)
  BY DEF Fits
<1>2. /\ w \in Seq(TaskTypes)
      /\ \A i \in DOMAIN w :
            \/ i \in DOMAIN p /\ w[i] = p[i]
            \/ i > Len(p) /\ i - Len(p) \in DOMAIN q /\ w[i] = q[i - Len(p)]
  BY <1>1, Joined
<1>3. \A i \in DOMAIN w : i \in Int /\ \A j \in DOMAIN p : j \in Int /\ j <= Len(p)
  BY <1>1, <1>2
<1> HIDE DEF w
<1>4. ASSUME NEW i \in DOMAIN w
      PROVE  Of(w[i]) \subseteq S \cup T /\ lo <= Rank(w[i]) /\ Rank(w[i]) <= hi
  <2>1. CASE i \in DOMAIN p /\ w[i] = p[i]
    <3>1. Of(w[i]) \subseteq S /\ lo <= Rank(w[i]) /\ Rank(w[i]) <= m
      BY <2>1 DEF Fits
    <3> QED
      BY <3>1, RankIsNumber
  <2>2. CASE i - Len(p) \in DOMAIN q /\ w[i] = q[i - Len(p)]
    <3>1. Of(w[i]) \subseteq T /\ m <= Rank(w[i]) /\ Rank(w[i]) <= hi
      BY <2>2 DEF Fits
    <3> QED
      BY <3>1, RankIsNumber
  <2> QED
    BY <1>2, <2>1, <2>2
<1>5. ASSUME NEW i \in DOMAIN w, NEW j \in DOMAIN w, i < j
      PROVE  Rank(w[i]) <= Rank(w[j]) /\ Of(w[i]) \cap Of(w[j]) = {}
  <2>1. CASE i \in DOMAIN p /\ w[i] = p[i] /\ j \in DOMAIN p /\ w[j] = p[j]
    BY <1>5, <2>1 DEF Fits, Orderly
  <2>2. CASE i \in DOMAIN p /\ w[i] = p[i] /\ j - Len(p) \in DOMAIN q /\ w[j] = q[j - Len(p)]
    <3>1. Of(w[i]) \subseteq S /\ Of(w[j]) \subseteq T /\ Rank(w[i]) <= m /\ m <= Rank(w[j])
      BY <2>2 DEF Fits
    <3> QED
      BY <3>1, RankIsNumber
  <2>3. CASE /\ i - Len(p) \in DOMAIN q /\ w[i] = q[i - Len(p)]
             /\ j - Len(p) \in DOMAIN q /\ w[j] = q[j - Len(p)]
    <3>1. i - Len(p) < j - Len(p)
      BY <1>1, <1>3, <1>5
    <3> QED
      BY <2>3, <3>1 DEF Fits, Orderly
  <2>4. ~(i > Len(p) /\ j \in DOMAIN p)
    BY <1>1, <1>3, <1>5
  <2> QED
    BY <1>2, <2>1, <2>2, <2>3, <2>4
<1> QED
  BY <1>2, <1>4, <1>5 DEF Fits, Orderly, w

\* Tasks lists each record of a set once.
LEMMA TasksList ==
    ASSUME NEW S \in SUBSET Records, NEW op \in Ops \ {"batch"}, NEW arg \in Args
    PROVE  /\ Tasks(op, S, arg) \in Seq(TaskTypes)
           /\ \A i \in DOMAIN Tasks(op, S, arg) : \E r \in S : Tasks(op, S, arg)[i] = Task(op, r, arg)
           /\ \A r \in S : \E i \in DOMAIN Tasks(op, S, arg) : Tasks(op, S, arg)[i] = Task(op, r, arg)
           /\ \A i, j \in DOMAIN Tasks(op, S, arg) :
                 i # j => Tasks(op, S, arg)[i].r # Tasks(op, S, arg)[j].r
<1> DEFINE n == Cardinality(S)
           f == SetToSeq(S)
           q == Tasks(op, S, arg)
<1>1. IsFiniteSet(S)
  BY RemAssumption, FS_Subset
<1>2. n \in Nat /\ ExistsBijection(1..n, S)
  BY <1>1, FS_CardinalityType
<1>3. \E g \in [1..n -> S] : IsInjective(g)
  BY <1>2 DEF ExistsBijection, Bijection, Injection, IsInjective
<1>4. f \in [1..n -> S] /\ IsInjective(f)
  BY <1>3 DEF SetToSeq
<1>5. Cardinality(1..n) = n
  BY <1>2, FS_Interval
<1>6. q = [i \in 1..n |-> Task(op, f[i], arg)]
  BY DEF Tasks
<1> HIDE DEF f, q
<1>7. f \in Injection(1..n, S)
  BY <1>4 DEF Injection, IsInjective
<1> HIDE DEF n
<1>8. f \in Surjection(1..n, S)
  <2>1. Cardinality(1..n) = Cardinality(S)
    BY <1>5 DEF n
  <2> QED
    BY <1>1, <1>7, <2>1, FS_Injection
<1>9. \A r \in S : \E i \in 1..n : f[i] = r
  BY <1>8 DEF Surjection
<1>10. \A i \in 1..n : q[i] = Task(op, f[i], arg) /\ f[i] \in S /\ q[i] \in TaskTypes /\ q[i].r = f[i]
  BY <1>4, <1>6 DEF Task, TaskTypes
<1>11. q \in Seq(TaskTypes) /\ DOMAIN q = 1..n
  BY <1>2, <1>6, <1>10
<1>12. \A i, j \in 1..n : i # j => q[i].r # q[j].r
  BY <1>4, <1>10 DEF IsInjective
<1> QED
  BY <1>9, <1>10, <1>11, <1>12 DEF q

LEMMA TasksFit ==
    ASSUME NEW S \in SUBSET Records, NEW op \in Ops \ {"batch"}, NEW arg \in Args, NEW k \in 0..2,
           \A r \in S : Rank(Task(op, r, arg)) = k
    PROVE  Fits(Tasks(op, S, arg), S, k, k)
<1> DEFINE q == Tasks(op, S, arg)
<1>1. /\ q \in Seq(TaskTypes) /\ \A i \in DOMAIN q : \E r \in S : q[i] = Task(op, r, arg)
      /\ \A i, j \in DOMAIN q : i # j => q[i].r # q[j].r
  BY TasksList
<1> HIDE DEF q
<1>2. \A i \in DOMAIN q : q[i].r \in S /\ Of(q[i]) = {q[i].r} /\ Rank(q[i]) = k
  BY <1>1 DEF Task, Of
<1>3. \A i, j \in DOMAIN q : i < j => i # j
  BY <1>1
<1> QED
  BY <1>1, <1>2, <1>3 DEF Fits, Orderly, q

\* One task, or none.
LEMMA OneFits ==
    ASSUME NEW t \in TaskTypes
    PROVE  Fits(<<t>>, Of(t), Rank(t), Rank(t))
<1>1. <<t>> \in Seq(TaskTypes) /\ DOMAIN <<t>> = {1} /\ <<t>>[1] = t
  OBVIOUS
<1> QED
  BY <1>1, RankIsNumber DEF Fits, Orderly

LEMMA NoneFits == ASSUME NEW S, NEW lo, NEW hi PROVE Fits(<< >>, S, lo, hi)
  BY DEF Fits, Orderly

\* A list fits wherever there is more room.
LEMMA FitsWider ==
    ASSUME NEW S, NEW T, S \subseteq T, NEW lo \in Int, NEW hi \in Int, NEW l \in Int, NEW h \in Int, l <= lo, hi <= h,
           NEW q, Fits(q, S, lo, hi)
    PROVE  Fits(q, T, l, h)
  BY RankIsNumber DEF Fits

-----------------------------------------------------------------------------
\* Nothing is done to the record r.
Keeps(r) ==
    /\ node'[r].processed = node[r].processed /\ node'[r].invalid = node[r].invalid
    /\ row'[r] = row[r] /\ backlog'[r] = backlog[r]
    /\ (r \in withheld' <=> r \in withheld) /\ charged'[r] = charged[r]

LEMMA KeptIsAskable ==
    ASSUME NEW r \in Records, Keeps(r), gw' = gw, dropped \subseteq dropped'
    PROVE  /\ Askable(r) => Askable(r)'
           /\ Settled(r) <=> Settled(r)'
<1>1. (r \in Blocked <=> r \in Blocked') /\ (r \in EligibleWriteFailed <=> r \in EligibleWriteFailed')
  BY DEF Keeps, Blocked, EligibleWriteFailed, Eligible
<1> QED
  BY <1>1 DEF Keeps, Askable, Settled

LEMMA KeptStands ==
    ASSUME NEW t, Stands(t), \A r \in Of(t) : Keeps(r), gw' = gw, dropped \subseteq dropped'
    PROVE  Stands(t)'
<1>1. Typed(t) /\ Of(t) \subseteq Records /\ (t.op # "batch" => t.r \in Of(t))
  BY RemAssumption DEF Stands, Typed, Of
<1>2. Asks(t) => \A r \in Of(t) : Askable(r)'
  BY <1>1, KeptIsAskable DEF Stands
<1>3. \A r \in Of(t) : row'[r] # "pending"
  BY DEF Stands, Keeps
<1>4. t.op # "batch" => node'[t.r].processed = node[t.r].processed /\ row'[t.r] = row[t.r]
  BY <1>1 DEF Keeps
<1> QED
  BY <1>1, <1>2, <1>3, <1>4 DEF Stands, Typed

\* The queue, seen from its head.
LEMMA HeadAndTail ==
    ASSUME RemI, pc = "cycle"
    PROVE  /\ 1 \in DOMAIN todo /\ Head(todo) = todo[1] /\ Head(todo) \in TaskTypes /\ Stands(Head(todo))
           /\ Tail(todo) \in Seq(TaskTypes) /\ DOMAIN todo = 1..Len(todo)
           /\ \A i \in DOMAIN Tail(todo) : i + 1 \in DOMAIN todo /\ Tail(todo)[i] = todo[i + 1]
           /\ \A i \in DOMAIN todo \ {1} : i - 1 \in DOMAIN Tail(todo) /\ Tail(todo)[i - 1] = todo[i]
           /\ \A i \in DOMAIN todo \ {1} : /\ Of(todo[i]) \cap Of(Head(todo)) = {}
                                           /\ Rank(Head(todo)) <= Rank(todo[i])
<1>1. todo \in Seq(TaskTypes) /\ todo # << >> /\ Orderly(todo) /\ \A i \in DOMAIN todo : Stands(todo[i])
  BY DEF RemI, RemInv, QueueStands
<1>2. /\ 1 \in DOMAIN todo /\ Head(todo) = todo[1] /\ DOMAIN todo = 1..Len(todo) /\ Len(todo) \in Nat
      /\ Tail(todo) \in Seq(TaskTypes) /\ Len(Tail(todo)) = Len(todo) - 1
      /\ \A i \in 1..(Len(todo) - 1) : Tail(todo)[i] = todo[i + 1]
  BY <1>1
<1>3. DOMAIN Tail(todo) = 1..(Len(todo) - 1)
  BY <1>2
<1>4. \A i \in DOMAIN todo \ {1} : i \in Int /\ 1 < i
  BY <1>2
<1>5. \A i \in DOMAIN todo \ {1} : Of(todo[i]) \cap Of(todo[1]) = {} /\ Rank(todo[1]) <= Rank(todo[i])
  BY <1>1, <1>2, <1>4 DEF Orderly
<1> QED
  BY <1>1, <1>2, <1>3, <1>4, <1>5

\* The tail fits behind the head.
LEMMA TailFits ==
    ASSUME RemI, pc = "cycle"
    PROVE  \E S \in SUBSET (Records \ Of(Head(todo))) : Fits(Tail(todo), S, Rank(Head(todo)), 2)
<1> DEFINE q == Tail(todo)
           S == Records \ Of(Head(todo))
<1>1. q \in Seq(TaskTypes) /\ \A i \in DOMAIN q : i + 1 \in DOMAIN todo /\ q[i] = todo[i + 1] /\ i \in Int /\ i >= 1
  BY HeadAndTail
<1> HIDE DEF q
<1>2. \A i \in DOMAIN todo : Of(todo[i]) \subseteq Records
  BY RemAssumption DEF RemI, RemInv, QueueStands, Stands, Typed
<1>3. \A i \in DOMAIN q : Of(q[i]) \subseteq S /\ Rank(Head(todo)) <= Rank(q[i]) /\ Rank(q[i]) <= 2
  BY <1>1, <1>2, HeadAndTail, RankIsNumber
<1>4. Orderly(q)
  <2> SUFFICES ASSUME NEW i \in DOMAIN q, NEW j \in DOMAIN q, i < j
               PROVE  Rank(q[i]) <= Rank(q[j]) /\ Of(q[i]) \cap Of(q[j]) = {}
    BY DEF Orderly
  <2>1. i + 1 \in DOMAIN todo /\ j + 1 \in DOMAIN todo /\ i + 1 < j + 1 /\ q[i] = todo[i + 1] /\ q[j] = todo[j + 1]
    BY <1>1
  <2> QED
    BY <2>1 DEF RemI, RemInv, QueueStands, Orderly
<1>5. Fits(q, S, Rank(Head(todo)), 2)
  BY <1>1, <1>3, <1>4 DEF Fits
<1> QED
  BY <1>5 DEF q

\* How the step that ends a task leaves a record of it, with the tasks that follow.
Ends(r, more) ==
    /\ r \notin dropped /\ charged'[r] > 0 =>
          charged'[r] = 1 /\ (Settled(r)' \/ \E i \in DOMAIN more : more[i].r = r /\ Settles(more[i]))
    /\ node'[r].processed => row'[r] # "pending"
    /\ node'[r].processed /\ ~node'[r].invalid /\ row'[r] = "applied" =>
          \/ backlog'[r] # NoRow \/ r \in withheld' \cup cutShort
          \/ \E i \in DOMAIN more : more[i].r = r

QueueInv == QueueStands /\ PaidIsSettled /\ MarkedWasApplied /\ NothingVanishes /\ todo \in Seq(TaskTypes)

\* The head of the queue is replaced by tasks of its records, and nobody else's are touched.
LEMMA TaskStep ==
    ASSUME RemI, pc = "cycle", NEW h, h = Head(todo), NEW more, Goes(more), Fits(more, Of(h), 0, Rank(h)),
           \A r \in Records \ Of(h) : Keeps(r), UNCHANGED <<gw, dropped, cutShort>>,
           \A i \in DOMAIN more : Stands(more[i])', \A r \in Of(h) : Ends(r, more)
    PROVE  QueueInv'
<1>1. PICK S \in SUBSET (Records \ Of(h)) : Fits(Tail(todo), S, Rank(h), 2)
  BY TailFits
<1>2. todo' = more \o Tail(todo) /\ (pc' = IF todo' = << >> THEN "idle" ELSE "cycle")
  BY DEF Goes
<1>3. more \in Seq(TaskTypes) /\ Tail(todo) \in Seq(TaskTypes) /\ h \in TaskTypes
  BY HeadAndTail DEF Fits
<1>4. Fits(todo', Of(h) \cup S, 0, 2)
  <2>1. Of(h) \cap S = {} /\ Rank(h) \in Int /\ 0 <= Rank(h) /\ Rank(h) <= 2
    BY RankIsNumber
  <2>2. Fits(more \o Tail(todo), Of(h) \cup S, 0, 2)
    BY <1>1, <2>1, FitsJoin
  <2> QED
    BY <1>2, <2>2
<1>5. /\ todo' \in Seq(TaskTypes)
      /\ \A i \in DOMAIN more : \E j \in DOMAIN todo' : todo'[j] = more[i]
      /\ \A i \in DOMAIN Tail(todo) : \E j \in DOMAIN todo' : todo'[j] = Tail(todo)[i]
      /\ \A j \in DOMAIN todo' :
            (\E i \in DOMAIN more : todo'[j] = more[i]) \/ \E i \in DOMAIN Tail(todo) : todo'[j] = Tail(todo)[i]
  <2> DEFINE q == Tail(todo)
             w == more \o q
  <2>0. more \in Seq(TaskTypes) /\ q \in Seq(TaskTypes)
    BY <1>3
  <2> HIDE DEF q
  <2>1. /\ w \in Seq(TaskTypes)
        /\ \A i \in DOMAIN more : i \in DOMAIN w /\ w[i] = more[i]
        /\ \A i \in DOMAIN q : Len(more) + i \in DOMAIN w /\ w[Len(more) + i] = q[i]
        /\ \A i \in DOMAIN w :
              \/ i \in DOMAIN more /\ w[i] = more[i]
              \/ i > Len(more) /\ i - Len(more) \in DOMAIN q /\ w[i] = q[i - Len(more)]
    BY <2>0, Joined
  <2>2. todo' = w
    BY <1>2 DEF q
  <2> HIDE DEF w
  <2> SUFFICES /\ w \in Seq(TaskTypes)
               /\ \A i \in DOMAIN more : \E j \in DOMAIN w : w[j] = more[i]
               /\ \A i \in DOMAIN q : \E j \in DOMAIN w : w[j] = q[i]
               /\ \A j \in DOMAIN w :
                     (\E i \in DOMAIN more : w[j] = more[i]) \/ \E i \in DOMAIN q : w[j] = q[i]
    BY <2>2 DEF q
  <2> QED
    BY <2>1
<1>6. ASSUME NEW i \in DOMAIN todo \ {1} PROVE \E j \in DOMAIN todo' : todo'[j] = todo[i]
  <2>1. i - 1 \in DOMAIN Tail(todo) /\ Tail(todo)[i - 1] = todo[i]
    BY HeadAndTail
  <2> QED
    BY <1>5, <2>1
<1>7. ASSUME NEW j \in DOMAIN todo' PROVE Stands(todo[j])'
  <2>1. CASE \E i \in DOMAIN more : todo'[j] = more[i]
    <3>1. PICK i \in DOMAIN more : todo'[j] = more[i]
      BY <2>1
    <3>2. PICK t : t = more[i]
      OBVIOUS
    <3>3. Stands(t)'
      BY <3>2
    <3> QED
      BY <3>1, <3>2, <3>3 DEF Stands, Typed, Asks, Askable
  <2>2. CASE \E i \in DOMAIN Tail(todo) : todo'[j] = Tail(todo)[i]
    <3>1. PICK i \in DOMAIN Tail(todo) : todo'[j] = Tail(todo)[i]
      BY <2>2
    <3>2. PICK t : t = Tail(todo)[i]
      OBVIOUS
    <3>3. i + 1 \in DOMAIN todo /\ t = todo[i + 1]
      BY <3>2, HeadAndTail
    <3>4. Stands(t)
      BY <3>3 DEF RemI, RemInv, QueueStands
    <3>5. Of(t) \subseteq S
      BY <1>1, <3>2 DEF Fits
    <3>6. Stands(t)'
      BY <3>4, <3>5, KeptStands
    <3> QED
      BY <3>1, <3>2, <3>6 DEF Stands, Typed, Asks, Askable
  <2> QED
    BY <1>5, <2>1, <2>2
<1>8. QueueStands'
  <2>1. Orderly(todo)'
    BY <1>4 DEF Fits, Orderly
  <2>2. (pc' = "cycle") <=> (todo' # << >>)
    BY <1>2
  <2> QED
    BY <1>7, <2>1, <2>2 DEF QueueStands
<1>9. ASSUME NEW r \in Records \ Of(h), NEW i \in DOMAIN todo, todo[i].r = r
      PROVE  \E j \in DOMAIN todo' : todo'[j] = todo[i]
  <2>1. i # 1
    BY <1>9, HeadAndTail, NoRowAssumption DEF Stands, Typed, Of
  <2> QED
    BY <1>6, <2>1
<1>10. ASSUME NEW r \in Records, r \notin dropped, charged'[r] > 0
       PROVE  charged'[r] = 1 /\ (Settled(r)' \/ \E j \in DOMAIN todo' : todo'[j].r = r /\ Settles(todo'[j]))
  <2>1. CASE r \in Of(h)
    <3>1. charged'[r] = 1 /\ (Settled(r)' \/ \E i \in DOMAIN more : more[i].r = r /\ Settles(more[i]))
      BY <1>10, <2>1 DEF Ends
    <3> QED
      BY <1>5, <3>1
  <2>2. CASE r \notin Of(h)
    <3>1. Keeps(r) /\ charged[r] > 0
      BY <1>10, <2>2 DEF Keeps
    <3>2. charged[r] = 1 /\ (Settled(r) \/ \E i \in DOMAIN todo : todo[i].r = r /\ Settles(todo[i]))
      BY <1>10, <3>1 DEF RemI, RemInv, PaidIsSettled
    <3>3. Settled(r) => Settled(r)'
      BY <3>1, KeptIsAskable
    <3> QED
      BY <1>9, <2>2, <3>1, <3>2, <3>3 DEF Keeps
  <2> QED
    BY <2>1, <2>2
<1>11. PaidIsSettled'
  BY <1>10 DEF PaidIsSettled, Settles
<1>12. MarkedWasApplied'
  BY DEF MarkedWasApplied, RemI, RemInv, Keeps, Ends
<1>13. ASSUME NEW r \in Records, node'[r].processed, ~node'[r].invalid, row'[r] = "applied"
       PROVE  \/ backlog'[r] # NoRow \/ r \in withheld' \cup cutShort'
              \/ \E j \in DOMAIN todo' : todo'[j].r = r
  <2>1. CASE r \in Of(h)
    BY <1>5, <1>13, <2>1 DEF Ends
  <2>2. CASE r \notin Of(h)
    <3>1. Keeps(r)
      BY <2>2
    <3>2. backlog[r] # NoRow \/ r \in withheld \cup cutShort \/ \E i \in DOMAIN todo : todo[i].r = r
      BY <1>13, <3>1 DEF Keeps, RemI, RemInv, NothingVanishes
    <3> QED
      BY <1>9, <2>2, <3>1, <3>2 DEF Keeps
  <2> QED
    BY <2>1, <2>2
<1>14. NothingVanishes'
  BY <1>13 DEF NothingVanishes
<1> QED
  BY <1>5, <1>8, <1>11, <1>12, <1>14 DEF QueueInv

\* The task at work.
LEMMA HeadDoes ==
    ASSUME RemI, NEW op \in Ops, Doing(op), NEW h, h = Head(todo)
    PROVE  /\ pc = "cycle" /\ h.op = op /\ h \in TaskTypes /\ Stands(h) /\ Typed(h) /\ Of(h) \subseteq Records
           /\ op # "batch" => h.r \in Records /\ Of(h) = {h.r}
           /\ \A r \in Of(h) : row[r] # "pending"
           /\ \A r \in Of(h) \ dropped : charged[r] > 0 => charged[r] = 1
<1>1. pc = "cycle" /\ h.op = op
  BY DEF Doing
<1>2. h \in TaskTypes /\ Stands(h)
  BY <1>1, HeadAndTail
<1>3. Of(h) \subseteq Records
  BY <1>2, RemAssumption DEF Stands, Typed
<1>4. \A r \in Of(h) : row[r] # "pending"
  BY <1>2 DEF Stands
<1>5. Typed(h) /\ (op # "batch" => Of(h) = {h.r})
  BY <1>1, <1>2 DEF Stands, Of
<1>6. \A r \in Of(h) \ dropped : charged[r] > 0 => charged[r] = 1
  BY <1>3 DEF RemI, RemInv, PaidIsSettled
<1> QED
  BY <1>1, <1>2, <1>3, <1>4, <1>5, <1>6

\* A task makes way for another of the same record, or for none.
LEMMA OneStep ==
    ASSUME RemI, pc = "cycle", NEW h, h = Head(todo), h.op # "batch", h.r \in Records,
           NEW t \in TaskTypes, Goes(<<t>>), t.op # "batch", t.r = h.r, Rank(t) <= Rank(h),
           \A r \in Records \ {h.r} : Keeps(r), UNCHANGED <<gw, dropped, cutShort>>, Stands(t)',
           h.r \notin dropped /\ charged'[h.r] > 0 => charged'[h.r] = 1 /\ (Settled(h.r)' \/ Settles(t))
    PROVE  QueueInv'
<1>1. Of(h) = {h.r} /\ Of(t) = Of(h)
  BY DEF Of
<1>2. Fits(<<t>>, Of(h), 0, Rank(h))
  <2>1. Fits(<<t>>, Of(t), Rank(t), Rank(t)) /\ Rank(t) \in Int /\ Rank(h) \in Int /\ 0 <= Rank(t)
    BY OneFits, RankIsNumber
  <2> QED
    BY <1>1, <2>1, FitsWider
<1> DEFINE q == <<t>>
<1>3. DOMAIN q = {1} /\ q[1] = t
  OBVIOUS
<1>4. Fits(q, Of(h), 0, Rank(h)) /\ Goes(q)
  BY <1>2
<1> HIDE DEF q
<1>5. row'[h.r] # "pending"
  BY <1>1 DEF Stands
<1>6. \A r \in Of(h) : Ends(r, q)
  BY <1>1, <1>3, <1>5 DEF Ends
<1>7. \A i \in DOMAIN q : Stands(q[i])'
  BY <1>3
<1> QED
  BY <1>1, <1>4, <1>6, <1>7, TaskStep

LEMMA LastStep ==
    ASSUME RemI, pc = "cycle", NEW h, h = Head(todo), h.op # "batch", h.r \in Records, Goes(<< >>),
           \A r \in Records \ {h.r} : Keeps(r), UNCHANGED <<gw, dropped, cutShort>>,
           row'[h.r] # "pending",
           h.r \notin dropped /\ charged'[h.r] > 0 => charged'[h.r] = 1 /\ Settled(h.r)',
           node'[h.r].processed /\ ~node'[h.r].invalid /\ row'[h.r] = "applied" =>
               backlog'[h.r] # NoRow \/ h.r \in withheld' \cup cutShort
    PROVE  QueueInv'
<1>1. Of(h) = {h.r}
  BY DEF Of
<1> DEFINE q == << >>
<1>2. Fits(q, Of(h), 0, Rank(h)) /\ Goes(q) /\ DOMAIN q = {}
  BY NoneFits
<1> HIDE DEF q
<1>3. \A r \in Of(h) : Ends(r, q)
  BY <1>1, <1>2 DEF Ends
<1>4. \A i \in DOMAIN q : Stands(q[i])'
  BY <1>2
<1> QED
  BY <1>1, <1>2, <1>3, <1>4, TaskStep

-----------------------------------------------------------------------------
\* When the tasks that may follow stand.
LEMMA WriteStands ==
    ASSUME NEW t, t.op \in {"mark", "clear", "withhold"}, t.r \in Records, row'[t.r] # "pending",
           t.op \in {"mark", "clear"} => node'[t.r].processed,
           t.op = "clear" => row'[t.r] = "rem_reviewed",
           t.op = "withhold" => /\ t.arg.reason \in Reasons /\ t.arg.paid \in BOOLEAN
                                /\ ~t.arg.paid => ~node'[t.r].processed
    PROVE  Stands(t)' /\ Rank(t) = 0 /\ (t.op \in {"mark", "clear"} \/ t.arg.paid => Settles(t))
<1>1. Of(t) = {t.r} /\ ~Asks(t) /\ t.op # "result" /\ t.op # "batch"
  BY DEF Of, Asks
<1>2. Typed(t)
  BY <1>1 DEF Typed
<1>3. Rank(t) = 0 /\ (t.op \in {"mark", "clear"} \/ t.arg.paid => Settles(t))
  BY DEF Rank, Settles
<1>4. Stands(t)'
  BY <1>1, <1>2 DEF Stands, Of, Asks, Typed
<1> QED
  BY <1>3, <1>4

LEMMA ResultStands ==
    ASSUME NEW t, t.op = "result", t.r \in Records, t.arg \in BOOLEAN, row'[t.r] # "pending",
           ~node'[t.r].processed
    PROVE  Stands(t)' /\ Rank(t) = 1 /\ Settles(t)
<1>1. Of(t) = {t.r} /\ ~Asks(t) /\ t.op # "batch" /\ t.op \notin {"mark", "clear", "withhold"}
  BY DEF Of, Asks
<1>2. Typed(t)
  BY <1>1 DEF Typed
<1>3. Rank(t) = 1 /\ Settles(t)
  BY DEF Rank, Settles
<1>4. Stands(t)'
  BY <1>1, <1>2 DEF Stands, Of, Asks, Typed
<1> QED
  BY <1>3, <1>4

LEMMA CallStands ==
    ASSUME NEW t, t.op \in {"call", "yield"}, t.r \in Records, row'[t.r] # "pending", Askable(t.r)'
    PROVE  Stands(t)' /\ Rank(t) = IF t.op = "call" THEN 1 ELSE 2
<1>1. Of(t) = {t.r} /\ Asks(t) /\ t.op \notin {"batch", "result", "mark", "clear", "withhold"}
  BY DEF Of, Asks
<1>2. Typed(t)
  BY <1>1 DEF Typed
<1>3. Rank(t) = IF t.op = "call" THEN 1 ELSE 2
  BY DEF Rank
<1>4. Stands(t)'
  BY <1>1, <1>2 DEF Stands, Of, Asks, Typed
<1> QED
  BY <1>3, <1>4

LEMMA PaidReason ==
    ASSUME NEW a, NEW why \in Reasons, a = [reason |-> why, paid |-> TRUE]
    PROVE  a \in [reason : Reasons, paid : BOOLEAN] /\ a.paid /\ a.paid \in BOOLEAN /\ a.reason = why
<1>1. a \in [reason : Reasons, paid : BOOLEAN]
  OBVIOUS
<1>2. a.paid
  OBVIOUS
<1>3. a.reason = why
  OBVIOUS
<1> QED
  BY <1>1, <1>2, <1>3

LEMMA PaidWithholdStands ==
    ASSUME NEW r \in Records, NEW why \in Reasons, row'[r] # "pending",
           NEW t, t = Task("withhold", r, [reason |-> why, paid |-> TRUE])
    PROVE  t \in TaskTypes /\ t.op = "withhold" /\ t.r = r /\ Stands(t)' /\ Rank(t) = 0 /\ Settles(t)
<1>1. t.op = "withhold" /\ t.r = r /\ t.arg = [reason |-> why, paid |-> TRUE]
  BY DEF Task
<1>2. t.arg \in [reason : Reasons, paid : BOOLEAN] /\ t.arg.paid /\ t.arg.paid \in BOOLEAN /\ t.arg.reason = why
  BY <1>1, PaidReason
<1>3. t \in TaskTypes
  <2>1. t.arg \in Args
    BY <1>2 DEF Args
  <2> QED
    BY <1>1, <2>1 DEF Task, TaskTypes, Ops
<1> QED
  BY <1>1, <1>2, <1>3, WriteStands

LEMMA MarkStep ==
    ASSUME RemI, NEW marked \in BOOLEAN, NEW reverted \in BOOLEAN, MarkRow(marked, reverted)
    PROVE  QueueInv'
<1>1. PICK h : h = Head(todo)
  OBVIOUS
<1> DEFINE r == h.r
<1>2. /\ pc = "cycle" /\ h.op = "mark" /\ r \in Records /\ row[r] # "pending" /\ node[r].processed
      /\ r \notin dropped /\ charged[r] > 0 => charged[r] = 1
  <2>1. Doing("mark")
    BY DEF MarkRow
  <2> QED
    BY <1>1, <2>1, HeadDoes DEF Ops, Stands
<1>3. /\ node \in [Records -> [processed : BOOLEAN, invalid : BOOLEAN, superseded : BOOLEAN, passed : Nat]]
      /\ row \in [Records -> {"pending", "applied", "rem_reviewed"}]
  BY DEF RemI, RemInv, TypeOK
<1>4. UNCHANGED <<backlog, gw, soloOnly, withheld, charged, dropped, cutShort>>
  BY DEF MarkRow, history
<1>5. CASE marked
  <2> DEFINE t == Task("clear", r, "none")
  <2>1. Goes(<<t>>) /\ row' = [row EXCEPT ![r] = IF @ = "applied" THEN "rem_reviewed" ELSE @] /\ node' = node
    BY <1>1, <1>5 DEF MarkRow
  <2>2. t \in TaskTypes /\ t.op = "clear" /\ t.r = r
    BY <1>2 DEF Task, TaskTypes, Ops, Args
  <2>3. row'[r] = "rem_reviewed" /\ \A x \in Records \ {r} : Keeps(x)
    BY <1>2, <1>3, <1>4, <2>1 DEF Keeps
  <2> HIDE DEF t
  <2>4. Stands(t)' /\ Rank(t) <= Rank(h) /\ Settles(t)
    BY <1>2, <2>1, <2>2, <2>3, WriteStands, RankIsNumber
  <2> QED
    BY <1>1, <1>2, <1>4, <2>1, <2>2, <2>3, <2>4, OneStep
<1>6. CASE ~marked
  <2>1. PICK t : t = Task("withhold", r, [reason |-> "write_failed", paid |-> TRUE])
    OBVIOUS
  <2>2. /\ Goes(<<t>>) /\ row' = row
        /\ node' = IF reverted /\ ~node[r].invalid THEN [node EXCEPT ![r].processed = FALSE] ELSE node
    BY <1>1, <1>6, <2>1 DEF MarkRow
  <2>3. row'[r] # "pending" /\ \A x \in Records \ {r} : Keeps(x)
    BY <1>2, <1>3, <1>4, <2>2 DEF Keeps
  <2>4. t \in TaskTypes /\ t.op = "withhold" /\ t.r = r /\ Stands(t)' /\ Rank(t) = 0 /\ Settles(t)
    BY <1>2, <2>1, <2>3, PaidWithholdStands DEF Reasons
  <2>5. Rank(t) <= Rank(h)
    BY <2>4, RankIsNumber
  <2> QED
    BY <1>1, <1>2, <1>4, <2>2, <2>3, <2>4, <2>5, OneStep
<1> QED
  BY <1>5, <1>6

LEMMA ApplyStep ==
    ASSUME RemI, NEW written \in BOOLEAN, ApplyResult(written)
    PROVE  QueueInv'
<1>1. PICK h : h = Head(todo)
  OBVIOUS
<1> DEFINE r == h.r
<1>2. /\ pc = "cycle" /\ h.op = "result" /\ r \in Records /\ row[r] # "pending" /\ ~node[r].processed
      /\ r \notin dropped /\ charged[r] > 0 => charged[r] = 1
  <2>1. Doing("result")
    BY DEF ApplyResult
  <2> QED
    BY <1>1, <2>1, HeadDoes DEF Ops, Stands
<1>3. node \in [Records -> [processed : BOOLEAN, invalid : BOOLEAN, superseded : BOOLEAN, passed : Nat]]
  BY DEF RemI, RemInv, TypeOK
<1>4. UNCHANGED <<row, backlog, gw, soloOnly, withheld, charged, dropped, cutShort>>
  BY DEF ApplyResult, history
<1>5. Rank(h) = 1
  BY <1>2 DEF Rank
<1>6. ASSUME NEW why \in Reasons, NEW t, t = Task("withhold", r, [reason |-> why, paid |-> TRUE]),
             Goes(<<t>>), node' = node
      PROVE  QueueInv'
  <2>1. row'[r] # "pending" /\ \A x \in Records \ {r} : Keeps(x)
    BY <1>2, <1>4, <1>6 DEF Keeps
  <2>2. t \in TaskTypes /\ t.op = "withhold" /\ t.r = r /\ Stands(t)' /\ Rank(t) = 0 /\ Settles(t)
    BY <1>2, <1>6, <2>1, PaidWithholdStands
  <2>3. Rank(t) <= Rank(h)
    BY <1>5, <2>2
  <2> QED
    BY <1>1, <1>2, <1>4, <1>6, <2>1, <2>2, <2>3, OneStep
<1>7. CASE ~h.arg
  <2>1. PICK t : t = Task("withhold", r, [reason |-> "unparseable", paid |-> TRUE])
    OBVIOUS
  <2>2. Goes(<<t>>) /\ node' = node
    BY <1>1, <1>7, <2>1 DEF ApplyResult
  <2> QED
    BY <1>6, <2>1, <2>2 DEF Reasons
<1>8. CASE h.arg /\ ~written
  <2>1. PICK t : t = Task("withhold", r, [reason |-> "write_failed", paid |-> TRUE])
    OBVIOUS
  <2>2. Goes(<<t>>) /\ node' = node
    BY <1>1, <1>8, <2>1 DEF ApplyResult
  <2> QED
    BY <1>6, <2>1, <2>2 DEF Reasons
<1>9. CASE h.arg /\ written
  <2>1. PICK t : t = Task("mark", r, "none")
    OBVIOUS
  <2>2. Goes(<<t>>) /\ node' = [node EXCEPT ![r].processed = TRUE]
    BY <1>1, <1>9, <2>1 DEF ApplyResult
  <2>3. t \in TaskTypes /\ t.op = "mark" /\ t.r = r
    BY <1>2, <2>1 DEF Task, TaskTypes, Ops, Args
  <2>4. node'[r].processed /\ row'[r] # "pending" /\ \A x \in Records \ {r} : Keeps(x)
    BY <1>2, <1>3, <1>4, <2>2 DEF Keeps
  <2>5. Stands(t)' /\ Rank(t) = 0 /\ Settles(t)
    BY <1>2, <2>3, <2>4, WriteStands
  <2>6. Rank(t) <= Rank(h)
    BY <1>5, <2>5
  <2> QED
    BY <1>1, <1>2, <1>4, <2>2, <2>3, <2>4, <2>5, <2>6, OneStep
<1> QED
  BY <1>7, <1>8, <1>9

LEMMA ClearStep ==
    ASSUME RemI, NEW deleted \in BOOLEAN, ClearBacklog(deleted)
    PROVE  QueueInv'
<1>1. PICK h : h = Head(todo)
  OBVIOUS
<1> DEFINE r == h.r
<1>2. /\ pc = "cycle" /\ h.op = "clear" /\ r \in Records /\ row[r] = "rem_reviewed" /\ node[r].processed
      /\ r \notin dropped /\ charged[r] > 0 => charged[r] = 1
  <2>1. Doing("clear")
    BY DEF ClearBacklog
  <2> QED
    BY <1>1, <2>1, HeadDoes DEF Ops, Stands
<1>3. UNCHANGED <<node, row, gw, soloOnly, charged, dropped, cutShort>> /\ Goes(<< >>)
  BY DEF ClearBacklog, history
<1>4. backlog \in [Records -> [reason : Reasons, id : Identities] \cup {NoRow}]
  BY DEF RemI, RemInv, TypeOK
<1>5. IF deleted THEN backlog' = [backlog EXCEPT ![r] = NoRow] /\ withheld' = withheld
      ELSE withheld' = withheld \cup {r} /\ backlog' = backlog
  BY <1>1 DEF ClearBacklog
<1>6. \A x \in Records \ {r} : Keeps(x)
  BY <1>3, <1>4, <1>5 DEF Keeps
<1>7. Settled(r)'
  <2>1. CASE deleted
    <3>1. backlog'[r] = NoRow
      BY <1>2, <1>4, <1>5, <2>1
    <3> QED
      BY <1>2, <1>3, <3>1 DEF Settled, EligibleWriteFailed
  <2>2. CASE ~deleted
    BY <1>5, <2>2 DEF Settled
  <2> QED
    BY <2>1, <2>2
<1> QED
  BY <1>1, <1>2, <1>3, <1>6, <1>7, LastStep

\* A row that was just written keeps its record back.
LEMMA FreshRowBlocks ==
    ASSUME NEW r \in Records, NEW why \in Reasons, gw \in Identities, gw' = gw,
           backlog'[r] = [reason |-> why, id |-> gw]
    PROVE  backlog'[r] # NoRow /\ r \in Blocked'
<1>1. PICK b : b = backlog'[r]
  OBVIOUS
<1>2. b \in [reason : Reasons, id : Identities] /\ b.reason = why /\ b.id = gw
  BY <1>1
<1>3. b # NoRow
  BY <1>2, NoRowAssumption
<1>4. Ctx[gw.pool] \in Nat /\ Reply[gw.pool] \in Nat
  BY RemAssumption DEF Identities
<1>5. ~Eligible(b, gw)
  BY <1>2, <1>4 DEF Eligible
<1> QED
  BY <1>1, <1>3, <1>5 DEF Blocked, Eligible

LEMMA WriteBacklogStep ==
    ASSUME RemI, NEW written \in BOOLEAN, WriteBacklog(written)
    PROVE  QueueInv'
<1>1. PICK h : h = Head(todo)
  OBVIOUS
<1> DEFINE r == h.r
<1>2. /\ pc = "cycle" /\ h.op = "withhold" /\ r \in Records /\ row[r] # "pending"
      /\ (r \notin dropped /\ charged[r] > 0 => charged[r] = 1)
      /\ h.arg.reason \in Reasons /\ h.arg.paid \in BOOLEAN /\ (~h.arg.paid => ~node[r].processed)
  <2>1. Doing("withhold")
    BY DEF WriteBacklog
  <2> QED
    BY <1>1, <2>1, HeadDoes DEF Ops, Stands, Typed
<1>3. UNCHANGED <<node, row, gw, soloOnly, charged, dropped, cutShort>> /\ Goes(<< >>)
  BY DEF WriteBacklog, history
<1>4. backlog \in [Records -> [reason : Reasons, id : Identities] \cup {NoRow}] /\ gw \in Identities
  BY DEF RemI, RemInv, TypeOK
<1>5. IF written THEN backlog' = [backlog EXCEPT ![r] = [reason |-> h.arg.reason, id |-> gw]] /\ withheld' = withheld
      ELSE withheld' = (IF h.arg.paid THEN withheld \cup {r} ELSE withheld) /\ backlog' = backlog
  BY <1>1 DEF WriteBacklog, WithheldIfUnwritten
<1>6. \A x \in Records \ {r} : Keeps(x)
  BY <1>3, <1>4, <1>5 DEF Keeps
<1>7. CASE written
  <2>1. backlog'[r] = [reason |-> h.arg.reason, id |-> gw]
    BY <1>2, <1>4, <1>5, <1>7
  <2>2. backlog'[r] # NoRow /\ r \in Blocked'
    BY <1>2, <1>3, <1>4, <2>1, FreshRowBlocks
  <2>3. Settled(r)'
    BY <2>2 DEF Settled
  <2> QED
    BY <1>1, <1>2, <1>3, <1>6, <2>2, <2>3, LastStep
<1>8. CASE ~written /\ h.arg.paid
  <2>1. r \in withheld' /\ Settled(r)'
    BY <1>5, <1>8 DEF Settled
  <2> QED
    BY <1>1, <1>2, <1>3, <1>6, <2>1, LastStep
<1>9. CASE ~written /\ ~h.arg.paid
  <2>1. Keeps(r)
    BY <1>3, <1>5, <1>9 DEF Keeps
  <2>2. ASSUME r \notin dropped, charged[r] > 0 PROVE Settled(r)
    <3>1. Settled(r) \/ \E i \in DOMAIN todo : todo[i].r = r /\ Settles(todo[i])
      BY <1>2, <2>2 DEF RemI, RemInv, PaidIsSettled
    <3>2. ASSUME NEW i \in DOMAIN todo, todo[i].r = r, Settles(todo[i]) PROVE FALSE
      <4>1. i # 1
        BY <1>1, <1>2, <1>9, <3>2, HeadAndTail DEF Settles
      <4>2. Of(todo[i]) = {r} /\ Of(h) = {r}
        BY <1>2, <3>2 DEF Settles, Of
      <4> QED
        BY <1>1, <1>2, <4>1, <4>2, HeadAndTail
    <3> QED
      BY <3>1, <3>2
  <2>3. Settled(r) => Settled(r)'
    BY <1>2, <1>3, <2>1, KeptIsAskable
  <2> QED
    BY <1>1, <1>2, <1>3, <1>6, <1>9, <2>2, <2>3, LastStep
<1> QED
  BY <1>7, <1>8, <1>9

-----------------------------------------------------------------------------
\* A cycle that is given up, its queue thrown away: what it leaves is accounted for if
\* the records of the queue's results are counted as dropped.
LEMMA QueueGone ==
    ASSUME RemI, todo' = << >>, pc' # "cycle",
           \A r \in Records : node'[r].processed => row'[r] # "pending",
           \A r \in Records \ dropped' : charged'[r] > 0 => charged'[r] = 1 /\ Settled(r)',
           \A r \in Records : node'[r].processed /\ ~node'[r].invalid /\ row'[r] = "applied" =>
               backlog'[r] # NoRow \/ r \in withheld' \cup cutShort'
    PROVE  QueueInv'
<1>1. QueueStands'
  BY DEF QueueStands, Orderly
<1>2. PaidIsSettled' /\ MarkedWasApplied' /\ NothingVanishes'
  BY DEF PaidIsSettled, MarkedWasApplied, NothingVanishes
<1> QED
  BY <1>1, <1>2 DEF QueueInv

\* While the head is a call or a try that yields, nothing in the queue is written yet.
LEMMA NothingIsBeingWritten ==
    ASSUME RemI, pc = "cycle", Rank(Head(todo)) >= 1, NEW r \in Records
    PROVE  /\ \A i \in DOMAIN todo : todo[i].r = r => ~node[r].processed
           /\ \A i \in DOMAIN todo : todo[i].r = r /\ Settles(todo[i]) =>
                 Rank(Head(todo)) = 1 /\ todo[i].op = "result"
<1>1. \A i \in DOMAIN todo : Rank(Head(todo)) <= Rank(todo[i])
  BY HeadAndTail, RankIsNumber
<1>2. ASSUME NEW i \in DOMAIN todo, todo[i].r = r
      PROVE  /\ ~node[r].processed
             /\ Settles(todo[i]) => Rank(Head(todo)) = 1 /\ todo[i].op = "result"
  <2>1. PICK t : t = todo[i]
    OBVIOUS
  <2>2. Stands(t) /\ t.r = r /\ Rank(t) >= 1 /\ Rank(Head(todo)) <= Rank(t)
    BY <1>1, <1>2, <2>1, RankIsNumber DEF RemI, RemInv, QueueStands
  <2>3. t.op \in {"call", "yield", "result"}
    BY <2>2, NoRowAssumption DEF Stands, Typed, Rank
  <2>4. ~node[r].processed
    BY <2>2, <2>3 DEF Stands, Asks, Of, Askable
  <2>5. Settles(t) => t.op = "result" /\ Rank(t) = 1
    BY <2>3 DEF Settles, Rank
  <2>6. Rank(Head(todo)) = 1 \/ Rank(t) # 1
    BY <2>2, RankIsNumber
  <2> QED
    BY <2>1, <2>4, <2>5, <2>6
<1> QED
  BY <1>2

\* LockReacquireFailed: what was sent is withheld and what was paid for is dropped.
LEMMA AbortStep ==
    ASSUME RemI, pc = "cycle", Rank(Head(todo)) = 1, NEW sent, \A r \in sent : Askable(r), AbortsCycle(sent),
           UNCHANGED <<gw, row, cutShort>>,
           \A r \in Records : node'[r].processed = node[r].processed /\ node'[r].invalid = node[r].invalid,
           \A r \in Records \ sent : charged'[r] = charged[r],
           \A r \in sent \ dropped : charged'[r] > 0 => charged'[r] = 1
    PROVE  QueueInv'
<1>1. /\ withheld' = withheld \cup sent /\ todo' = << >> /\ pc' = "idle" /\ backlog' = backlog
      /\ dropped \subseteq dropped'
      /\ \A i \in DOMAIN todo : todo[i].op = "result" => todo[i].r \in dropped'
  BY DEF AbortsCycle
<1>2. \A r \in Records : r \in Blocked' <=> r \in Blocked
  BY <1>1 DEF Blocked, Eligible
<1>3. \A r \in Records : r \in EligibleWriteFailed' <=> r \in EligibleWriteFailed
  BY <1>1 DEF EligibleWriteFailed, Eligible
<1>4. ASSUME NEW r \in Records \ dropped', charged'[r] > 0 PROVE charged'[r] = 1 /\ Settled(r)'
  <2>1. CASE r \in sent
    BY <1>1, <1>4, <2>1 DEF Settled
  <2>2. CASE r \notin sent
    <3>1. charged[r] = 1 /\ (Settled(r) \/ \E i \in DOMAIN todo : todo[i].r = r /\ Settles(todo[i]))
      BY <1>1, <1>4, <2>2 DEF RemI, RemInv, PaidIsSettled
    <3>2. Settled(r)
      BY <1>1, <1>4, <3>1, NothingIsBeingWritten
    <3>3. Settled(r)'
      BY <1>1, <1>2, <1>3, <3>2 DEF Settled
    <3> QED
      BY <1>4, <2>2, <3>1, <3>3
  <2> QED
    BY <2>1, <2>2
<1>5. \A r \in Records : node'[r].processed => row'[r] # "pending"
  BY DEF RemI, RemInv, MarkedWasApplied
<1>6. ASSUME NEW r \in Records, node'[r].processed, ~node'[r].invalid, row'[r] = "applied"
      PROVE  backlog'[r] # NoRow \/ r \in withheld' \cup cutShort'
  <2>1. backlog[r] # NoRow \/ r \in withheld \cup cutShort \/ \E i \in DOMAIN todo : todo[i].r = r
    BY <1>6 DEF RemI, RemInv, NothingVanishes
  <2> QED
    BY <1>1, <1>6, <2>1, NothingIsBeingWritten
<1> QED
  BY <1>1, <1>4, <1>5, <1>6, QueueGone

LEMMA YieldStep ==
    ASSUME RemI, NEW queuing \in BOOLEAN, NEW ok \in BOOLEAN, YieldCheck(queuing, ok)
    PROVE  QueueInv'
<1>1. PICK h : h = Head(todo)
  OBVIOUS
<1> DEFINE r == h.r
<1>2. /\ pc = "cycle" /\ h.op = "yield" /\ h \in TaskTypes /\ r \in Records /\ row[r] # "pending" /\ Askable(r)
      /\ r \notin dropped /\ charged[r] > 0 => charged[r] = 1
  <2>1. Doing("yield")
    BY DEF YieldCheck
  <2> QED
    BY <1>1, <2>1, HeadDoes DEF Ops, Stands, Asks, Of
<1>3. UNCHANGED <<row, backlog, gw, soloOnly, withheld, charged, dropped, cutShort>>
  BY DEF YieldCheck, history
<1>4. node \in [Records -> [processed : BOOLEAN, invalid : BOOLEAN, superseded : BOOLEAN, passed : Nat]]
  BY DEF RemI, RemInv, TypeOK
<1>5. Rank(h) = 2
  BY <1>2 DEF Rank
<1>6. CASE queuing
  <2>1. todo' = << >> /\ pc' = "idle"
    BY <1>6 DEF YieldCheck
  <2>2. \A x \in Records : Keeps(x)
    <3>1. PICK rest : node' = [x \in Records |-> IF x \in rest /\ ok THEN [node[x] EXCEPT !.passed = @ + 1] ELSE node[x]]
      BY <1>6 DEF YieldCheck
    <3> QED
      BY <1>3, <1>4, <3>1 DEF Keeps
  <2>3. ASSUME NEW x \in Records \ dropped', charged'[x] > 0 PROVE charged'[x] = 1 /\ Settled(x)'
    <3>1. charged[x] = 1 /\ (Settled(x) \/ \E i \in DOMAIN todo : todo[i].r = x /\ Settles(todo[i]))
      BY <1>3, <2>3 DEF RemI, RemInv, PaidIsSettled
    <3>2. Settled(x)
      BY <1>1, <1>2, <1>5, <3>1, NothingIsBeingWritten
    <3> QED
      BY <1>3, <2>2, <3>1, <3>2, KeptIsAskable
  <2>4. \A x \in Records : node'[x].processed => row'[x] # "pending"
    BY <1>3, <2>2 DEF Keeps, RemI, RemInv, MarkedWasApplied
  <2>5. ASSUME NEW x \in Records, node'[x].processed, ~node'[x].invalid, row'[x] = "applied"
        PROVE  backlog'[x] # NoRow \/ x \in withheld' \cup cutShort'
    <3>1. /\ node[x].processed
          /\ backlog[x] # NoRow \/ x \in withheld \cup cutShort \/ \E i \in DOMAIN todo : todo[i].r = x
      BY <1>3, <2>2, <2>5 DEF Keeps, RemI, RemInv, NothingVanishes
    <3> QED
      BY <1>1, <1>2, <1>3, <1>5, <3>1, NothingIsBeingWritten
  <2> QED
    BY <2>1, <2>3, <2>4, <2>5, QueueGone
<1>7. CASE ~queuing
  <2>1. PICK t : t = [h EXCEPT !.op = "call"]
    OBVIOUS
  <2>2. todo' = <<t>> \o Tail(todo) /\ node' = node /\ pc' = pc
    BY <1>1, <1>7, <2>1 DEF YieldCheck
  <2>3. t \in TaskTypes /\ t.op = "call" /\ t.r = r
    BY <1>2, <2>1 DEF TaskTypes, Ops
  <2>4. Goes(<<t>>)
    <3>1. Tail(todo) \in Seq(TaskTypes)
      BY <1>2, HeadAndTail
    <3>2. todo' # << >>
      BY <2>2, <2>3, <3>1
    <3> QED
      BY <1>2, <2>2, <3>2 DEF Goes
  <2>5. \A x \in Records : Keeps(x)
    BY <1>3, <2>2 DEF Keeps
  <2>6. Askable(r)' /\ row'[r] # "pending"
    BY <1>2, <1>3, <2>5, KeptIsAskable
  <2>7. Stands(t)' /\ Rank(t) = 1
    BY <1>2, <2>3, <2>6, CallStands
  <2>8. r \notin dropped /\ charged'[r] > 0 => FALSE
    BY <1>2, <1>3 DEF Askable
  <2>9. Rank(t) <= Rank(h)
    BY <1>5, <2>7
  <2> QED
    BY <1>1, <1>2, <1>3, <2>3, <2>4, <2>5, <2>7, <2>8, <2>9, OneStep
<1> QED
  BY <1>6, <1>7

LEMMA SoloStep ==
    ASSUME RemI, NEW a, NEW paid \in BOOLEAN, NEW ok \in BOOLEAN, SoloCall(a, paid, ok)
    PROVE  QueueInv'
<1>1. PICK h : h = Head(todo)
  OBVIOUS
<1> DEFINE r == h.r
<1>2. /\ pc = "cycle" /\ h.op = "call" /\ h \in TaskTypes /\ r \in Records /\ row[r] # "pending" /\ Askable(r)
      /\ Of(h) = {r}
  <2>1. Doing("call")
    BY DEF SoloCall
  <2> QED
    BY <1>1, <2>1, HeadDoes DEF Ops, Stands, Asks, Of
<1>3. UNCHANGED <<row, gw, cutShort>>
  BY DEF SoloCall
<1>4. /\ node \in [Records -> [processed : BOOLEAN, invalid : BOOLEAN, superseded : BOOLEAN, passed : Nat]]
      /\ charged \in [Records -> 0..2]
  BY DEF RemI, RemInv, TypeOK
<1>5. Rank(h) = 1
  BY <1>2 DEF Rank
<1>6. \A x \in Records : node'[x].processed = node[x].processed /\ node'[x].invalid = node[x].invalid
  BY <1>4 DEF SoloCall, Picked
<1>7. charged' = IF r \in Long /\ paid THEN [charged EXCEPT ![r] = Counted(@)] ELSE charged
  BY <1>1 DEF SoloCall
<1>8. /\ \A x \in Records \ {r} : charged'[x] = charged[x]
      /\ ~paid => charged'[r] = charged[r]
      /\ r \notin dropped /\ charged'[r] > 0 => charged'[r] = 1 /\ paid
  BY <1>2, <1>4, <1>7 DEF Counted, Askable
<1>9. ~node'[r].processed /\ row'[r] # "pending"
  BY <1>2, <1>3, <1>6 DEF Askable
<1>10. ASSUME UNCHANGED <<backlog, withheld, dropped>>
       PROVE  \A x \in Records \ {r} : Keeps(x)
  BY <1>3, <1>6, <1>8, <1>10 DEF Keeps
<1>11. ASSUME NEW good \in BOOLEAN, Goes(<<Task("result", r, good)>>), UNCHANGED <<backlog, withheld, dropped>>
       PROVE  QueueInv'
  <2>1. PICK t : t = Task("result", r, good)
    OBVIOUS
  <2>2. t.op = "result" /\ t.r = r /\ t.arg = good /\ t \in TaskTypes
    BY <1>2, <2>1 DEF Task, TaskTypes, Ops, Args
  <2>3. Stands(t)' /\ Rank(t) = 1 /\ Settles(t)
    BY <1>2, <1>9, <2>2, ResultStands
  <2>4. Rank(t) <= Rank(h) /\ Goes(<<t>>)
    BY <1>5, <1>11, <2>1, <2>3
  <2> QED
    BY <1>1, <1>2, <1>3, <1>8, <1>10, <1>11, <2>2, <2>3, <2>4, OneStep
<1>12. ASSUME NEW why \in Reasons, Goes(<<Task("withhold", r, [reason |-> why, paid |-> paid])>>),
              UNCHANGED <<backlog, withheld, dropped>>
       PROVE  QueueInv'
  <2>1. PICK t : t = Task("withhold", r, [reason |-> why, paid |-> paid])
    OBVIOUS
  <2>2. PICK b : b = [reason |-> why, paid |-> paid]
    OBVIOUS
  <2>3. b \in [reason : Reasons, paid : BOOLEAN] /\ b.reason = why /\ (b.paid <=> paid) /\ b.paid \in BOOLEAN
    BY <2>2
  <2>4. t.op = "withhold" /\ t.r = r /\ t.arg = b
    BY <2>1, <2>2 DEF Task
  <2>5. t \in TaskTypes
    BY <1>2, <2>1, <2>2, <2>3 DEF Task, TaskTypes, Ops, Args
  <2>6. Stands(t)' /\ Rank(t) = 0 /\ (paid => Settles(t))
    BY <1>2, <1>9, <2>3, <2>4, WriteStands
  <2>7. Rank(t) <= Rank(h) /\ Goes(<<t>>)
    BY <1>5, <1>12, <2>1, <2>6
  <2> QED
    BY <1>1, <1>2, <1>3, <1>8, <1>10, <1>12, <2>4, <2>5, <2>6, <2>7, OneStep
<1>13. ASSUME ~paid, Goes(<< >>), UNCHANGED <<backlog, withheld, dropped>> PROVE QueueInv'
  BY <1>1, <1>2, <1>3, <1>8, <1>9, <1>10, <1>13, LastStep
<1>14. ASSUME AbortsCycle({r}) PROVE QueueInv'
  <2>1. \A x \in {r} : Askable(x)
    BY <1>2
  <2>2. \A x \in {r} \ dropped : charged'[x] > 0 => charged'[x] = 1
    BY <1>8
  <2> QED
    BY <1>1, <1>2, <1>3, <1>5, <1>6, <1>8, <1>14, <2>1, <2>2, AbortStep
<1>15. \/ ~paid /\ Goes(<< >>) /\ UNCHANGED <<backlog, withheld, dropped>>
       \/ \E good \in BOOLEAN : Goes(<<Task("result", r, good)>>) /\ UNCHANGED <<backlog, withheld, dropped>>
       \/ \E why \in Reasons : /\ Goes(<<Task("withhold", r, [reason |-> why, paid |-> paid])>>)
                               /\ UNCHANGED <<backlog, withheld, dropped>>
       \/ AbortsCycle({r})
  BY <1>1 DEF SoloCall, Reasons
<1> QED
  BY <1>11, <1>12, <1>13, <1>14, <1>15

-----------------------------------------------------------------------------
\* A list of tasks that fit and stand, and what is in it.
Part(q, S, lo, hi) == Fits(q, S, lo, hi) /\ \A i \in DOMAIN q : Stands(q[i])'
Has(q, t) == \E i \in DOMAIN q : q[i] = t

LEMMA PartsJoin ==
    ASSUME NEW S, NEW T, S \cap T = {}, NEW lo \in 0..2, NEW m \in 0..2, NEW hi \in 0..2, lo <= m, m <= hi,
           NEW p, Part(p, S, lo, m), NEW q, Part(q, T, m, hi)
    PROVE  Part(p \o q, S \cup T, lo, hi) /\ \A t : Has(p, t) \/ Has(q, t) => Has(p \o q, t)
<1> DEFINE w == p \o q
<1>1. Fits(w, S \cup T, lo, hi)
  BY FitsJoin DEF Part
<1>2. p \in Seq(TaskTypes) /\ q \in Seq(TaskTypes)
  BY DEF Part, Fits
<1>3. /\ \A i \in DOMAIN p : i \in DOMAIN w /\ w[i] = p[i]
      /\ \A i \in DOMAIN q : Len(p) + i \in DOMAIN w /\ w[Len(p) + i] = q[i]
      /\ \A i \in DOMAIN w :
            \/ i \in DOMAIN p /\ w[i] = p[i]
            \/ i > Len(p) /\ i - Len(p) \in DOMAIN q /\ w[i] = q[i - Len(p)]
  BY <1>2, Joined
<1> HIDE DEF w
<1>4. ASSUME NEW i \in DOMAIN w PROVE Stands(w[i])'
  <2>1. CASE i \in DOMAIN p /\ w[i] = p[i]
    BY <2>1 DEF Part
  <2>2. CASE i - Len(p) \in DOMAIN q /\ w[i] = q[i - Len(p)]
    BY <2>2 DEF Part
  <2> QED
    BY <1>3, <2>1, <2>2
<1>5. \A t : Has(p, t) \/ Has(q, t) => Has(w, t)
  BY <1>3 DEF Has
<1> QED
  BY <1>1, <1>4, <1>5 DEF Part, w

\* The tasks of some records are a part if each of them stands.
LEMMA TasksPart ==
    ASSUME NEW X \in SUBSET Records, NEW op \in Ops \ {"batch"}, NEW arg \in Args, NEW k \in 0..2,
           \A r \in X : Rank(Task(op, r, arg)) = k /\ Stands(Task(op, r, arg))'
    PROVE  Part(Tasks(op, X, arg), X, k, k) /\ \A r \in X : Has(Tasks(op, X, arg), Task(op, r, arg))
<1> DEFINE q == Tasks(op, X, arg)
<1>1. Fits(q, X, k, k)
  BY TasksFit
<1>2. /\ \A i \in DOMAIN q : \E r \in X : q[i] = Task(op, r, arg)
      /\ \A r \in X : \E i \in DOMAIN q : q[i] = Task(op, r, arg)
  BY TasksList
<1> HIDE DEF q
<1>3. ASSUME NEW i \in DOMAIN q PROVE Stands(q[i])'
  BY <1>2
<1> QED
  BY <1>1, <1>2, <1>3 DEF Part, Has, q

LEMMA ResultsPart ==
    ASSUME NEW X \in SUBSET Records, NEW arg \in BOOLEAN,
           \A r \in X : row'[r] # "pending" /\ ~node'[r].processed
    PROVE  /\ Part(Tasks("result", X, arg), X, 1, 1)
           /\ \A r \in X : \E t : Has(Tasks("result", X, arg), t) /\ t.r = r /\ Settles(t)
<1>1. ASSUME NEW r \in X
      PROVE  /\ Stands(Task("result", r, arg))' /\ Rank(Task("result", r, arg)) = 1
             /\ Settles(Task("result", r, arg)) /\ Task("result", r, arg).r = r
  <2>1. PICK t : t = Task("result", r, arg)
    OBVIOUS
  <2>2. t.op = "result" /\ t.r = r /\ t.arg = arg
    BY <2>1 DEF Task
  <2>3. Stands(t)' /\ Rank(t) = 1 /\ Settles(t)
    BY <2>2, ResultStands
  <2> QED
    BY <2>1, <2>2, <2>3
<1>2. "result" \in Ops \ {"batch"} /\ arg \in Args
  BY DEF Ops, Args
<1>3. /\ Part(Tasks("result", X, arg), X, 1, 1)
      /\ \A r \in X : Has(Tasks("result", X, arg), Task("result", r, arg))
  BY <1>1, <1>2, TasksPart
<1> QED
  BY <1>1, <1>3

LEMMA CallsPart ==
    ASSUME NEW X \in SUBSET Records, NEW op \in {"call", "yield"}, NEW arg \in {"pick", "again"},
           \A r \in X : row'[r] # "pending" /\ Askable(r)'
    PROVE  LET k == IF op = "call" THEN 1 ELSE 2 IN Part(Tasks(op, X, arg), X, k, k)
<1> DEFINE k == IF op = "call" THEN 1 ELSE 2
<1>1. ASSUME NEW r \in X
      PROVE  Stands(Task(op, r, arg))' /\ Rank(Task(op, r, arg)) = k
  <2>1. PICK t : t = Task(op, r, arg)
    OBVIOUS
  <2>2. t.op = op /\ t.r = r
    BY <2>1 DEF Task
  <2>3. Stands(t)' /\ Rank(t) = k
    BY <2>2, CallStands
  <2> QED
    BY <2>1, <2>3
<1>2. op \in Ops \ {"batch"} /\ arg \in Args /\ k \in 0..2
  BY DEF Ops, Args
<1> HIDE DEF k
<1>3. Part(Tasks(op, X, arg), X, k, k)
  BY <1>1, <1>2, TasksPart
<1> QED
  BY <1>3 DEF k

LEMMA WithholdsPart ==
    ASSUME NEW X \in SUBSET Records, NEW why \in Reasons, \A r \in X : row'[r] # "pending"
    PROVE  LET q == Tasks("withhold", X, [reason |-> why, paid |-> TRUE])
           IN Part(q, X, 0, 0) /\ \A r \in X : \E t : Has(q, t) /\ t.r = r /\ Settles(t)
<1>0. PICK arg : arg = [reason |-> why, paid |-> TRUE]
  OBVIOUS
<1>1. ASSUME NEW r \in X
      PROVE  /\ Stands(Task("withhold", r, arg))' /\ Rank(Task("withhold", r, arg)) = 0
             /\ Settles(Task("withhold", r, arg)) /\ Task("withhold", r, arg).r = r
  <2>1. PICK t : t = Task("withhold", r, arg)
    OBVIOUS
  <2>2. t.r = r /\ Stands(t)' /\ Rank(t) = 0 /\ Settles(t)
    BY <1>0, <2>1, PaidWithholdStands
  <2> QED
    BY <2>1, <2>2
<1>2. "withhold" \in Ops \ {"batch"} /\ arg \in Args
  BY <1>0 DEF Ops, Args
<1>3. /\ Part(Tasks("withhold", X, arg), X, 0, 0)
      /\ \A r \in X : Has(Tasks("withhold", X, arg), Task("withhold", r, arg))
  BY <1>1, <1>2, TasksPart
<1> QED
  BY <1>0, <1>1, <1>3

-----------------------------------------------------------------------------
\* The batch makes way for tasks of its records that store every reply it was charged.
LEMMA BatchEnds ==
    ASSUME RemI, NEW h, h = Head(todo), Doing("batch"), NEW X \in SUBSET Of(h),
           NEW q, Part(q, X, 0, 1), Goes(q),
           \A r \in Records : node'[r].processed = node[r].processed /\ node'[r].invalid = node[r].invalid,
           UNCHANGED <<row, gw, backlog, withheld, dropped, cutShort>>,
           \A r \in Records \ Of(h) : charged'[r] = charged[r],
           \A r \in Of(h) : r \notin dropped /\ charged'[r] > 0 =>
               charged'[r] = 1 /\ \E t : Has(q, t) /\ t.r = r /\ Settles(t)
    PROVE  QueueInv'
<1>1. pc = "cycle" /\ h.op = "batch" /\ Stands(h) /\ Of(h) \subseteq Records
  BY HeadDoes DEF Ops
<1>2. Rank(h) = 1
  BY <1>1 DEF Rank
<1>3. Fits(q, Of(h), 0, Rank(h)) /\ \A i \in DOMAIN q : Stands(q[i])'
  BY <1>2, FitsWider DEF Part
<1>4. \A r \in Records \ Of(h) : Keeps(r)
  BY DEF Keeps
<1>5. \A r \in Of(h) : ~node[r].processed
  BY <1>1 DEF Stands, Asks, Askable
<1>6. ASSUME NEW r \in Of(h) PROVE Ends(r, q)
  <2>1. r \notin dropped /\ charged'[r] > 0 =>
            charged'[r] = 1 /\ \E i \in DOMAIN q : q[i].r = r /\ Settles(q[i])
    BY DEF Has
  <2>2. ~node'[r].processed
    BY <1>1, <1>5
  <2> QED
    BY <2>1, <2>2 DEF Ends
<1> QED
  BY <1>1, <1>3, <1>4, <1>6, TaskStep

\* Tasks of one rank after others, within a set of records.
LEMMA OnesJoin ==
    ASSUME NEW S, NEW T, NEW U, S \cap T = {}, U = S \cup T, NEW p, NEW q, NEW lo \in {0, 1},
           Part(p, S, lo, 1), Part(q, T, 1, 1)
    PROVE  Part(p \o q, U, lo, 1) /\ \A t : Has(p, t) \/ Has(q, t) => Has(p \o q, t)
<1>1. lo \in 0..2 /\ 1 \in 0..2 /\ lo <= 1 /\ 1 <= 1
  OBVIOUS
<1>2. Part(p \o q, S \cup T, lo, 1) /\ \A t : Has(p, t) \/ Has(q, t) => Has(p \o q, t)
  BY <1>1, PartsJoin
<1> QED
  BY <1>2

\* The tries that yield come last.
LEMMA YieldsJoin ==
    ASSUME NEW S, NEW T, NEW U, S \cap T = {}, U = S \cup T, NEW p, NEW q, Part(p, S, 1, 1), Part(q, T, 2, 2)
    PROVE  Part(p \o q, U, 1, 2)
<1>1. 1 \in Int /\ 2 \in Int /\ 2 <= 2 /\ 1 <= 2 /\ 1 \in 0..2 /\ 2 \in 0..2
  OBVIOUS
<1>2. Fits(p, S, 1, 1)
  BY DEF Part
<1>3. Fits(p, S, 1, 2)
  BY <1>2, RankIsNumber DEF Fits
<1>4. Part(p, S, 1, 2)
  BY <1>3 DEF Part
<1>5. Part(p \o q, S \cup T, 1, 2)
  BY <1>1, <1>4, PartsJoin
<1> QED
  BY <1>5

LEMMA PartWider ==
    ASSUME NEW S, NEW T, S \subseteq T, NEW q, NEW lo \in {0, 1}, NEW hi \in {0, 1}, Part(q, S, lo, hi)
    PROVE  Part(q, T, 0, 1)
<1>1. lo \in Int /\ hi \in Int /\ 0 \in Int /\ 1 \in Int /\ 0 <= lo /\ hi <= 1
  OBVIOUS
<1>2. Fits(q, S, lo, hi)
  BY DEF Part
<1>3. Fits(q, T, 0, 1)
  BY <1>1, <1>2, FitsWider
<1> QED
  BY <1>3 DEF Part

LEMMA BatchStep ==
    ASSUME RemI, NEW a, NEW paid \in BOOLEAN, NEW ok \in BOOLEAN, NEW good, NEW bad,
           BatchCall(a, paid, good, bad, ok)
    PROVE  QueueInv'
<1>1. PICK h : h = Head(todo)
  OBVIOUS
<1>2. PICK S : S = h.arg
  OBVIOUS
<1> DEFINE sent  == S \cap Long
           short == Tasks("result", S \ Long, TRUE)
           C == IF a = "complete" THEN good \cup bad ELSE IF a \in Again THEN {} ELSE sent
           reason == [reason |-> a, paid |-> TRUE]
<1>3. Doing("batch")
  BY DEF BatchCall
<1>4. /\ pc = "cycle" /\ h.op = "batch" /\ Of(h) = S /\ S \subseteq Records
      /\ \A r \in S : row[r] # "pending" /\ Askable(r)
  <2>1. pc = "cycle" /\ h.op = "batch" /\ Stands(h) /\ Of(h) \subseteq Records
    BY <1>1, <1>3, HeadDoes DEF Ops
  <2> QED
    BY <1>2, <2>1 DEF Stands, Asks, Of
<1>5. UNCHANGED <<row, gw, cutShort>>
  BY DEF BatchCall
<1>6. /\ node \in [Records -> [processed : BOOLEAN, invalid : BOOLEAN, superseded : BOOLEAN, passed : Nat]]
      /\ charged \in [Records -> 0..2]
  BY DEF RemI, RemInv, TypeOK
<1>7. \A x \in Records : node'[x].processed = node[x].processed /\ node'[x].invalid = node[x].invalid
  BY <1>6 DEF BatchCall, Picked
<1>8. charged' = [r \in Records |-> IF paid /\ r \in C THEN Counted(charged[r]) ELSE charged[r]]
  BY <1>1, <1>2 DEF BatchCall
<1>9. \/ a = "lock" /\ AbortsCycle(sent) /\ good = {} /\ bad = {}
      \/ /\ UNCHANGED <<withheld, backlog, dropped>>
         /\ \/ ~paid /\ Goes(short)
            \/ a \in Again /\ Goes(Tasks("call", sent, "again") \o short)
            \/ a \in LlmReasons \ Again /\ Goes(Tasks("withhold", sent, reason) \o short)
            \/ /\ a = "complete" /\ good \cup bad \subseteq sent /\ good \cap bad = {}
               /\ Goes(Tasks("call", sent \ (good \cup bad), "again") \o Tasks("result", good, TRUE)
                       \o Tasks("result", bad, FALSE) \o short)
  BY <1>1, <1>2 DEF BatchCall
<1>10. \/ ~paid
       \/ C \subseteq sent
  BY <1>9, RemAssumption DEF Again
<1> HIDE DEF C
<1>11. /\ \A r \in Records \ C : charged'[r] = charged[r]
       /\ ~paid => charged' = charged
       /\ \A r \in S \ dropped : charged'[r] > 0 => charged'[r] = 1 /\ paid /\ r \in C
  BY <1>4, <1>6, <1>8 DEF Counted, Askable
<1>12. \A r \in Records \ S : charged'[r] = charged[r]
  BY <1>10, <1>11
<1>13. CASE a = "lock" /\ AbortsCycle(sent)
  <2>1. \A x \in sent : Askable(x)
    BY <1>4
  <2>2. Rank(Head(todo)) = 1
    BY <1>1, <1>4 DEF Rank
  <2>3. \A x \in sent \ dropped : charged'[x] > 0 => charged'[x] = 1
    BY <1>4, <1>11
  <2>4. \A x \in Records \ sent : charged'[x] = charged[x]
    BY <1>10, <1>11
  <2> QED
    BY <1>4, <1>5, <1>7, <1>13, <2>1, <2>2, <2>3, <2>4, AbortStep
<1>14. ASSUME UNCHANGED <<withheld, backlog, dropped>>, NEW X \in SUBSET S, NEW q, Part(q, X, 0, 1), Goes(q),
              paid => \A r \in C : \E t : Has(q, t) /\ t.r = r /\ Settles(t)
       PROVE  QueueInv'
  BY <1>1, <1>3, <1>4, <1>5, <1>7, <1>11, <1>12, <1>14, BatchEnds
<1>15. \A r \in S : row'[r] # "pending" /\ ~node'[r].processed
  BY <1>4, <1>5, <1>7 DEF Askable
<1>16. \A X \in SUBSET S : X \subseteq Records
  BY <1>4
<1>17. Part(short, S \ Long, 0, 1)
  <2>1. Part(short, S \ Long, 1, 1)
    BY <1>15, <1>16, ResultsPart
  <2> QED
    BY <2>1, PartWider
<1>23. sent \cap (S \ Long) = {} /\ S = sent \cup (S \ Long) /\ sent \subseteq S
  OBVIOUS
<1>18. ASSUME UNCHANGED <<withheld, backlog, dropped>>, NEW X \in SUBSET sent, X \cap C = {}
       PROVE  Part(Tasks("call", X, "again"), X, 1, 1)
  <2>1. \A r \in X : row'[r] # "pending" /\ Askable(r)'
    <3>1. \A r \in X : Keeps(r)
      BY <1>4, <1>5, <1>7, <1>11, <1>18 DEF Keeps
    <3> QED
      BY <1>4, <1>5, <1>15, <1>18, <3>1, KeptIsAskable
  <2> QED
    BY <1>16, <2>1, CallsPart
<1>19. CASE UNCHANGED <<withheld, backlog, dropped>> /\ ~paid /\ Goes(short)
  BY <1>14, <1>17, <1>19
<1>20. CASE /\ UNCHANGED <<withheld, backlog, dropped>>
            /\ a \in Again /\ Goes(Tasks("call", sent, "again") \o short)
  <2>1. C = {}
    BY <1>20 DEF C, Again
  <2>2. Part(Tasks("call", sent, "again"), sent, 1, 1)
    BY <1>18, <1>20, <2>1
  <2>3. Part(short, S \ Long, 1, 1)
    BY <1>15, <1>16, ResultsPart
  <2>4. Part(Tasks("call", sent, "again") \o short, S, 1, 1)
    BY <1>23, <2>2, <2>3, OnesJoin
  <2>5. Part(Tasks("call", sent, "again") \o short, S, 0, 1)
    BY <2>4, PartWider
  <2> QED
    BY <1>14, <1>20, <2>1, <2>5
<1>21. CASE /\ UNCHANGED <<withheld, backlog, dropped>>
            /\ a \in LlmReasons \ Again /\ Goes(Tasks("withhold", sent, reason) \o short)
  <2> DEFINE p == Tasks("withhold", sent, reason)
  <2>1. Part(p, sent, 0, 0) /\ \A r \in sent : \E t : Has(p, t) /\ t.r = r /\ Settles(t)
    BY <1>15, <1>16, <1>21, WithholdsPart DEF Reasons
  <2>2. C \subseteq sent
    BY <1>21, RemAssumption DEF C
  <2> HIDE DEF p
  <2>3. Part(p, sent, 0, 1)
    BY <2>1, PartWider
  <2>4. Part(short, S \ Long, 1, 1)
    BY <1>15, <1>16, ResultsPart
  <2>5. Part(p \o short, S, 0, 1) /\ \A t : Has(p, t) => Has(p \o short, t)
    BY <1>23, <2>3, <2>4, OnesJoin
  <2>6. Goes(p \o short)
    BY <1>21 DEF p
  <2> QED
    BY <1>14, <1>21, <2>1, <2>2, <2>5, <2>6
<1>22. CASE /\ UNCHANGED <<withheld, backlog, dropped>>
            /\ a = "complete" /\ good \cup bad \subseteq sent /\ good \cap bad = {}
            /\ Goes(Tasks("call", sent \ (good \cup bad), "again") \o Tasks("result", good, TRUE)
                    \o Tasks("result", bad, FALSE) \o short)
  <2> DEFINE p == Tasks("call", sent \ (good \cup bad), "again")
             g == Tasks("result", good, TRUE)
             b == Tasks("result", bad, FALSE)
  <2>1. C = good \cup bad
    BY <1>22 DEF C
  <2>2. Part(p, sent \ (good \cup bad), 1, 1)
    BY <1>18, <1>22, <2>1
  <2>3. Part(g, good, 1, 1) /\ \A r \in good : \E t : Has(g, t) /\ t.r = r /\ Settles(t)
    BY <1>15, <1>16, <1>22, ResultsPart
  <2>4. Part(b, bad, 1, 1) /\ \A r \in bad : \E t : Has(b, t) /\ t.r = r /\ Settles(t)
    BY <1>15, <1>16, <1>22, ResultsPart
  <2>5. Part(short, S \ Long, 1, 1)
    BY <1>15, <1>16, ResultsPart
  <2>6. Goes(((p \o g) \o b) \o short)
    BY <1>22
  <2> HIDE DEF p, g, b, short
  <2>10. /\ (sent \ (good \cup bad)) \cap good = {} /\ (sent \ bad) = (sent \ (good \cup bad)) \cup good
         /\ (sent \ bad) \cap bad = {} /\ sent = (sent \ bad) \cup bad
    BY <1>22
  <2>7. Part(p \o g, sent \ bad, 1, 1) /\ \A t : Has(g, t) => Has(p \o g, t)
    BY <2>2, <2>3, <2>10, OnesJoin
  <2>8. /\ Part((p \o g) \o b, sent, 1, 1)
        /\ \A t : Has(g, t) \/ Has(b, t) => Has((p \o g) \o b, t)
    <3>1. Part((p \o g) \o b, sent, 1, 1) /\ \A t : Has(p \o g, t) \/ Has(b, t) => Has((p \o g) \o b, t)
      BY <2>4, <2>7, <2>10, OnesJoin
    <3> QED
      BY <2>7, <3>1
  <2>9. /\ Part(((p \o g) \o b) \o short, S, 0, 1)
        /\ \A t : Has(g, t) \/ Has(b, t) => Has(((p \o g) \o b) \o short, t)
    <3>1. /\ Part(((p \o g) \o b) \o short, S, 1, 1)
          /\ \A t : Has((p \o g) \o b, t) => Has(((p \o g) \o b) \o short, t)
      BY <1>23, <2>5, <2>8, OnesJoin
    <3> QED
      BY <2>8, <3>1, PartWider
  <2> QED
    BY <1>14, <1>22, <2>1, <2>3, <2>4, <2>6, <2>9
<1> QED
  BY <1>9, <1>13, <1>19, <1>20, <1>21, <1>22

-----------------------------------------------------------------------------
\* The tasks of a fresh cycle: one for each record, and they stand if the records may
\* be asked for.
LEMMA CycleIsPart ==
    ASSUME NEW X \in SUBSET Records, NEW n, NEW tasks, tasks = CycleTasks(X, n),
           \A r \in X : row'[r] # "pending" /\ Askable(r)'
    PROVE  Part(tasks, X, 1, 2) /\ (tasks = << >> <=> X = {})
<1>0. PICK alone : alone = soloOnly
  OBVIOUS
<1> DEFINE batch   == (X \cap Facts) \ alone
           solo    == X \ batch
           starved == Starved(solo, n)
           p == IF Cardinality(batch) > 1 THEN Batch(batch) ELSE Tasks("call", batch, "pick")
           q == Tasks("call", starved, "pick")
           w == Tasks("yield", solo \ starved, "pick")
<1>1. starved \subseteq solo /\ batch \subseteq Records /\ solo \subseteq Records
  BY DEF Starved
<1>2. tasks = (p \o q) \o w
  BY <1>0 DEF CycleTasks
<1>3. batch \subseteq Facts
  OBVIOUS
<1>13. solo \subseteq X /\ X = batch \cup solo /\ batch \cap solo = {}
  OBVIOUS
<1> HIDE DEF batch, solo, starved
<1>4. \A Y \in SUBSET X : Y \subseteq Records /\ \A r \in Y : row'[r] # "pending" /\ Askable(r)'
  OBVIOUS
<1>5. /\ Part(q, starved, 1, 1) /\ Part(Tasks("call", batch, "pick"), batch, 1, 1)
      /\ Part(w, solo \ starved, 2, 2)
  BY <1>1, <1>4, <1>13, CallsPart
<1>6. /\ batch # {} => Tasks("call", batch, "pick") # << >>
      /\ starved # {} => q # << >> /\ (solo \ starved # {} => w # << >>)
      /\ solo \ starved # {} => w # << >>
      /\ batch = {} => Tasks("call", batch, "pick") = << >>
      /\ starved = {} => q = << >>
      /\ solo \ starved = {} => w = << >>
  <2>1. ASSUME NEW op \in {"call", "yield"}, NEW Y \in SUBSET Records
        PROVE  Tasks(op, Y, "pick") = << >> <=> Y = {}
    <3>1. op \in Ops \ {"batch"} /\ "pick" \in Args
      BY DEF Ops, Args
    <3> DEFINE v == Tasks(op, Y, "pick")
    <3>3. /\ v \in Seq(TaskTypes) /\ \A i \in DOMAIN v : \E r \in Y : v[i] = Task(op, r, "pick")
          /\ \A r \in Y : \E i \in DOMAIN v : v[i] = Task(op, r, "pick")
      BY <3>1, TasksList
    <3> HIDE DEF v
    <3>4. v = << >> <=> DOMAIN v = {}
      BY <3>3
    <3> QED
      BY <3>3, <3>4 DEF v
  <2> QED
    BY <1>1, <2>1
<1>7. Part(Batch(batch), batch, 1, 1) /\ Batch(batch) # << >>
  <2>1. PICK t : t = Task("batch", NoRow, batch)
    OBVIOUS
  <2>2. t.op = "batch" /\ t.arg = batch /\ t.r = NoRow
    BY <2>1 DEF Task
  <2>3. t \in TaskTypes
    BY <1>3, <2>1 DEF Task, TaskTypes, Ops, Args
  <2>4. Of(t) = batch /\ Rank(t) = 1
    BY <2>2 DEF Of, Rank
  <2>5. Stands(t)'
    BY <1>3, <1>4, <1>13, <2>2, <2>4 DEF Stands, Typed, Of, Asks
  <2>6. Fits(<<t>>, batch, 1, 1)
    BY <2>3, <2>4, OneFits
  <2>7. Batch(batch) = <<t>> /\ DOMAIN <<t>> = {1} /\ <<t>>[1] = t /\ <<t>> # << >>
    BY <2>1 DEF Batch
  <2>8. ASSUME NEW i \in DOMAIN <<t>> PROVE Stands(<<t>>[i])'
    BY <2>5, <2>7
  <2>9. Part(<<t>>, batch, 1, 1)
    BY <2>6, <2>8 DEF Part
  <2> QED
    BY <2>7, <2>9
<1>8. batch = {} => ~(Cardinality(batch) > 1)
  <2>1. Cardinality({}) = 0
    BY FS_EmptySet
  <2> QED
    BY <2>1
<1>9. Part(p, batch, 1, 1) /\ (p = << >> <=> batch = {})
  BY <1>5, <1>6, <1>7, <1>8
<1> HIDE DEF p, q, w
<1>14. batch \cap starved = {}
  BY <1>1, <1>13
<1>10. Part(p \o q, batch \cup starved, 1, 1)
  BY <1>5, <1>9, <1>14, OnesJoin
<1>11. Part((p \o q) \o w, X, 1, 2)
  <2>1. (batch \cup starved) \cap (solo \ starved) = {} /\ X = (batch \cup starved) \cup (solo \ starved)
    BY <1>1, <1>13
  <2> QED
    BY <1>5, <1>10, <2>1, YieldsJoin
<1>12. (p \o q) \o w = << >> <=> p = << >> /\ q = << >> /\ w = << >>
  <2>1. p \in Seq(TaskTypes) /\ q \in Seq(TaskTypes) /\ w \in Seq(TaskTypes)
    BY <1>5, <1>9 DEF Part, Fits
  <2>2. ASSUME NEW x \in Seq(TaskTypes), NEW y \in Seq(TaskTypes)
        PROVE  x \o y \in Seq(TaskTypes) /\ (x \o y = << >> <=> x = << >> /\ y = << >>)
    OBVIOUS
  <2>3. p \o q \in Seq(TaskTypes) /\ (p \o q = << >> <=> p = << >> /\ q = << >>)
    BY <2>1, <2>2
  <2> QED
    BY <2>1, <2>2, <2>3
<1> QED
  BY <1>2, <1>6, <1>9, <1>11, <1>12, <1>1, <1>13

LEMMA BeginStep ==
    ASSUME RemI, NEW yields \in BOOLEAN, NEW retired \in BOOLEAN, NEW fetched \in SUBSET Records,
           Begin(yields, retired, fetched)
    PROVE  QueueInv'
<1> DEFINE n == Released
           S == IF yields THEN {} ELSE Applied(fetched)
           bad == S \cap Bad
<1>1. /\ pc = "idle" /\ fetched \subseteq Candidates(n)
      /\ node' = [r \in Records |->
                    IF r \in bad /\ retired THEN [n[r] EXCEPT !.invalid = TRUE, !.processed = TRUE] ELSE n[r]]
      /\ todo' = CycleTasks(S \ bad, n) /\ pc' = (IF S \ bad = {} THEN "idle" ELSE "cycle")
      /\ UNCHANGED <<row, backlog, gw, soloOnly, withheld, charged, dropped, cutShort>>
  BY DEF Begin, Fetches, history
<1>2. todo = << >> /\ soloOnly \subseteq Records
  BY <1>1 DEF RemI, RemInv, QueueStands, TypeOK
<1>3. node \in [Records -> [processed : BOOLEAN, invalid : BOOLEAN, superseded : BOOLEAN, passed : Nat]]
  BY DEF RemI, RemInv, TypeOK
<1>4. \A r \in Records : /\ n[r].invalid = node[r].invalid
                         /\ n[r].processed = (node[r].processed /\ ~(r \in EligibleWriteFailed \ withheld /\ ~node[r].invalid))
                         /\ n[r] \in [processed : BOOLEAN, invalid : BOOLEAN, superseded : BOOLEAN, passed : Nat]
  BY <1>3 DEF Released
<1>5. \A r \in Records : /\ r \in Blocked' <=> r \in Blocked
                         /\ r \in EligibleWriteFailed' <=> r \in EligibleWriteFailed
  BY <1>1 DEF Blocked, EligibleWriteFailed, Eligible
<1>6. S \subseteq fetched /\ \A r \in S : row[r] \in {"applied", "rem_reviewed"}
  BY DEF Applied
<1> HIDE DEF n
<1>7. \A r \in Records : ~(r \in bad /\ retired) => node'[r] = n[r]
  BY <1>1
<1>8. \A r \in Records : r \in bad /\ retired => node'[r].invalid /\ node'[r].processed
  BY <1>1, <1>4
<1>9. \A r \in Records \ dropped : charged[r] > 0 => charged[r] = 1 /\ Settled(r)
  BY <1>2 DEF RemI, RemInv, PaidIsSettled
<1>10. ASSUME NEW r \in S \ bad PROVE row'[r] # "pending" /\ Askable(r)'
  <2>1. r \in Records /\ ~n[r].processed /\ ~n[r].invalid /\ r \notin Blocked \cup withheld /\ node'[r] = n[r]
    BY <1>1, <1>6, <1>7 DEF Candidates
  <2>2. charged[r] = 0 \/ r \in dropped
    <3>1. charged[r] \in 0..2
      BY <2>1 DEF RemI, RemInv, TypeOK
    <3>2. ASSUME charged[r] > 0, r \notin dropped PROVE FALSE
      BY <1>4, <1>9, <2>1, <3>2 DEF Settled
    <3> QED
      BY <3>1, <3>2
  <2> QED
    BY <1>1, <1>5, <1>6, <2>1, <2>2 DEF Askable
<1>11. PICK m, X, tasks : m = n /\ X = S \ bad /\ tasks = todo'
  OBVIOUS
<1>12. Part(tasks, X, 1, 2) /\ (tasks = << >> <=> X = {})
  <2>1. X \subseteq Records /\ tasks = CycleTasks(X, m) /\ \A r \in X : row'[r] # "pending" /\ Askable(r)'
    BY <1>1, <1>6, <1>10, <1>11
  <2> QED
    BY <2>1, CycleIsPart
<1>13. QueueStands' /\ todo' \in Seq(TaskTypes)
  <2>1. todo' \in Seq(TaskTypes) /\ Orderly(todo')
    BY <1>11, <1>12 DEF Part, Fits
  <2>2. ASSUME NEW i \in DOMAIN tasks PROVE Stands(tasks[i])'
    BY <1>12 DEF Part
  <2>3. \A i \in DOMAIN todo' : Stands(todo[i])'
    <3> SUFFICES ASSUME NEW i \in DOMAIN todo' PROVE Stands(todo[i])'
      OBVIOUS
    <3>1. PICK t : t = tasks[i]
      OBVIOUS
    <3>2. Stands(t)' /\ t = todo'[i]
      BY <1>11, <2>2, <3>1
    <3> QED
      BY <3>2 DEF Stands, Typed, Asks, Askable
  <2>4. pc' = "cycle" <=> todo' # << >>
    BY <1>1, <1>11, <1>12
  <2> QED
    BY <2>1, <2>3, <2>4 DEF QueueStands, Orderly
<1>14. ASSUME NEW r \in Records \ dropped', charged'[r] > 0 PROVE charged'[r] = 1 /\ Settled(r)'
  <2>1. charged'[r] = 1 /\ Settled(r)
    BY <1>1, <1>9, <1>14
  <2>2. CASE r \in withheld \cup Blocked
    BY <1>1, <1>5, <2>1, <2>2 DEF Settled
  <2>3. CASE node[r].processed /\ r \notin EligibleWriteFailed
    <3>1. n[r].processed
      BY <1>4, <2>3
    <3>2. node'[r].processed
      BY <1>7, <1>8, <3>1
    <3> QED
      BY <1>5, <2>1, <2>3, <3>2 DEF Settled
  <2> QED
    BY <2>1, <2>2, <2>3 DEF Settled
<1>15. \A r \in Records : node'[r].processed => row'[r] # "pending"
  <2> SUFFICES ASSUME NEW r \in Records, node'[r].processed PROVE row'[r] # "pending"
    OBVIOUS
  <2>1. CASE r \in bad
    BY <1>1, <1>6, <2>1
  <2>2. CASE r \notin bad
    <3>1. node[r].processed
      BY <1>4, <1>7, <2>2
    <3> QED
      BY <1>1, <3>1 DEF RemI, RemInv, MarkedWasApplied
  <2> QED
    BY <2>1, <2>2
<1>16. \A r \in Records : node'[r].processed /\ ~node'[r].invalid /\ row'[r] = "applied" =>
           backlog'[r] # NoRow \/ r \in withheld' \cup cutShort'
  <2> SUFFICES ASSUME NEW r \in Records, node'[r].processed, ~node'[r].invalid, row'[r] = "applied"
               PROVE  backlog'[r] # NoRow \/ r \in withheld' \cup cutShort'
    OBVIOUS
  <2>1. node'[r] = n[r]
    BY <1>7, <1>8
  <2>2. node[r].processed /\ ~node[r].invalid
    BY <1>4, <2>1
  <2> QED
    <3>1. NothingVanishes /\ row[r] = "applied"
      BY <1>1 DEF RemI, RemInv
    <3>2. ~\E i \in DOMAIN todo : todo[i].r = r
      BY <1>2
    <3>3. backlog[r] # NoRow \/ r \in withheld \cup cutShort
      BY <2>2, <3>1, <3>2 DEF NothingVanishes
    <3> QED
      BY <1>1, <3>3
<1> QED
  BY <1>13, <1>14, <1>15, <1>16 DEF QueueInv, PaidIsSettled, MarkedWasApplied, NothingVanishes

-----------------------------------------------------------------------------
\* The steps of others: no task is touched, and only a pending row changes.
LEMMA OthersStep ==
    ASSUME RemI, UNCHANGED <<gw, todo, backlog, withheld, charged, dropped, cutShort>>, pc' = "cycle" <=> pc = "cycle",
           \A r \in Records : node'[r].processed = node[r].processed /\ node'[r].invalid = node[r].invalid,
           \A r \in Records : row'[r] = row[r] \/ row[r] = "pending"
    PROVE  QueueInv'
<1>1. \A r \in Records : row[r] # "pending" => Keeps(r)
  BY DEF Keeps
<1>2. \A r \in Records : Settled(r) => Settled(r)'
  <2>1. \A r \in Records : r \in Blocked' <=> r \in Blocked
    BY DEF Blocked, Eligible
  <2>2. \A r \in Records : r \in EligibleWriteFailed' <=> r \in EligibleWriteFailed
    BY DEF EligibleWriteFailed, Eligible
  <2> QED
    BY <2>1, <2>2 DEF Settled
<1>3. QueueStands'
  <2>1. ASSUME NEW i \in DOMAIN todo PROVE Stands(todo[i])'
    <3>1. PICK t : t = todo[i]
      OBVIOUS
    <3>2. Stands(t)
      BY <3>1 DEF RemI, RemInv, QueueStands
    <3>3. \A r \in Of(t) : r \in Records /\ row[r] # "pending"
      BY <3>2, RemAssumption DEF Stands, Typed
    <3>4. Stands(t)'
      BY <1>1, <3>2, <3>3, KeptStands
    <3> QED
      BY <3>1, <3>4 DEF Stands, Typed, Asks, Askable
  <2>2. (pc = "cycle" <=> todo # << >>) /\ Orderly(todo)
    BY DEF RemI, RemInv, QueueStands
  <2> QED
    BY <2>1, <2>2 DEF QueueStands, Orderly
<1>4. PaidIsSettled /\ MarkedWasApplied /\ NothingVanishes /\ todo \in Seq(TaskTypes)
  BY DEF RemI, RemInv
<1>5. PaidIsSettled'
  BY <1>2, <1>4 DEF PaidIsSettled
<1>6. MarkedWasApplied'
  BY <1>4 DEF MarkedWasApplied
<1>7. NothingVanishes'
  <2> SUFFICES ASSUME NEW r \in Records, node'[r].processed, ~node'[r].invalid, row'[r] = "applied"
               PROVE  \/ backlog'[r] # NoRow \/ r \in withheld' \cup cutShort'
                      \/ \E i \in DOMAIN todo' : todo'[i].r = r
    BY DEF NothingVanishes
  <2>1. row[r] = "applied"
    BY <1>4 DEF MarkedWasApplied
  <2> QED
    BY <1>4, <2>1 DEF NothingVanishes
<1> QED
  BY <1>3, <1>4, <1>5, <1>6, <1>7 DEF QueueInv

\* A death takes the memory with it; what it cut short is counted.
LEMMA DiesStep ==
    ASSUME RemI, Dies, UNCHANGED <<node, row, backlog>>
    PROVE  QueueInv'
<1>1. /\ todo' = << >> /\ pc' = "down" /\ charged' = [r \in Records |-> 0]
      /\ cutShort' = cutShort \cup
            {r \in Records : node[r].processed /\ row[r] = "applied" /\ backlog[r] = NoRow}
  BY DEF Dies
<1>2. \A r \in Records : node'[r].processed => row'[r] # "pending"
  BY DEF RemI, RemInv, MarkedWasApplied
<1>3. \A r \in Records \ dropped' : charged'[r] > 0 => charged'[r] = 1 /\ Settled(r)'
  BY <1>1
<1>4. \A r \in Records : node'[r].processed /\ ~node'[r].invalid /\ row'[r] = "applied" =>
          backlog'[r] # NoRow \/ r \in withheld' \cup cutShort'
  BY <1>1
<1> QED
  BY <1>1, <1>2, <1>3, <1>4, QueueGone

LEMMA QueueStep == RemI /\ [Next]_vars => QueueInv'
<1> SUFFICES ASSUME RemI, [Next]_vars PROVE QueueInv'
  OBVIOUS
<1>1. ASSUME NEW yields \in BOOLEAN, NEW retired \in BOOLEAN, NEW fetched \in SUBSET Records,
             Begin(yields, retired, fetched) PROVE QueueInv'
  BY <1>1, BeginStep
<1>2. ASSUME NEW a, NEW paid \in BOOLEAN, NEW ok \in BOOLEAN, SoloCall(a, paid, ok) PROVE QueueInv'
  BY <1>2, SoloStep
<1>3. ASSUME NEW queuing \in BOOLEAN, NEW ok \in BOOLEAN, YieldCheck(queuing, ok) PROVE QueueInv'
  BY <1>3, YieldStep
<1>4. ASSUME NEW a, NEW paid \in BOOLEAN, NEW ok \in BOOLEAN, NEW good, NEW bad,
             BatchCall(a, paid, good, bad, ok) PROVE QueueInv'
  BY <1>4, BatchStep
<1>5. ASSUME NEW written \in BOOLEAN, ApplyResult(written) PROVE QueueInv'
  BY <1>5, ApplyStep
<1>6. ASSUME NEW marked \in BOOLEAN, NEW reverted \in BOOLEAN, MarkRow(marked, reverted) PROVE QueueInv'
  BY <1>6, MarkStep
<1>7. ASSUME NEW deleted \in BOOLEAN, ClearBacklog(deleted) PROVE QueueInv'
  BY <1>7, ClearStep
<1>8. ASSUME NEW written \in BOOLEAN, WriteBacklog(written) PROVE QueueInv'
  BY <1>8, WriteBacklogStep
<1>9. ASSUME DaemonDies \/ \E p \in Pools : GatewayRestarts(p) PROVE QueueInv'
  BY <1>9, DiesStep DEF DaemonDies, GatewayRestarts, storeVars
<1>10. ASSUME Spawn PROVE QueueInv'
  BY <1>10, OthersStep DEF Spawn, storeVars, history
<1>11. ASSUME NEW r \in Records, RowApplied(r) PROVE QueueInv'
  <2>1. row \in [Records -> {"pending", "applied", "rem_reviewed"}]
    BY DEF RemI, RemInv, TypeOK
  <2> QED
    BY <1>11, <2>1, OthersStep DEF RowApplied, daemonVars, history
<1>12. ASSUME NEW r \in Records, Superseded(r) PROVE QueueInv'
  <2>1. node \in [Records -> [processed : BOOLEAN, invalid : BOOLEAN, superseded : BOOLEAN, passed : Nat]]
    BY DEF RemI, RemInv, TypeOK
  <2>2. node' = [node EXCEPT ![r].superseded = TRUE]
    BY <1>12 DEF Superseded
  <2>3. \A x \in Records : node'[x].processed = node[x].processed /\ node'[x].invalid = node[x].invalid
    BY <2>1, <2>2
  <2> QED
    BY <1>12, <2>3, OthersStep DEF Superseded, daemonVars, history
<1>13. CASE UNCHANGED vars
  BY <1>13, OthersStep DEF vars, storeVars, daemonVars, history
<1>14. CASE Next
  BY <1>1, <1>2, <1>3, <1>4, <1>5, <1>6, <1>7, <1>8, <1>9, <1>10, <1>11, <1>12, <1>14 DEF Next
<1> QED
  BY <1>13, <1>14

-----------------------------------------------------------------------------
Nodes == [processed : BOOLEAN, invalid : BOOLEAN, superseded : BOOLEAN, passed : Nat]

LEMMA AbortTypes ==
    ASSUME RemI, NEW sent \in SUBSET Records, AbortsCycle(sent)
    PROVE  /\ withheld' \subseteq Records /\ dropped' \subseteq Records /\ pc' = "idle"
           /\ backlog' = backlog /\ soloOnly' = soloOnly
<1>1. \A i \in DOMAIN todo : todo[i].op = "result" => todo[i].r \in Records
  BY DEF RemI, RemInv, QueueStands, Stands, Typed, Of
<1>2. withheld \subseteq Records /\ dropped \subseteq Records
  BY DEF RemI, RemInv, TypeOK
<1> QED
  BY <1>1, <1>2 DEF AbortsCycle

LEMMA PickedTypes ==
    ASSUME node \in [Records -> Nodes], NEW S, NEW ok \in BOOLEAN
    PROVE  Picked(S, ok) \in [Records -> Nodes]
  BY DEF Picked, Nodes

LEMMA MarkTypes ==
    ASSUME NEW m \in [Records -> Nodes], NEW r, NEW b \in BOOLEAN
    PROVE  [m EXCEPT ![r].processed = b] \in [Records -> Nodes]
  BY DEF Nodes

LEMMA CountedTypes == \A n \in 0..2 : Counted(n) \in 0..2
  BY DEF Counted

\* The types are inductive with the queue's invariant.
LEMMA TypesStep == RemI /\ [Next]_vars => TypeOK'
<1> SUFFICES ASSUME RemI, [Next]_vars PROVE TypeOK'
  OBVIOUS
<1>1. /\ node \in [Records -> Nodes]
      /\ row \in [Records -> {"pending", "applied", "rem_reviewed"}]
      /\ backlog \in [Records -> [reason : Reasons, id : Identities] \cup {NoRow}]
      /\ gw \in Identities /\ pc \in {"down", "idle", "cycle"}
      /\ soloOnly \subseteq Records /\ withheld \subseteq Records
      /\ charged \in [Records -> 0..2] /\ dropped \subseteq Records /\ cutShort \subseteq Records
  BY DEF RemI, RemInv, TypeOK, Nodes
<1> DEFINE Types == /\ node' \in [Records -> Nodes]
                    /\ row' \in [Records -> {"pending", "applied", "rem_reviewed"}]
                    /\ backlog' \in [Records -> [reason : Reasons, id : Identities] \cup {NoRow}]
                    /\ gw' \in Identities /\ pc' \in {"down", "idle", "cycle"}
                    /\ soloOnly' \subseteq Records /\ withheld' \subseteq Records
                    /\ charged' \in [Records -> 0..2] /\ dropped' \subseteq Records /\ cutShort' \subseteq Records
<1>2. Types => TypeOK'
  BY DEF TypeOK, Nodes
<1>3. ASSUME NEW more, Goes(more) PROVE pc' \in {"idle", "cycle"}
  BY <1>3 DEF Goes
<1>4. ASSUME NEW op \in Ops, Doing(op)
      PROVE  /\ op # "batch" => Head(todo).r \in Records
             /\ op = "batch" => Head(todo).arg \subseteq Records
             /\ op = "withhold" => Head(todo).arg.reason \in Reasons
  <2>1. PICK h : h = Head(todo)
    OBVIOUS
  <2>2. h.op = op /\ Typed(h) /\ Of(h) \subseteq Records /\ (op # "batch" => h.r \in Records)
    BY <1>4, <2>1, HeadDoes
  <2> QED
    BY <2>1, <2>2 DEF Typed, Of
<1>5. ASSUME NEW yields \in BOOLEAN, NEW retired \in BOOLEAN, NEW fetched \in SUBSET Records,
             Begin(yields, retired, fetched) PROVE Types
  <2> DEFINE bad == (IF yields THEN {} ELSE Applied(fetched)) \cap Bad
  <2>1. /\ node' = [r \in Records |-> IF r \in bad /\ retired
                                      THEN [Released[r] EXCEPT !.invalid = TRUE, !.processed = TRUE] ELSE Released[r]]
        /\ pc' \in {"idle", "cycle"} /\ UNCHANGED <<row, backlog, gw, soloOnly, withheld, history>>
    BY <1>5 DEF Begin
  <2>2. Released \in [Records -> Nodes]
    BY <1>1 DEF Released, Nodes
  <2>3. node' \in [Records -> Nodes]
    BY <2>1, <2>2 DEF Nodes
  <2> QED
    BY <1>1, <2>1, <2>3 DEF history
<1>6. ASSUME NEW a, NEW paid \in BOOLEAN, NEW ok \in BOOLEAN, SoloCall(a, paid, ok) PROVE Types
  <2>1. Head(todo).r \in Records
    BY <1>4, <1>6 DEF SoloCall, Ops
  <2>2. node' \in [Records -> Nodes]
    BY <1>1, <1>6, PickedTypes DEF SoloCall
  <2>3. charged' \in [Records -> 0..2]
    BY <1>1, <1>6, <2>1, CountedTypes DEF SoloCall
  <2>4. /\ withheld' \subseteq Records /\ dropped' \subseteq Records /\ pc' \in {"idle", "cycle"}
        /\ backlog' = backlog /\ soloOnly' = soloOnly
    <3>1. \/ UNCHANGED <<backlog, soloOnly, withheld, dropped>> /\ \E more : Goes(more)
          \/ AbortsCycle({Head(todo).r})
      BY <1>6 DEF SoloCall
    <3>2. CASE UNCHANGED <<backlog, soloOnly, withheld, dropped>> /\ \E more : Goes(more)
      BY <1>1, <1>3, <3>2
    <3>3. CASE AbortsCycle({Head(todo).r})
      BY <2>1, <3>3, AbortTypes
    <3> QED
      BY <3>1, <3>2, <3>3
  <2>5. UNCHANGED <<row, gw, cutShort>>
    BY <1>6 DEF SoloCall
  <2> QED
    BY <1>1, <2>2, <2>3, <2>4, <2>5
<1>7. ASSUME NEW queuing \in BOOLEAN, NEW ok \in BOOLEAN, YieldCheck(queuing, ok) PROVE Types
  <2>1. /\ pc' \in {"idle", "cycle"}
        /\ UNCHANGED <<row, backlog, gw, soloOnly, withheld, history>>
    BY <1>1, <1>7 DEF YieldCheck, Doing
  <2>2. node' \in [Records -> Nodes]
    <3>1. \/ node' = node
          \/ \E rest : node' = [r \in Records |-> IF r \in rest /\ ok THEN [node[r] EXCEPT !.passed = @ + 1] ELSE node[r]]
      BY <1>7 DEF YieldCheck
    <3> QED
      BY <1>1, <3>1 DEF Nodes
  <2> QED
    BY <1>1, <2>1, <2>2 DEF history
<1>8. ASSUME NEW a, NEW paid \in BOOLEAN, NEW ok \in BOOLEAN, NEW good, NEW bad,
             BatchCall(a, paid, good, bad, ok) PROVE Types
  <2> DEFINE sent == Head(todo).arg \cap Long
  <2>1. sent \subseteq Records
    BY RemAssumption
  <2>2. node' \in [Records -> Nodes]
    BY <1>1, <1>8, PickedTypes DEF BatchCall
  <2>3. charged' \in [Records -> 0..2]
    <3>1. \E C : charged' = [r \in Records |-> IF r \in C THEN Counted(charged[r]) ELSE charged[r]]
      <4>1. PICK C : C = {r \in Records : paid /\ r \in (IF a = "complete" THEN good \cup bad
                                                         ELSE IF a \in Again THEN {} ELSE sent)}
        OBVIOUS
      <4>2. charged' = [r \in Records |-> IF r \in C THEN Counted(charged[r]) ELSE charged[r]]
        BY <1>8, <4>1 DEF BatchCall
      <4> QED
        BY <4>2
    <3> QED
      BY <1>1, <3>1, CountedTypes
  <2>4. /\ withheld' \subseteq Records /\ dropped' \subseteq Records /\ pc' \in {"idle", "cycle"}
        /\ backlog' = backlog /\ soloOnly' \subseteq Records
    <3>1. \/ /\ UNCHANGED <<backlog, withheld, dropped>> /\ soloOnly' \subseteq soloOnly \cup sent
             /\ \E more : Goes(more)
          \/ AbortsCycle(sent)
      BY <1>8 DEF BatchCall
    <3>2. CASE /\ UNCHANGED <<backlog, withheld, dropped>> /\ soloOnly' \subseteq soloOnly \cup sent
               /\ \E more : Goes(more)
      BY <1>1, <1>3, <2>1, <3>2
    <3>3. CASE AbortsCycle(sent)
      BY <1>1, <2>1, <3>3, AbortTypes
    <3> QED
      BY <3>1, <3>2, <3>3
  <2>5. UNCHANGED <<row, gw, cutShort>>
    BY <1>8 DEF BatchCall
  <2> QED
    BY <1>1, <2>2, <2>3, <2>4, <2>5
<1>9. ASSUME NEW written \in BOOLEAN, ApplyResult(written) PROVE Types
  <2>0. PICK r : r = Head(todo).r
    OBVIOUS
  <2>1. /\ node' = node \/ node' = [node EXCEPT ![r].processed = TRUE]
        /\ \E more : Goes(more)
        /\ UNCHANGED <<row, backlog, gw, soloOnly, withheld, history>>
    BY <1>9, <2>0 DEF ApplyResult
  <2>4. [node EXCEPT ![r].processed = TRUE] \in [Records -> Nodes]
    BY <1>1, MarkTypes
  <2>2. node' \in [Records -> Nodes]
    BY <1>1, <2>1, <2>4
  <2> QED
    BY <1>1, <1>3, <2>1, <2>2 DEF history
<1>10. ASSUME NEW marked \in BOOLEAN, NEW reverted \in BOOLEAN, MarkRow(marked, reverted) PROVE Types
  <2>0. PICK r : r = Head(todo).r
    OBVIOUS
  <2>1. /\ node' = node \/ node' = [node EXCEPT ![r].processed = FALSE]
        /\ row' = row \/ row' = [row EXCEPT ![Head(todo).r] = IF @ = "applied" THEN "rem_reviewed" ELSE @]
        /\ \E more : Goes(more)
        /\ UNCHANGED <<backlog, gw, soloOnly, withheld, history>>
    BY <1>10, <2>0 DEF MarkRow
  <2>4. [node EXCEPT ![r].processed = FALSE] \in [Records -> Nodes]
    BY <1>1, MarkTypes
  <2>2. node' \in [Records -> Nodes]
    BY <1>1, <2>1, <2>4
  <2>3. row' \in [Records -> {"pending", "applied", "rem_reviewed"}]
    BY <1>1, <2>1
  <2> QED
    BY <1>1, <1>3, <2>1, <2>2, <2>3 DEF history
<1>11. ASSUME NEW deleted \in BOOLEAN, ClearBacklog(deleted) PROVE Types
  <2>1. Head(todo).r \in Records
    BY <1>4, <1>11 DEF ClearBacklog, Ops
  <2>2. /\ \/ backlog' = [backlog EXCEPT ![Head(todo).r] = NoRow] /\ withheld' = withheld
           \/ withheld' = withheld \cup {Head(todo).r} /\ backlog' = backlog
        /\ Goes(<< >>) /\ UNCHANGED <<node, row, gw, soloOnly, history>>
    BY <1>11 DEF ClearBacklog
  <2>3. backlog' \in [Records -> [reason : Reasons, id : Identities] \cup {NoRow}] /\ withheld' \subseteq Records
    BY <1>1, <2>1, <2>2
  <2> QED
    BY <1>1, <1>3, <2>2, <2>3 DEF history
<1>12. ASSUME NEW written \in BOOLEAN, WriteBacklog(written) PROVE Types
  <2>1. Head(todo).r \in Records /\ Head(todo).arg.reason \in Reasons
    BY <1>4, <1>12 DEF WriteBacklog, Ops
  <2>2. PICK b : b = [reason |-> Head(todo).arg.reason, id |-> gw]
    OBVIOUS
  <2>3. b \in [reason : Reasons, id : Identities]
    BY <1>1, <2>1, <2>2
  <2>4. /\ \/ backlog' = [backlog EXCEPT ![Head(todo).r] = b] /\ withheld' = withheld
           \/ withheld' \subseteq withheld \cup {Head(todo).r} /\ backlog' = backlog
        /\ Goes(<< >>) /\ UNCHANGED <<node, row, gw, soloOnly, history>>
    BY <1>12, <2>2 DEF WriteBacklog, WithheldIfUnwritten
  <2>5. backlog' \in [Records -> [reason : Reasons, id : Identities] \cup {NoRow}] /\ withheld' \subseteq Records
    BY <1>1, <2>1, <2>3, <2>4
  <2> QED
    BY <1>1, <1>3, <2>4, <2>5 DEF history
<1>13. ASSUME Dies, UNCHANGED <<node, row, backlog>>, gw' \in Identities PROVE Types
  BY <1>1, <1>13 DEF Dies
<1>14. ASSUME DaemonDies \/ \E p \in Pools : GatewayRestarts(p) PROVE Types
  <2>1. CASE DaemonDies
    BY <1>1, <1>13, <2>1 DEF DaemonDies, storeVars
  <2>2. ASSUME NEW p \in Pools, GatewayRestarts(p) PROVE Types
    <3>1. gw' \in Identities
      BY <1>1, <2>2, RemAssumption DEF GatewayRestarts, Identities
    <3> QED
      BY <1>13, <2>2, <3>1 DEF GatewayRestarts
  <2> QED
    BY <1>14, <2>1, <2>2
<1>15. ASSUME Spawn \/ UNCHANGED vars PROVE Types
  BY <1>1, <1>15 DEF Spawn, vars, storeVars, daemonVars, history
<1>16. ASSUME NEW r \in Records, RowApplied(r) \/ Superseded(r) PROVE Types
  <2>1. CASE RowApplied(r)
    BY <1>1, <2>1 DEF RowApplied, daemonVars, history
  <2>2. CASE Superseded(r)
    <3>1. node' \in [Records -> Nodes]
      BY <1>1, <2>2 DEF Superseded, Nodes
    <3> QED
      BY <1>1, <2>2, <3>1 DEF Superseded, daemonVars, history
  <2> QED
    BY <1>16, <2>1, <2>2
<1> HIDE DEF Types
<1>17. CASE Next
  BY <1>2, <1>5, <1>6, <1>7, <1>8, <1>9, <1>10, <1>11, <1>12, <1>14, <1>15, <1>16, <1>17 DEF Next
<1> QED
  BY <1>2, <1>15, <1>17

-----------------------------------------------------------------------------
LEMMA RemStart == Init => RemI
<1> SUFFICES ASSUME Init PROVE RemI
  OBVIOUS
<1>1. /\ \A r \in Records : ~node[r].processed /\ charged[r] = 0
      /\ todo = << >> /\ pc = "idle"
  BY DEF Init
<1>2. TypeOK
  <2>1. gw \in Identities
    BY RemAssumption DEF Init, Identities
  <2> QED
    BY <2>1 DEF Init, TypeOK
<1>3. QueueStands /\ PaidIsSettled /\ MarkedWasApplied /\ NothingVanishes /\ todo \in Seq(TaskTypes)
  BY <1>1 DEF QueueStands, Orderly, PaidIsSettled, MarkedWasApplied, NothingVanishes
<1> QED
  BY <1>2, <1>3 DEF RemI, RemInv

\* The cycle's queue is in order, each task stands, and what was paid is accounted for.
THEOREM RemInductive == Spec => []RemI
<1>1. RemI /\ [Next]_vars => RemI'
  BY QueueStep, TypesStep DEF RemI, RemInv, QueueInv
<1> QED
  BY <1>1, RemStart, PTL DEF Spec

\* One daemon process does not pay for a record again after a reply that was to settle
\* it, whatever fails after that reply, unless a lost lock threw the result away.
THEOREM PaidOnce == Spec => []PaidOnceUnlessDropped
<1>1. RemI => PaidOnceUnlessDropped
  <2> SUFFICES ASSUME RemI, NEW r \in Records \ dropped PROVE charged[r] <= 1
    BY DEF PaidOnceUnlessDropped
  <2>1. charged[r] \in 0..2 /\ (charged[r] > 0 => charged[r] = 1)
    BY DEF RemI, RemInv, TypeOK, PaidIsSettled
  <2> QED
    BY <2>1
<1> QED
  BY <1>1, RemInductive, PTL

\* The backlog is heeded: a record with a row that nothing has changed for is not asked
\* for, and a record that is done in the graph alone is remembered somewhere.
THEOREM BacklogHeeded == Spec => []BacklogIsHeeded
<1>1. RemI => BlockedIsNotSent
  <2> SUFFICES ASSUME RemI, NEW i \in DOMAIN todo, NEW t, t = todo[i],
                      NEW r \in (IF t.op = "batch" THEN t.arg \cap Long
                                 ELSE IF t.op \in {"call", "yield"} THEN {t.r} \cap Long ELSE {})
               PROVE  /\ r \notin withheld
                      /\ backlog[r] # NoRow =>
                            LET b == backlog[r]
                            IN  IF b.reason \in {"connection_lost", "write_failed"} THEN gw.boot # b.id.boot
                                ELSE gw.pool # b.id.pool /\ (b.reason = "no_context" => Ctx[gw.pool] > Ctx[b.id.pool])
    BY DEF BlockedIsNotSent
  <2>1. Stands(t)
    BY DEF RemI, RemInv, QueueStands
  <2>2. Asks(t) /\ r \in Of(t) /\ r \in Records
    BY RemAssumption DEF Asks, Of
  <2>3. r \notin withheld \cup Blocked
    BY <2>1, <2>2 DEF Stands, Askable
  <2>4. ASSUME NEW b, b = backlog[r], b # NoRow
        PROVE  IF b.reason \in {"connection_lost", "write_failed"} THEN gw.boot # b.id.boot
               ELSE gw.pool # b.id.pool /\ (b.reason = "no_context" => Ctx[gw.pool] > Ctx[b.id.pool])
    <3>1. Eligible(b, gw)
      BY <2>2, <2>3, <2>4 DEF Blocked
    <3>2. b \in [reason : Reasons, id : Identities] /\ gw \in Identities
      BY <2>2, <2>4 DEF RemI, RemInv, TypeOK
    <3>3. \A p \in Pools : Ctx[p] \in Nat /\ Reply[p] \in Nat
      BY RemAssumption
    <3>4. b.id.pool \in Pools /\ gw.pool \in Pools
      BY <3>2 DEF Identities
    <3> QED
      BY <3>1, <3>3, <3>4 DEF Eligible
  <2> QED
    BY <2>3, <2>4
<1>2. RemI => BacklogIsHeeded
  BY <1>1 DEF BacklogIsHeeded, RemI, RemInv
<1> QED
  BY <1>2, RemInductive, PTL

=============================================================================
