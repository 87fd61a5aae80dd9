------------------------- MODULE HistoryPagingProofs -------------------------
(***************************************************************************)
(* Proofs about HistoryPaging for any number of tasks, queues and pages.   *)
(***************************************************************************)
EXTENDS HistoryPaging, FiniteSetTheorems, TLAPS

LEMMA ConcatenationShifts ==
    ASSUME NEW S, NEW s \in Seq(S), NEW r \in Seq(S)
    PROVE  /\ s \o r \in Seq(S) /\ Len(s \o r) = Len(s) + Len(r)
           /\ \A i \in 1..(Len(s) + Len(r)) :
                 (s \o r)[i] = IF i <= Len(s) THEN s[i] ELSE r[i - Len(s)]
OBVIOUS

LEMMA InsertAtShifts ==
    ASSUME NEW S, NEW s \in Seq(S), NEW e \in S, NEW k \in 1..(Len(s) + 1)
    PROVE  /\ InsertAt(s, k, e) \in Seq(S)
           /\ Len(InsertAt(s, k, e)) = Len(s) + 1
           /\ \A i \in 1..(Len(s) + 1) :
                 InsertAt(s, k, e)[i] = IF i < k THEN s[i] ELSE IF i = k THEN e ELSE s[i - 1]
<1> DEFINE a == SubSeq(s, 1, k - 1)
           b == SubSeq(s, k, Len(s))
<1>1. a \in Seq(S) /\ Len(a) = k - 1 /\ \A i \in 1..(k - 1) : a[i] = s[i]
  OBVIOUS
<1>2. b \in Seq(S) /\ Len(b) = Len(s) + 1 - k /\ \A i \in 1..(Len(s) + 1 - k) : b[i] = s[k + i - 1]
  OBVIOUS
<1>3. InsertAt(s, k, e) = (a \o <<e>>) \o b
  BY DEF InsertAt
<1> HIDE DEF a, b
<1>4. /\ a \o <<e>> \in Seq(S) /\ Len(a \o <<e>>) = k
      /\ \A i \in 1..k : (a \o <<e>>)[i] = IF i < k THEN a[i] ELSE e
  BY <1>1
<1> DEFINE c == a \o <<e>>
<1> HIDE DEF c
<1>5. c \in Seq(S) /\ Len(c) = k /\ \A i \in 1..k : c[i] = IF i < k THEN a[i] ELSE e
  BY <1>4 DEF c
<1>6. /\ c \o b \in Seq(S) /\ Len(c \o b) = Len(s) + 1
      /\ \A i \in 1..(Len(s) + 1) : (c \o b)[i] = IF i <= k THEN c[i] ELSE b[i - k]
  <2>1. Len(c) + Len(b) = Len(s) + 1
    BY <1>2, <1>5
  <2> QED BY <2>1, <1>2, <1>5, ConcatenationShifts
<1>7. \A i \in 1..(Len(s) + 1) :
          (c \o b)[i] = IF i < k THEN s[i] ELSE IF i = k THEN e ELSE s[i - 1]
  BY <1>1, <1>2, <1>5, <1>6
<1>8. InsertAt(s, k, e) = c \o b
  BY <1>3 DEF c
<1> HIDE DEF InsertAt
<1> QED BY <1>6, <1>7, <1>8

LEMMA TailShifts ==
    ASSUME NEW S, NEW s \in Seq(S), s # <<>>
    PROVE  /\ Tail(s) \in Seq(S) /\ Len(s) \in Nat \ {0} /\ Len(Tail(s)) = Len(s) - 1
           /\ \A i \in 1..(Len(s) - 1) : Tail(s)[i] = s[i + 1]
           /\ Head(s) = s[1] /\ Head(s) \in S
OBVIOUS

LEMMA FirstOfTakes ==
    ASSUME NEW S, NEW s \in Seq(S), NEW n \in Nat
    PROVE  /\ FirstOf(s, n) \in Seq(S)
           /\ Len(FirstOf(s, n)) = (IF n < Len(s) THEN n ELSE Len(s))
           /\ \A i \in 1..Len(FirstOf(s, n)) : FirstOf(s, n)[i] = s[i]
<1>1. CASE n < Len(s)
  BY <1>1 DEF FirstOf
<1>2. CASE ~(n < Len(s))
  BY <1>2 DEF FirstOf
<1> QED BY <1>1, <1>2

LEMMA RestOf ==
    ASSUME NEW S, NEW s \in Seq(S), NEW n \in Nat
    PROVE  /\ SubSeq(s, n + 1, Len(s)) \in Seq(S)
           /\ Len(SubSeq(s, n + 1, Len(s))) = (IF n < Len(s) THEN Len(s) - n ELSE 0)
           /\ \A i \in 1..Len(SubSeq(s, n + 1, Len(s))) : SubSeq(s, n + 1, Len(s))[i] = s[n + i]
<1>1. CASE n < Len(s)
  BY <1>1
<1>2. CASE ~(n < Len(s))
  BY <1>2
<1> QED BY <1>1, <1>2

-----------------------------------------------------------------------------
\* The order of the pages

LEMMA NewerOrders ==
    ASSUME created \in [Task -> 0..MaxTime], MaxTime \in Nat, Tasks \in Nat
    PROVE  /\ \A t \in Task : ~Newer(t, t)
           /\ \A t, u \in Task : t # u => (Newer(t, u) <=> ~Newer(u, t))
           /\ \A t, u, v \in Task : Newer(t, u) /\ Newer(u, v) => Newer(t, v)
BY DEF Newer, Task

LEMMA Ranks ==
    ASSUME created \in [Task -> 0..MaxTime], MaxTime \in Nat, Tasks \in Nat,
           NEW tasks \in SUBSET Task
    PROVE  /\ IsFiniteSet(tasks) /\ Cardinality(tasks) \in Nat
           /\ \A t \in tasks : Rank(t, tasks) \in 1..Cardinality(tasks)
           /\ \A t, u \in tasks : Newer(t, u) => Rank(t, tasks) < Rank(u, tasks)
           /\ \A i \in 1..Cardinality(tasks) : \E t \in tasks : Rank(t, tasks) = i
<1> DEFINE above(t) == {u \in tasks : Newer(u, t)}
           n == Cardinality(tasks)
<1>1. IsFiniteSet(tasks)
  <2>1. IsFiniteSet(Task)
    BY FS_Interval DEF Task
  <2> QED BY <2>1, FS_Subset
<1>2. n \in Nat
  BY <1>1, FS_CardinalityType
<1>3. \A t \in tasks : IsFiniteSet(above(t)) /\ Cardinality(above(t)) \in Nat
  BY <1>1, FS_Subset, FS_CardinalityType
<1>4. ASSUME NEW t \in tasks PROVE Rank(t, tasks) \in 1..n
  <2>1. Cardinality(above(t)) <= n /\ Cardinality(above(t)) # n
    <3>1. above(t) \in SUBSET tasks /\ t \notin above(t)
      BY NewerOrders
    <3> QED BY <3>1, <1>1, <1>3, FS_Subset
  <2>2. Rank(t, tasks) = 1 + Cardinality(above(t))
    BY DEF Rank
  <2> QED BY <2>1, <2>2, <1>2, <1>3
<1>5. ASSUME NEW t \in tasks, NEW u \in tasks, Newer(t, u)
      PROVE  Rank(t, tasks) < Rank(u, tasks)
  <2>1. above(t) \in SUBSET above(u)
    BY <1>5, NewerOrders
  <2>2. t \in above(u) /\ t \notin above(t)
    BY <1>5, NewerOrders
  <2>3. Cardinality(above(t)) <= Cardinality(above(u)) /\ Cardinality(above(t)) # Cardinality(above(u))
    <3> HIDE DEF above
    <3> QED BY <2>1, <2>2, <1>3, FS_Subset
  <2>4. Rank(t, tasks) = 1 + Cardinality(above(t)) /\ Rank(u, tasks) = 1 + Cardinality(above(u))
    BY DEF Rank
  <2> QED BY <2>3, <2>4, <1>3
<1>6. \A i \in 1..n : \E t \in tasks : Rank(t, tasks) = i
  <2> DEFINE f == [t \in tasks |-> Rank(t, tasks)]
  <2>1. f \in [tasks -> 1..n]
    BY <1>4
  <2>2. \A t, u \in tasks : f[t] = f[u] => t = u
    <3> SUFFICES ASSUME NEW t \in tasks, NEW u \in tasks, t # u PROVE f[t] # f[u]
      OBVIOUS
    <3>1. Newer(t, u) \/ Newer(u, t)
      BY NewerOrders
    <3>2. Rank(t, tasks) < Rank(u, tasks) \/ Rank(u, tasks) < Rank(t, tasks)
      BY <3>1, <1>5
    <3> QED BY <3>2, <1>4, <1>2
  <2>3. f \in Injection(tasks, 1..n)
    <3> HIDE DEF f
    <3> QED BY <2>1, <2>2 DEF Injection, IsInjective
  <2>4. IsFiniteSet(1..n) /\ Cardinality(1..n) = n
    BY <1>2, FS_Interval
  <2>5. f \in Surjection(tasks, 1..n)
    <3> HIDE DEF f
    <3> QED BY <2>3, <2>4, FS_Injection
  <2>6. \A i \in 1..n : \E t \in tasks : f[t] = i
    <3> HIDE DEF f
    <3> QED BY <2>5 DEF Surjection
  <2> QED BY <2>6
<1> QED BY <1>1, <1>2, <1>4, <1>5, <1>6

LEMMA NewestFirst ==
    ASSUME created \in [Task -> 0..MaxTime], MaxTime \in Nat, Tasks \in Nat,
           NEW tasks \in SUBSET Task, NEW n \in Nat \ {0}
    PROVE  /\ Newest(tasks, n) \in Seq(tasks)
           /\ \A i, j \in 1..Len(Newest(tasks, n)) :
                 i < j => Newer(Newest(tasks, n)[i], Newest(tasks, n)[j])
           /\ \A t \in tasks :
                 \/ \E i \in 1..Len(Newest(tasks, n)) : Newest(tasks, n)[i] = t
                 \/ \A i \in 1..Len(Newest(tasks, n)) : Newer(Newest(tasks, n)[i], t)
           /\ Newest(tasks, n) = <<>> <=> tasks = {}
<1> DEFINE c == Cardinality(tasks)
           m == IF n < c THEN n ELSE c
           s == Newest(tasks, n)
<1>1. c \in Nat /\ m \in Nat /\ m <= c
  BY Ranks
<1>2. s = [i \in 1..m |-> CHOOSE t \in tasks : Rank(t, tasks) = i]
  BY DEF Newest
<1> HIDE DEF s
<1>3. \A i \in 1..m : s[i] \in tasks /\ Rank(s[i], tasks) = i
  <2> SUFFICES ASSUME NEW i \in 1..m PROVE s[i] \in tasks /\ Rank(s[i], tasks) = i
    OBVIOUS
  <2>1. s[i] = CHOOSE t \in tasks : Rank(t, tasks) = i
    BY <1>2
  <2>2. i \in 1..c
    BY <1>1
  <2>3. \E t \in tasks : Rank(t, tasks) = i
    BY <2>2, Ranks
  <2> QED BY <2>1, <2>3
<1>4. s \in [1..m -> tasks]
  BY <1>2, <1>3
<1>5. s \in Seq(tasks) /\ Len(s) = m
  <2> HIDE DEF m
  <2> QED BY <1>1, <1>4
<1>6. ASSUME NEW t \in tasks, NEW u \in tasks, Rank(t, tasks) < Rank(u, tasks) PROVE Newer(t, u)
  <2>1. Rank(t, tasks) \in 1..c /\ Rank(u, tasks) \in 1..c
    BY Ranks
  <2>2. ~Newer(u, t)
    <3>1. Newer(u, t) => Rank(u, tasks) < Rank(t, tasks)
      BY Ranks
    <3> QED BY <3>1, <1>6, <2>1, <1>1
  <2>3. t # u
    BY <1>6, <2>1, <1>1
  <2> QED BY <2>2, <2>3, NewerOrders
<1>7. \A i, j \in 1..m : i < j => Newer(s[i], s[j])
  BY <1>3, <1>6
<1>8. ASSUME NEW t \in tasks
      PROVE  (\E i \in 1..m : s[i] = t) \/ (\A i \in 1..m : Newer(s[i], t))
  <2>1. Rank(t, tasks) \in 1..c
    BY Ranks
  <2>2. CASE Rank(t, tasks) <= m
    <3> DEFINE i == Rank(t, tasks)
    <3>1. i \in 1..m /\ s[i] \in tasks /\ Rank(s[i], tasks) = i
      BY <2>1, <2>2, <1>1, <1>3
    <3>2. s[i] = t
      <4>1. Newer(s[i], t) => Rank(s[i], tasks) < Rank(t, tasks)
        BY <3>1, Ranks
      <4>2. Newer(t, s[i]) => Rank(t, tasks) < Rank(s[i], tasks)
        BY <3>1, Ranks
      <4>3. ~Newer(s[i], t) /\ ~Newer(t, s[i])
        BY <4>1, <4>2, <3>1, <2>1, <1>1
      <4> QED BY <4>3, <3>1, NewerOrders
    <3> QED BY <3>1, <3>2
  <2>3. CASE m < Rank(t, tasks)
    BY <2>3, <2>1, <1>1, <1>3, <1>6
  <2> QED BY <2>1, <2>2, <2>3, <1>1
<1>9. s = <<>> <=> tasks = {}
  <2>1. tasks = {} <=> c = 0
    BY Ranks, FS_EmptySet
  <2>2. m = 0 <=> c = 0
    BY <1>1
  <2> HIDE DEF m, c
  <2> QED BY <1>1, <1>5, <2>1, <2>2
<1> QED BY <1>5, <1>7, <1>8, <1>9 DEF s

-----------------------------------------------------------------------------
Found   == {"none", "unsent", "match", "other"}
Stamps  == {<<>>} \cup (Nat \X Seq(Task) \X Seq(Task))
Entry   == [task : Task, row : Found]
Message == [task : Task, row : BOOLEAN]

Cursor == [cutoff : 0..MaxTime, anchor : [Queue -> (0..(MaxTime + 1)) \X (0..Tasks)],
           historyDone : BOOLEAN, rawDone : BOOLEAN,
           raw : [queue : 0..Queues, offset : Nat, stamp : Stamps]]

Page == [buffer : [Queue -> Seq(Entry)], size : [Queue -> Nat \ {0}],
         dry : [Queue -> BOOLEAN], rows : 0..Limit, scanned : 0..ScanLimit,
         queue : 0..Queues, offset : Nat, total : Nat, stamp : Stamps,
         messages : Seq(Message)]

\* The types of all variables.
Types ==
    /\ now \in 1..MaxTime
    /\ created \in [Task -> 0..MaxTime]
    /\ index \in SUBSET Task
    /\ found \in [Task -> Found]
    /\ line \in [Queue -> Seq(Task)]
    /\ phase \in Phase
    /\ cursor \in Cursor
    /\ page \in Page
    /\ reported \in [Task -> 0..2]

Waits(t) == \E i \in 1..Len(line[Home(t)]) : line[Home(t)][i] = t

\* A task is in one container at most and there once; the index and the record
\* come and go together, and neither says "other" of a message that waits.
Placed ==
    /\ \A q \in Queue : \A i \in 1..Len(line[q]) : Home(line[q][i]) = q
    /\ \A q \in Queue : \A i, j \in 1..Len(line[q]) : line[q][i] = line[q][j] => i = j
    /\ \A t \in Task : created[t] = 0 => found[t] = "none" /\ ~Waits(t)
    /\ \A t \in Task : t \in index <=> found[t] \in {"match", "other"}
    /\ \A t \in Task : Waits(t) => found[t] \in {"none", "match"}

\* Only its message says that the task exists.
Bare(t) == found[t] = "none" /\ Waits(t)

\* The anchor of the queue has not reached the task.
Before(t, q) ==
    \/ created[t] < cursor.anchor[q][1]
    \/ created[t] = cursor.anchor[q][1] /\ t < cursor.anchor[q][2]

\* What a page has read of a queue's index the anchor has not reached; it comes
\* from new to old and was there before the search.
Held(q, i, t) == i \in 1..Len(page.buffer[q]) /\ page.buffer[q][i].task = t

Buffered ==
    phase = "history" =>
        /\ cursor.historyDone => \A q \in Queue : page.dry[q] /\ page.buffer[q] = <<>>
        /\ \A q \in Queue, i \in Nat, t \in Task : Held(q, i, t) =>
              /\ Home(t) = q /\ created[t] > 0 /\ ~Bare(t)
              /\ created[t] <= cursor.cutoff
              /\ Before(t, q)
        /\ \A q \in Queue, i, j \in Nat, t, u \in Task :
              Held(q, i, t) /\ Held(q, j, u) /\ i < j => Newer(t, u)

\* What a page has read of a container and will show was there before, too.
Listed(i, t) == i \in 1..Len(page.messages) /\ page.messages[i].task = t

Fetched ==
    /\ phase \in {"idle", "history", "open"} => page.messages = <<>>
    /\ \A i \in Nat, t \in Task : Listed(i, t) /\ page.messages[i].row =>
          created[t] > 0 /\ created[t] <= cursor.cutoff

\* So was what the pages have shown.
Shown ==
    /\ phase = "idle" => \A t \in Task : reported[t] = 0
    /\ \A t \in Task : reported[t] > 0 => created[t] > 0 /\ created[t] <= cursor.cutoff

-----------------------------------------------------------------------------
At(t, k) == k \in 1..Len(line[Home(t)]) /\ line[Home(t)][k] = t

\* The pages have read the containers of the queues up to this one, and of this
\* one so many messages.
AtQueue ==
    IF phase = "raw" THEN page.queue
    ELSE IF phase = "open" /\ page.queue # 0 THEN page.queue + 1
    ELSE cursor.raw.queue
AtOffset ==
    IF phase = "raw" THEN page.offset
    ELSE IF phase = "open" /\ page.queue # 0 THEN 0
    ELSE cursor.raw.offset

\* The cursor has passed what has been shown: in the index while that is read, in
\* the containers afterwards.
Behind ==
    \A t \in Task : reported[t] > 0 =>
        /\ reported[t] = 1
        /\ ~cursor.historyDone => ~Before(t, Home(t)) /\ ~Bare(t)
        /\ phase \notin {"done", "refused"} /\ found[t] = "none" =>
              \A k \in Nat : At(t, k) =>
                  Home(t) < AtQueue \/ (Home(t) = AtQueue /\ k <= AtOffset)

\* What has been read of the container and not yet shown lies no further than
\* it lay then.
Ahead ==
    /\ phase \in {"open", "raw"} => cursor.historyDone
    /\ phase = "raw" =>
        /\ page.queue # 0
        /\ \A i \in Nat, t \in Task : Listed(i, t) =>
              /\ Home(t) = page.queue
              /\ page.messages[i].row => reported[t] = 0
              /\ found[t] = "none" => \A k \in Nat : At(t, k) => k <= page.offset + i
        /\ \A i, j \in Nat, t \in Task : Listed(i, t) /\ Listed(j, t) => i = j

LEMMA Bounds ==
    /\ Tasks \in Nat \ {0} /\ Queues \in Nat \ {0} /\ Limit \in Nat \ {0}
    /\ Batch \in Nat \ {0} /\ MaxTime \in Nat \ {0} /\ ScanLimit \in Nat \ {0}
    /\ Containers \in BOOLEAN /\ Insertions \in BOOLEAN
    /\ \A t \in Task : Home(t) \in Queue
BY BoundsAssumption, HomeAssumption DEF Task, Queue

-----------------------------------------------------------------------------
\* What happens meanwhile

\* Where the messages stand after one has come.
LEMMA ArrivesShifts ==
    ASSUME Types, Placed, NEW t \in Task, ~Waits(t), Arrives(t)
    PROVE  /\ line' \in [Queue -> Seq(Task)]
           /\ \A q \in Queue : \A i \in 1..Len(line'[q]) : Home(line'[q][i]) = q
           /\ \A q \in Queue : \A i, j \in 1..Len(line'[q]) : line'[q][i] = line'[q][j] => i = j
           /\ \A u \in Task : u # t /\ Waits(u)' => Waits(u)
           /\ \A u \in Task : u # t /\ ~Insertions =>
                 \A i \in 1..Len(line'[Home(u)]) : line'[Home(u)][i] = u =>
                     i \in 1..Len(line[Home(u)]) /\ line[Home(u)][i] = u
<1> DEFINE h == Home(t)
           s == line[h]
<1>1. PICK k \in 1..(Len(s) + 1) :
          /\ Insertions \/ k = Len(s) + 1
          /\ line' = [line EXCEPT ![h] = InsertAt(s, k, t)]
  BY DEF Arrives
<1>2. h \in Queue /\ s \in Seq(Task) /\ Len(s) \in Nat
  BY Bounds DEF Types
<1> DEFINE r == InsertAt(s, k, t)
<1>3. /\ r \in Seq(Task) /\ Len(r) = Len(s) + 1
      /\ \A i \in 1..(Len(s) + 1) :
            r[i] = IF i < k THEN s[i] ELSE IF i = k THEN t ELSE s[i - 1]
  <2> HIDE DEF s
  <2> QED BY <1>2, InsertAtShifts
<1>4. /\ line' \in [Queue -> Seq(Task)]
      /\ line'[h] = r
      /\ \A q \in Queue : q # h => line'[q] = line[q]
  BY <1>1, <1>2, <1>3 DEF Types
<1> HIDE DEF r
<1>5. \A i \in 1..Len(s) : s[i] # t
  BY DEF Waits
<1>6. /\ \A i \in 1..Len(s) : Home(s[i]) = h
      /\ \A i, j \in 1..Len(s) : s[i] = s[j] => i = j
  BY <1>2 DEF Placed
<1>7. \A i \in 1..Len(r) : Home(r[i]) = h
  <2> TAKE i \in 1..Len(r)
  <2>1. CASE i < k
    BY <2>1, <1>2, <1>3, <1>6
  <2>2. CASE i = k
    BY <2>2, <1>2, <1>3
  <2>3. CASE i > k
    <3>1. i - 1 \in 1..Len(s) /\ r[i] = s[i - 1]
      BY <2>3, <1>2, <1>3
    <3> QED BY <3>1, <1>6
  <2> QED BY <2>1, <2>2, <2>3, <1>2, <1>3
<1>8. \A i, j \in 1..Len(r) : r[i] = r[j] => i = j
  <2> TAKE i, j \in 1..Len(r)
  <2> DEFINE back(a) == IF a < k THEN a ELSE a - 1
  <2>1. \A a \in 1..Len(r) : a # k => back(a) \in 1..Len(s) /\ r[a] = s[back(a)]
    BY <1>2, <1>3
  <2>2. r[k] = t
    BY <1>2, <1>3
  <2>3. CASE i # k /\ j # k
    <3>1. r[i] = r[j] => back(i) = back(j)
      BY <2>1, <2>3, <1>6
    <3> QED BY <3>1, <2>3, <1>2, <1>3
  <2>4. CASE i = k \/ j = k
    BY <2>4, <2>1, <2>2, <1>5
  <2> QED BY <2>3, <2>4
<1>9. ASSUME NEW u \in Task, u # t, NEW i \in 1..Len(line'[Home(u)]), line'[Home(u)][i] = u
      PROVE  /\ Waits(u)
             /\ ~Insertions => i \in 1..Len(line[Home(u)]) /\ line[Home(u)][i] = u
  <2>1. Home(u) \in Queue
    BY Bounds
  <2>2. CASE Home(u) # h
    <3>1. line'[Home(u)] = line[Home(u)]
      BY <2>1, <2>2, <1>4
    <3> QED BY <3>1, <1>9 DEF Waits
  <2>3. CASE Home(u) = h
    <3>1. r[i] = u /\ i \in 1..(Len(s) + 1) /\ i # k
      BY <2>3, <1>9, <1>2, <1>3, <1>4
    <3>2. CASE i < k
      <4>1. i \in 1..Len(s) /\ s[i] = u
        <5> HIDE DEF s
        <5> QED BY <3>1, <3>2, <1>2, <1>3
      <4> QED BY <4>1, <2>3 DEF Waits
    <3>3. CASE i > k
      <4>1. i - 1 \in 1..Len(s) /\ s[i - 1] = u
        <5> HIDE DEF s
        <5> QED BY <3>1, <3>3, <1>2, <1>3
      <4>2. Insertions
        BY <3>1, <3>3, <1>1, <1>2
      <4> QED BY <4>1, <4>2, <2>3 DEF Waits
    <3> QED BY <3>1, <3>2, <3>3, <1>2
  <2> QED BY <2>2, <2>3
<1>10. \A q \in Queue : \A i \in 1..Len(line'[q]) : Home(line'[q][i]) = q
  BY <1>4, <1>7 DEF Placed
<1>11. \A q \in Queue : \A i, j \in 1..Len(line'[q]) : line'[q][i] = line'[q][j] => i = j
  BY <1>4, <1>8 DEF Placed
<1>12. \A u \in Task : u # t /\ Waits(u)' => Waits(u)
  BY <1>9 DEF Waits
<1> QED BY <1>4, <1>9, <1>10, <1>11, <1>12

\* Where the messages stand after the first has left.
LEMMA LeaveShifts ==
    ASSUME Types, Placed, NEW t \in Task, Leave(t)
    PROVE  /\ line' \in [Queue -> Seq(Task)]
           /\ \A q \in Queue : \A i \in 1..Len(line'[q]) : Home(line'[q][i]) = q
           /\ \A q \in Queue : \A i, j \in 1..Len(line'[q]) : line'[q][i] = line'[q][j] => i = j
           /\ ~Waits(t)' /\ created[t] > 0
           /\ \A u \in Task : Waits(u)' => Waits(u)
           /\ \A u \in Task : \A i \in 1..Len(line'[Home(u)]) : line'[Home(u)][i] = u =>
                 \E k \in 1..Len(line[Home(u)]) : k >= i /\ line[Home(u)][k] = u
<1> DEFINE h == Home(t)
           s == line[h]
           r == Tail(s)
<1>1. h \in Queue /\ s \in Seq(Task) /\ s # <<>> /\ Head(s) = t /\ line' = [line EXCEPT ![h] = r]
  BY Bounds DEF Types, Leave
<1>2. /\ r \in Seq(Task) /\ Len(s) \in Nat \ {0} /\ Len(r) = Len(s) - 1
      /\ \A i \in 1..(Len(s) - 1) : r[i] = s[i + 1]
      /\ s[1] = t
  <2> HIDE DEF s
  <2> QED BY <1>1, TailShifts
<1>3. /\ line' \in [Queue -> Seq(Task)]
      /\ line'[h] = r
      /\ \A q \in Queue : q # h => line'[q] = line[q]
  BY <1>1, <1>2 DEF Types
<1> HIDE DEF r
<1>4. /\ \A i \in 1..Len(s) : Home(s[i]) = h
      /\ \A i, j \in 1..Len(s) : s[i] = s[j] => i = j
  BY <1>1 DEF Placed
<1>5. \A i \in 1..Len(r) : i + 1 \in 1..Len(s) /\ r[i] = s[i + 1]
  BY <1>2
<1>6. \A i \in 1..Len(r) : Home(r[i]) = h /\ r[i] # t
  <2> TAKE i \in 1..Len(r)
  <2>1. i + 1 \in 1..Len(s) /\ r[i] = s[i + 1] /\ 1 \in 1..Len(s) /\ i + 1 # 1
    BY <1>2, <1>5
  <2> QED BY <2>1, <1>2, <1>4
<1>7. \A i, j \in 1..Len(r) : r[i] = r[j] => i = j
  <2> TAKE i, j \in 1..Len(r)
  <2>1. r[i] = r[j] => i + 1 = j + 1
    BY <1>4, <1>5
  <2> QED BY <2>1, <1>2
<1>8. ASSUME NEW u \in Task, NEW i \in 1..Len(line'[Home(u)]), line'[Home(u)][i] = u
      PROVE  /\ \E k \in 1..Len(line[Home(u)]) : k >= i /\ line[Home(u)][k] = u
             /\ u # t
  <2>1. Home(u) \in Queue
    BY Bounds
  <2>2. CASE Home(u) # h
    <3>1. line'[Home(u)] = line[Home(u)] /\ line[Home(u)] \in Seq(Task)
      BY <2>1, <2>2, <1>3 DEF Types
    <3> QED BY <3>1, <1>8, <2>2
  <2>3. CASE Home(u) = h
    <3>1. i \in 1..Len(r) /\ r[i] = u
      BY <2>3, <1>8, <1>3
    <3>2. i + 1 \in 1..Len(s) /\ s[i + 1] = u /\ i + 1 >= i /\ u # t
      BY <3>1, <1>2, <1>5, <1>6
    <3> QED BY <3>2, <2>3
  <2> QED BY <2>2, <2>3
<1>9. \A q \in Queue : \A i \in 1..Len(line'[q]) : Home(line'[q][i]) = q
  BY <1>3, <1>6 DEF Placed
<1>10. \A q \in Queue : \A i, j \in 1..Len(line'[q]) : line'[q][i] = line'[q][j] => i = j
  BY <1>3, <1>7 DEF Placed
<1>11. ~Waits(t)' /\ \A u \in Task : Waits(u)' => Waits(u)
  BY <1>8 DEF Waits
<1>12. created[t] > 0
  <2>1. Waits(t)
    BY <1>1, <1>2 DEF Waits
  <2> QED BY <2>1, Bounds DEF Placed, Types
<1> QED BY <1>3, <1>8, <1>9, <1>10, <1>11, <1>12

\* What an event between two steps of a search leaves as it was: the search, the
\* age of a task and, once the search has begun, that no task becomes bare and
\* that a bare one does not move back.
Harmless ==
    /\ UNCHANGED search
    /\ \A u \in Task : created[u] > 0 => created'[u] = created[u]
    /\ phase # "idle" => \A u \in Task : Bare(u)' => Bare(u)
    /\ phase # "idle" /\ ~Insertions =>
          \A u \in Task : found'[u] = "none" =>
              \A i \in 1..Len(line'[Home(u)]) : line'[Home(u)][i] = u =>
                  \E k \in 1..Len(line[Home(u)]) : k >= i /\ line[Home(u)][k] = u

LEMMA NoMoves ==
    ASSUME Types, UNCHANGED line
    PROVE  /\ \A u \in Task : Waits(u)' <=> Waits(u)
           /\ \A u \in Task : \A i \in 1..Len(line'[Home(u)]) : line'[Home(u)][i] = u =>
                 \E k \in 1..Len(line[Home(u)]) : k >= i /\ line[Home(u)][k] = u
<1>1. \A u \in Task : Len(line[Home(u)]) \in Nat
  BY Bounds DEF Types
<1>2. line' = line
  OBVIOUS
<1> QED BY <1>1, <1>2 DEF Waits

LEMMA PrepareHarmless ==
    ASSUME Types, Placed, NEW t \in Task, Prepare(t)
    PROVE  Types' /\ Placed' /\ Harmless
<1>1. created[t] = 0 /\ found[t] = "none" /\ ~Waits(t) /\ now \in 1..MaxTime /\ t \notin index
  BY DEF Prepare, Placed, Types
<1>2. created' = [created EXCEPT ![t] = now] /\ now' \in 1..MaxTime /\ UNCHANGED search
  BY Bounds DEF Prepare, Types
<1>3. CASE "late" \in Events
  <2>1. found' = [found EXCEPT ![t] = "unsent"] /\ UNCHANGED <<index, line>>
    BY <1>3 DEF Prepare
  <2>2. Types'
    BY <1>1, <1>2, <2>1 DEF Types, Found, search
  <2>3. Placed'
    BY <1>1, <1>2, <2>1, NoMoves DEF Placed, Types
  <2>4. Harmless
    BY <1>1, <1>2, <2>1, NoMoves DEF Harmless, Types, Bare
  <2> QED BY <2>2, <2>3, <2>4
<1>4. CASE "late" \notin Events
  <2>1. /\ index' = index \cup {t} /\ found' = [found EXCEPT ![t] = "match"]
        /\ Arrives(t)
    BY <1>4 DEF Prepare
  <2>2. Types'
    BY <1>1, <1>2, <2>1, ArrivesShifts DEF Types, Found, search
  <2>3. Placed'
    BY <1>1, <1>2, <2>1, ArrivesShifts DEF Placed, Types
  <2>4. Harmless
    BY <1>1, <1>2, <2>1, ArrivesShifts DEF Harmless, Types, Bare
  <2> QED BY <2>2, <2>3, <2>4
<1> QED BY <1>3, <1>4

LEMMA CommitHarmless ==
    ASSUME Types, Placed, NEW t \in Task, Commit(t)
    PROVE  Types' /\ Placed' /\ Harmless
<1>1. found[t] = "unsent" /\ ~Waits(t) /\ created[t] # 0
  BY DEF Commit, Placed
<1>2. /\ index' = index \cup {t} /\ found' = [found EXCEPT ![t] = "match"]
      /\ Arrives(t) /\ UNCHANGED <<now, created, search>>
  BY DEF Commit
<1>3. Types'
  BY <1>1, <1>2, ArrivesShifts DEF Types, Found, search
<1>4. Placed'
  BY <1>1, <1>2, ArrivesShifts DEF Placed, Types
<1>5. Harmless
  BY <1>1, <1>2, ArrivesShifts DEF Harmless, Types, Bare
<1> QED BY <1>3, <1>4, <1>5

LEMMA LegacyHarmless ==
    ASSUME Types, Placed, NEW t \in Task, Legacy(t)
    PROVE  Types' /\ Placed' /\ Harmless
<1>1. created[t] = 0 /\ found[t] = "none" /\ ~Waits(t) /\ phase = "idle" /\ now \in 1..MaxTime
  BY DEF Legacy, Placed, Types
<1>2. /\ created' = [created EXCEPT ![t] = now]
      /\ Arrives(t) /\ UNCHANGED <<now, index, found, search>>
  BY DEF Legacy
<1>3. Types'
  BY <1>1, <1>2, ArrivesShifts DEF Types, Found, search
<1>4. Placed'
  BY <1>1, <1>2, ArrivesShifts DEF Placed, Types
<1>5. Harmless
  BY <1>1, <1>2, ArrivesShifts DEF Harmless, Types
<1> QED BY <1>3, <1>4, <1>5

LEMMA LeaveHarmless ==
    ASSUME Types, Placed, NEW t \in Task, Leave(t)
    PROVE  Types' /\ Placed' /\ Harmless
<1>1. /\ index' = index \cup {t} /\ found' = [found EXCEPT ![t] = "other"]
      /\ UNCHANGED <<now, created, search>>
  BY DEF Leave
<1>2. Types'
  BY <1>1, LeaveShifts DEF Types, Found, search
<1>3. Placed'
  <2>1. /\ ~Waits(t)' /\ created[t] > 0
        /\ \A u \in Task : Waits(u)' => Waits(u)
    BY LeaveShifts
  <2>2. \A u \in Task : /\ created'[u] = 0 => found'[u] = "none" /\ ~Waits(u)'
                        /\ u \in index' <=> found'[u] \in {"match", "other"}
                        /\ Waits(u)' => found'[u] \in {"none", "match"}
    BY <1>1, <2>1 DEF Placed, Types
  <2> QED BY <2>2, LeaveShifts DEF Placed
<1>4. Harmless
  BY <1>1, LeaveShifts DEF Harmless, Types, Bare
<1> QED BY <1>2, <1>3, <1>4

LEMMA ReturnHarmless ==
    ASSUME Types, Placed, NEW t \in Task, Return(t)
    PROVE  Types' /\ Placed' /\ Harmless
<1>1. found[t] = "other" /\ ~Waits(t) /\ created[t] # 0 /\ t \in index
  BY DEF Return, Placed
<1>2. /\ found' = [found EXCEPT ![t] = "match"]
      /\ Arrives(t) /\ UNCHANGED <<now, created, index, search>>
  BY DEF Return
<1>3. Types'
  BY <1>1, <1>2, ArrivesShifts DEF Types, Found, search
<1>4. Placed'
  BY <1>1, <1>2, ArrivesShifts DEF Placed, Types
<1>5. Harmless
  BY <1>1, <1>2, ArrivesShifts DEF Harmless, Types, Bare
<1> QED BY <1>3, <1>4, <1>5

LEMMA ForgetHarmless ==
    ASSUME Types, Placed, NEW t \in Task, Forget(t)
    PROVE  Types' /\ Placed' /\ Harmless
<1>1. found[t] = "other" /\ ~Waits(t) /\ created[t] # 0
  BY DEF Forget, Placed
<1>2. /\ found' = [found EXCEPT ![t] = "none"] /\ index' = index \ {t}
      /\ UNCHANGED <<now, created, line, search>>
  BY DEF Forget
<1>3. Types'
  BY <1>1, <1>2 DEF Types, Found, search
<1>4. Placed'
  BY <1>1, <1>2, NoMoves DEF Placed, Types
<1>5. Harmless
  BY <1>1, <1>2, NoMoves DEF Harmless, Types, Bare
<1> QED BY <1>3, <1>4, <1>5

-----------------------------------------------------------------------------
\* The steps of the search

Untouched == UNCHANGED <<created, index, found, line>>

LEMMA StartDoes ==
    ASSUME Types, Start
    PROVE  /\ Types' /\ Untouched /\ UNCHANGED <<page, reported>>
           /\ phase = "idle" /\ phase' = "between"
           /\ cursor'.cutoff = now
           /\ cursor'.historyDone = cursor.historyDone /\ cursor'.raw = cursor.raw
           /\ cursor'.anchor = cursor.anchor
           /\ cursor'.rawDone = (~Containers)
<1>1. /\ cursor' = [cursor EXCEPT !.cutoff = now, !.rawDone = ~Containers]
      /\ phase = "idle" /\ phase' = "between" /\ now' \in 1..MaxTime
      /\ UNCHANGED <<data, page, reported>>
  BY Bounds DEF Start, Types
<1>2. now \in 0..MaxTime /\ (~Containers) \in BOOLEAN
  BY Bounds DEF Types
<1>3. cursor' \in Cursor
  BY <1>1, <1>2 DEF Types, Cursor
<1>4. Types'
  BY <1>1, <1>3 DEF Types, data, Phase
<1> QED BY <1>1, <1>4 DEF Types, Cursor, data, Untouched

LEMMA BeginPageDoes ==
    ASSUME Types, BeginPage
    PROVE  /\ Types' /\ Untouched /\ UNCHANGED <<cursor, reported>>
           /\ phase = "between" /\ phase' = "history"
           /\ page'.buffer = [q \in Queue |-> <<>>]
           /\ page'.dry = [q \in Queue |-> cursor.historyDone]
           /\ page'.messages = <<>> /\ page'.queue = 0
<1>1. /\ page' = [EmptyPage EXCEPT !.dry = [q \in Queue |-> cursor.historyDone]]
      /\ phase = "between" /\ phase' = "history"
      /\ UNCHANGED <<now, data, cursor, reported>>
  BY DEF BeginPage
<1>2. /\ cursor.historyDone \in BOOLEAN
      /\ <<>> \in Seq(Entry) /\ <<>> \in Seq(Message) /\ <<>> \in Stamps
  BY DEF Types, Cursor, Stamps
<1> DEFINE d == [q \in Queue |-> cursor.historyDone]
           b == [q \in Queue |-> <<>>]
           n == [q \in Queue |-> 1]
<1>3. /\ page'.buffer = b
      /\ page'.dry = d
      /\ page'.messages = <<>> /\ page'.queue = 0
      /\ page' \in Page
  <2>1. b \in [Queue -> Seq(Entry)] /\ n \in [Queue -> Nat \ {0}]
    BY <1>2
  <2>2. d \in [Queue -> BOOLEAN]
    BY <1>2, Zenon
  <2>3. page' = [EmptyPage EXCEPT !.dry = d]
    BY <1>1
  <2>4. EmptyPage = [buffer |-> b, size |-> n, dry |-> [q \in Queue |-> FALSE],
                     rows |-> 0, scanned |-> 0, queue |-> 0, offset |-> 0, total |-> 0,
                     stamp |-> <<>>, messages |-> <<>>]
    BY DEF EmptyPage
  <2>5. 0 \in 0..Limit /\ 0 \in 0..ScanLimit /\ 0 \in 0..Queues
    BY Bounds
  <2> HIDE DEF b, d, n
  <2>6. page' = [buffer |-> b, size |-> n, dry |-> d,
                 rows |-> 0, scanned |-> 0, queue |-> 0, offset |-> 0, total |-> 0,
                 stamp |-> <<>>, messages |-> <<>>]
    BY <2>3, <2>4
  <2> QED BY <1>2, <2>1, <2>2, <2>5, <2>6 DEF Page
<1>4. Types'
  BY <1>1, <1>3 DEF Types, data, Phase
<1> QED BY <1>1, <1>3, <1>4 DEF data, Untouched

Waiting(q) == {t \in Task : Eligible(t, q)}

LEMMA FillDoes ==
    ASSUME Types, NEW q \in Queue, Fill(q)
    PROVE  /\ Types' /\ Untouched /\ UNCHANGED <<phase, cursor, reported>>
           /\ phase = "history" /\ ~page.dry[q] /\ page.buffer[q] = <<>>
           /\ page'.messages = page.messages /\ page'.queue = page.queue
           /\ \A p \in Queue : page'.dry[p] =
                 IF p = q THEN page'.buffer[q] = <<>> ELSE page.dry[p]
           /\ \A p \in Queue : p # q => page'.buffer[p] = page.buffer[p]
           /\ Newest(Waiting(q), page.size[q]) \in Seq(Waiting(q))
           /\ Len(page'.buffer[q]) = Len(Newest(Waiting(q), page.size[q]))
           /\ \A i \in 1..Len(page'.buffer[q]) :
                 /\ page'.buffer[q][i].task = Newest(Waiting(q), page.size[q])[i]
                 /\ page'.buffer[q][i].row = found[page'.buffer[q][i].task]
<1> DEFINE read == Newest(Waiting(q), page.size[q])
           b == [i \in 1..Len(read) |-> [task |-> read[i], row |-> found[read[i]]]]
<1>1. /\ page' = [page EXCEPT !.buffer[q] = b, !.size[q] = Batch, !.dry[q] = read = <<>>]
      /\ phase = "history" /\ ~page.dry[q] /\ page.buffer[q] = <<>>
      /\ UNCHANGED <<now, data, phase, cursor, reported>>
  BY DEF Fill, ToFill, Waiting
<1>2. page.size[q] \in Nat \ {0} /\ Waiting(q) \in SUBSET Task
  BY DEF Types, Page, Waiting
<1>3. read \in Seq(Waiting(q))
  BY <1>2, NewestFirst, Bounds DEF Types
<1> HIDE DEF read
<1>4. /\ b \in Seq(Entry) /\ Len(b) = Len(read)
      /\ \A i \in 1..Len(read) : b[i].task = read[i] /\ b[i].row = found[read[i]]
      /\ b = <<>> <=> read = <<>>
  <2>1. Len(read) \in Nat /\ \A i \in 1..Len(read) : read[i] \in Task
    BY <1>2, <1>3
  <2>2. \A i \in 1..Len(read) : b[i] \in Entry /\ b[i].task = read[i] /\ b[i].row = found[read[i]]
    BY <2>1 DEF Types, Entry
  <2>3. b \in [1..Len(read) -> Entry]
    BY <2>2
  <2>4. b \in Seq(Entry) /\ Len(b) = Len(read)
    BY <2>1, <2>3
  <2> QED BY <1>3, <2>2, <2>4
<1> HIDE DEF b
<1>5. page' \in Page
  <2>1. page \in Page /\ Batch \in Nat \ {0} /\ (read = <<>>) \in BOOLEAN
    BY Bounds DEF Types
  <2> QED BY <1>1, <1>4, <2>1 DEF Page
<1>6. /\ page'.buffer = [page.buffer EXCEPT ![q] = b]
      /\ page'.dry = [page.dry EXCEPT ![q] = read = <<>>]
      /\ page'.messages = page.messages /\ page'.queue = page.queue
      /\ page.buffer \in [Queue -> Seq(Entry)] /\ page.dry \in [Queue -> BOOLEAN]
  BY <1>1 DEF Types, Page
<1>7. Types'
  BY <1>1, <1>5 DEF Types, data, Phase
<1>8. page'.buffer[q] = b /\ \A p \in Queue : p # q => page'.buffer[p] = page.buffer[p]
  BY <1>6
<1>9. \A p \in Queue : page'.dry[p] = IF p = q THEN page'.buffer[q] = <<>> ELSE page.dry[p]
  <2>1. (read = <<>>) = (b = <<>>)
    BY <1>4
  <2> QED BY <1>6, <1>8, <2>1
<1> QED BY <1>1, <1>3, <1>4, <1>6, <1>7, <1>8, <1>9 DEF data, Untouched, read

LEMMA ReportDoes ==
    ASSUME Types, NEW t \in Task, Report(t)
    PROVE  /\ reported' \in [Task -> 0..2]
           /\ reported'[t] > 0 /\ (reported[t] = 0 => reported'[t] = 1)
           /\ \A u \in Task : u # t => reported'[u] = reported[u]
BY DEF Report, Types

LEMMA MergeDoes ==
    ASSUME Types, NEW q \in Queue, Merge(q)
    PROVE  /\ Types' /\ Untouched /\ UNCHANGED phase
           /\ phase = "history" /\ page.buffer[q] # <<>>
           /\ page.buffer[q] \in Seq(Entry)
           /\ \A p \in Queue : page'.buffer[p] =
                 IF p = q THEN Tail(page.buffer[q]) ELSE page.buffer[p]
           /\ page'.dry = page.dry
           /\ page'.messages = page.messages /\ page'.queue = page.queue
           /\ cursor'.cutoff = cursor.cutoff
           /\ cursor'.historyDone = cursor.historyDone /\ cursor'.raw = cursor.raw
           /\ cursor'.rawDone = cursor.rawDone
           /\ \A p \in Queue : cursor'.anchor[p] =
                 IF p = q THEN <<created[page.buffer[q][1].task], page.buffer[q][1].task>>
                 ELSE cursor.anchor[p]
           /\ \A u \in Task : reported'[u] # reported[u] =>
                 u = page.buffer[q][1].task /\ page.buffer[q][1].row = "match"
           /\ \A u \in Task : reported[u] = 0 => reported'[u] <= 1
           /\ page.buffer[q][1].row = "match" => reported'[page.buffer[q][1].task] > 0
<1> DEFINE s == page.buffer[q]
           head == Head(s)
<1>1. /\ page \in Page /\ s # <<>> /\ phase = "history"
      /\ page.rows # Limit /\ page.scanned # ScanLimit /\ cursor \in Cursor
  BY DEF Types, Merge, Full, Available
<1>2. s \in Seq(Entry)
  BY <1>1 DEF Page
<1>3. Tail(s) \in Seq(Entry) /\ head = s[1] /\ head \in Entry /\ 1 \in 1..Len(s)
  <2> HIDE DEF s
  <2> QED BY <1>1, <1>2, TailShifts
<1> DEFINE r == IF head.row = "match" THEN page.rows + 1 ELSE page.rows
           a == <<created[head.task], head.task>>
<1>4. /\ page' = [page EXCEPT !.buffer[q] = Tail(s), !.scanned = page.scanned + 1, !.rows = r]
      /\ cursor' = [cursor EXCEPT !.anchor[q] = a]
      /\ IF head.row = "match" THEN Report(head.task) ELSE UNCHANGED reported
      /\ UNCHANGED <<now, data, phase>>
  BY DEF Merge
<1>5. r \in 0..Limit /\ page.scanned + 1 \in 0..ScanLimit
  BY <1>1, Bounds DEF Page
<1>6. head.task \in Task /\ a \in (0..(MaxTime + 1)) \X (0..Tasks)
  <2>1. head.task \in Task
    <3> HIDE DEF head
    <3> QED BY <1>3 DEF Entry
  <2>2. \A t \in Task : created[t] \in 0..(MaxTime + 1) /\ t \in 0..Tasks
    BY Bounds DEF Types, Task
  <2> QED BY <2>1, <2>2
<1>7. /\ reported' \in [Task -> 0..2]
      /\ \A u \in Task : reported'[u] # reported[u] => u = head.task /\ head.row = "match"
      /\ \A u \in Task : reported[u] = 0 => reported'[u] <= 1
      /\ head.row = "match" => reported'[head.task] > 0
  <2> HIDE DEF head
  <2>1. CASE head.row = "match"
    <3>1. Report(head.task) /\ head.task \in Task
      BY <1>4, <1>6, <2>1
    <3>2. reported[head.task] \in 0..2 /\ reported'[head.task] \in 0..2
      BY <3>1, ReportDoes DEF Types
    <3> QED BY <2>1, <3>1, <3>2, ReportDoes
  <2>2. CASE head.row # "match"
    BY <1>4, <2>2 DEF Types
  <2> QED BY <2>1, <2>2
<1> HIDE DEF s, r, a, head
<1>8. page' \in Page
  BY <1>1, <1>3, <1>4, <1>5 DEF Page
<1>9. cursor' \in Cursor
  BY <1>1, <1>4, <1>6 DEF Cursor
<1>10. Types'
  BY <1>4, <1>7, <1>8, <1>9 DEF Types, data
<1>11. /\ \A p \in Queue : page'.buffer[p] = IF p = q THEN Tail(s) ELSE page.buffer[p]
       /\ page'.dry = page.dry /\ page'.messages = page.messages /\ page'.queue = page.queue
  BY <1>1, <1>4 DEF Page
<1>12. /\ cursor'.cutoff = cursor.cutoff
       /\ cursor'.historyDone = cursor.historyDone /\ cursor'.raw = cursor.raw
       /\ cursor'.rawDone = cursor.rawDone
       /\ \A p \in Queue : cursor'.anchor[p] = IF p = q THEN a ELSE cursor.anchor[p]
  BY <1>1, <1>4 DEF Cursor
<1>13. Untouched /\ phase' = phase
  BY <1>4 DEF data, Untouched
<1>14. a = <<created[s[1].task], s[1].task>>
  BY <1>3 DEF a
<1> QED BY <1>1, <1>2, <1>3, <1>7, <1>10, <1>11, <1>12, <1>13, <1>14 DEF s

\* Which container the search stands at, by its phase.
Turn ==
    /\ phase = "history" => page.queue = 0
    /\ phase = "open" => page.queue < Queues
    /\ phase = "raw" => page.queue \in Queue

LEMMA HistoryEndsDoes ==
    ASSUME Types, HistoryEnds
    PROVE  /\ Types' /\ Untouched /\ UNCHANGED <<page, reported>>
           /\ phase = "history" /\ phase' \in {"open", "between", "done"}
           /\ cursor'.cutoff = cursor.cutoff /\ cursor'.anchor = cursor.anchor
           /\ cursor'.raw = cursor.raw
           /\ cursor'.historyDone = (Available = {})
           /\ phase' = "open" => Available = {} /\ ~cursor.rawDone
           /\ phase' = "done" => Available = {} /\ cursor.rawDone
           /\ cursor'.rawDone = cursor.rawDone
           /\ \A q \in Queue : ~ToFill(q)
<1> DEFINE over == Available = {}
<1>1. /\ phase = "history"
      /\ phase' = IF over /\ ~cursor.rawDone /\ ~Full THEN "open"
                  ELSE IF over /\ cursor.rawDone THEN "done" ELSE "between"
      /\ cursor' = [cursor EXCEPT !.historyDone = over]
      /\ \A q \in Queue : ~ToFill(q)
      /\ UNCHANGED <<now, data, page, reported>>
  BY DEF HistoryEnds
<1> HIDE DEF over
<1>2. over \in BOOLEAN
  BY DEF over
<1>3. /\ cursor' \in Cursor
      /\ cursor'.cutoff = cursor.cutoff /\ cursor'.anchor = cursor.anchor
      /\ cursor'.raw = cursor.raw /\ cursor'.historyDone = over
      /\ cursor'.rawDone = cursor.rawDone
  BY <1>1, <1>2 DEF Types, Cursor
<1>4. /\ phase' \in {"open", "between", "done"}
      /\ phase' = "open" => over /\ ~cursor.rawDone
      /\ phase' = "done" => over /\ cursor.rawDone
  BY <1>1
<1>5. Types'
  BY <1>1, <1>3, <1>4 DEF Types, data, Phase
<1> QED BY <1>1, <1>3, <1>4, <1>5 DEF data, Untouched, over

LEMMA StampType ==
    ASSUME Types, NEW q \in Queue
    PROVE  Stamp(q) \in Nat \X Seq(Task) \X Seq(Task)
<1> DEFINE s == line[q]
           r == Reverse(s)
<1>1. s \in Seq(Task) /\ Len(s) \in Nat
  BY DEF Types
<1> HIDE DEF s
<1>2. r \in Seq(Task)
  <2>1. r = [i \in 1..Len(s) |-> s[(Len(s) - i) + 1]]
    BY DEF Reverse
  <2>2. \A i \in 1..Len(s) : s[(Len(s) - i) + 1] \in Task
    BY <1>1
  <2>3. r \in [1..Len(s) -> Task]
    BY <2>1, <2>2
  <2> HIDE DEF r
  <2> QED BY <2>3, <1>1
<1> HIDE DEF r
<1>3. FirstOf(s, 1) \in Seq(Task) /\ FirstOf(r, 1) \in Seq(Task)
  BY <1>1, <1>2, FirstOfTakes
<1>4. Stamp(q) = <<Len(s), FirstOf(s, 1), FirstOf(r, 1)>>
  BY DEF Stamp, s, r
<1> QED BY <1>1, <1>3, <1>4

Resumed == cursor.raw.queue # 0 /\ page.queue = 0

LEMMA OpenDoes ==
    ASSUME Types, Turn, Open
    PROVE  /\ Types' /\ Untouched /\ UNCHANGED <<cursor, reported>>
           /\ phase = "open" /\ phase' \in {"raw", "refused"}
           /\ page'.buffer = page.buffer /\ page'.dry = page.dry
           /\ page'.messages = page.messages
           /\ page'.queue = IF Resumed THEN cursor.raw.queue ELSE page.queue + 1
           /\ page'.offset = IF Resumed THEN cursor.raw.offset ELSE 0
           /\ page'.queue \in Queue
           /\ page'.total = Len(line[page'.queue]) /\ page'.stamp = Stamp(page'.queue)
           /\ phase' = "raw" /\ Resumed => cursor.raw.stamp = Stamp(page'.queue)
<1> DEFINE q == IF Resumed THEN cursor.raw.queue ELSE page.queue + 1
           o == IF Resumed THEN cursor.raw.offset ELSE 0
<1>1. /\ phase = "open" /\ phase' \in {"raw", "refused"}
      /\ phase' = "raw" /\ Resumed => cursor.raw.stamp = Stamp(q)
      /\ page' = [page EXCEPT !.queue = q, !.total = Len(line[q]), !.stamp = Stamp(q),
                              !.offset = o]
      /\ UNCHANGED <<now, data, cursor, reported>>
  BY DEF Open, Resumed
<1>2. q \in Queue /\ o \in Nat
  <2>1. /\ page.queue \in 0..Queues /\ page.queue < Queues
        /\ cursor.raw.queue \in 0..Queues /\ cursor.raw.offset \in Nat
    BY <1>1 DEF Turn, Types, Page, Cursor
  <2>2. CASE Resumed
    BY <2>1, <2>2, Bounds DEF Queue, Resumed
  <2>3. CASE ~Resumed
    BY <2>1, <2>3, Bounds DEF Queue
  <2> QED BY <2>2, <2>3
<1> HIDE DEF q, o
<1>3. Len(line[q]) \in Nat /\ Stamp(q) \in Stamps
  BY <1>2, StampType DEF Types, Stamps
<1>4. q \in 0..Queues
  BY <1>2, Bounds DEF Queue
<1>5. /\ page' \in Page
      /\ page'.buffer = page.buffer /\ page'.dry = page.dry
      /\ page'.messages = page.messages /\ page'.queue = q /\ page'.offset = o
      /\ page'.total = Len(line[q]) /\ page'.stamp = Stamp(q)
  BY <1>1, <1>2, <1>3, <1>4 DEF Types, Page
<1>6. Types'
  BY <1>1, <1>5 DEF Types, data, Phase
<1> QED BY <1>1, <1>2, <1>5, <1>6 DEF data, Untouched, q, o

LEMMA RawReadDoes ==
    ASSUME Types, Turn, RawRead
    PROVE  /\ Types' /\ Untouched /\ UNCHANGED <<phase, cursor, reported>>
           /\ phase = "raw" /\ page.messages = <<>>
           /\ page'.buffer = page.buffer /\ page'.dry = page.dry
           /\ page'.queue = page.queue /\ page'.offset = page.offset
           /\ \A i \in 1..Len(page'.messages) :
                 /\ page.offset + i \in 1..Len(line[page.queue])
                 /\ page'.messages[i].task = line[page.queue][page.offset + i]
                 /\ page'.messages[i].row <=>
                       /\ ~(line[page.queue][page.offset + i] \in index
                               /\ found[line[page.queue][page.offset + i]] # "none")
                       /\ created[line[page.queue][page.offset + i]] <= cursor.cutoff
           /\ page'.stamp = page.stamp
           /\ \/ page'.total = page.total
              \/ page'.total = page.offset /\ Len(line[page.queue]) <= page.offset
<1> DEFINE room == ScanLimit - page.scanned
           take == IF Batch < room THEN Batch ELSE room
           s == line[page.queue]
           rest == SubSeq(s, page.offset + 1, Len(s))
           read == FirstOf(rest, take)
           row(t) == ~(t \in index /\ found[t] # "none") /\ created[t] <= cursor.cutoff
           m == [i \in 1..Len(read) |-> [task |-> read[i], row |-> row(read[i])]]
<1>1. /\ phase = "raw" /\ page.messages = <<>> /\ page.scanned # ScanLimit
      /\ page' = IF read = <<>> THEN [page EXCEPT !.total = page.offset]
                 ELSE [page EXCEPT !.messages = m]
      /\ UNCHANGED <<now, data, phase, cursor, reported>>
  BY DEF RawRead, Full
<1>2. /\ page.offset \in Nat /\ page.scanned \in 0..ScanLimit /\ page.queue \in Queue
      /\ s \in Seq(Task) /\ page \in Page
  BY <1>1 DEF Types, Page, Turn
<1>3. take \in Nat \ {0}
  BY <1>1, <1>2, Bounds
<1> HIDE DEF s
<1>4. /\ rest \in Seq(Task) /\ Len(rest) \in Nat
      /\ Len(rest) = (IF page.offset < Len(s) THEN Len(s) - page.offset ELSE 0)
      /\ \A i \in 1..Len(rest) : rest[i] = s[page.offset + i]
  <2> DEFINE from(n) == SubSeq(s, n + 1, Len(s))
  <2>1. \A n \in Nat : /\ from(n) \in Seq(Task) /\ Len(from(n)) \in Nat
                       /\ Len(from(n)) = (IF n < Len(s) THEN Len(s) - n ELSE 0)
                       /\ \A i \in 1..Len(from(n)) : from(n)[i] = s[n + i]
    <3> TAKE n \in Nat
    <3>1. from(n) \in Seq(Task)
      BY <1>2, RestOf
    <3>2. Len(from(n)) = (IF n < Len(s) THEN Len(s) - n ELSE 0)
      BY <1>2, RestOf
    <3>3. \A i \in 1..Len(from(n)) : from(n)[i] = s[n + i]
      BY <1>2, RestOf
    <3>4. Len(from(n)) \in Nat
      <4> HIDE DEF from
      <4> QED BY <3>1
    <3> QED BY <3>1, <3>2, <3>3, <3>4
  <2>2. rest = from(page.offset)
    OBVIOUS
  <2> HIDE DEF from, rest
  <2> QED BY <1>2, <2>1, <2>2
<1> HIDE DEF rest, take
<1>5. /\ read \in Seq(Task) /\ Len(read) \in Nat
      /\ Len(read) <= Len(rest) /\ (Len(rest) > 0 => Len(read) > 0)
      /\ \A i \in 1..Len(read) : read[i] = rest[i]
  BY <1>3, <1>4, FirstOfTakes
<1> HIDE DEF read
<1>6. \A i \in 1..Len(read) :
          /\ page.offset + i \in 1..Len(s) /\ read[i] = s[page.offset + i]
          /\ read[i] \in Task
  BY <1>2, <1>4, <1>5
<1>7. /\ m \in Seq(Message) /\ Len(m) = Len(read)
      /\ \A i \in 1..Len(read) : m[i].task = read[i] /\ m[i].row = row(read[i])
  <2>1. \A i \in 1..Len(read) : row(read[i]) \in BOOLEAN
    OBVIOUS
  <2> HIDE DEF row
  <2>2. \A i \in 1..Len(read) : m[i] \in Message /\ m[i].task = read[i] /\ m[i].row = row(read[i])
    BY <2>1, <1>6 DEF Message
  <2>3. m \in [1..Len(read) -> Message]
    BY <2>2
  <2> HIDE DEF m
  <2> QED BY <2>2, <2>3, <1>5
<1> HIDE DEF m
<1>8. /\ page' \in Page
      /\ page'.buffer = page.buffer /\ page'.dry = page.dry
      /\ page'.queue = page.queue /\ page'.offset = page.offset
      /\ page'.messages = IF read = <<>> THEN page.messages ELSE m
      /\ page'.stamp = page.stamp
      /\ page'.total = IF read = <<>> THEN page.offset ELSE page.total
  BY <1>1, <1>2, <1>7 DEF Page
<1>9. Types'
  BY <1>1, <1>8 DEF Types, data
<1>10. \A i \in 1..Len(page'.messages) :
           /\ page.offset + i \in 1..Len(s)
           /\ page'.messages[i].task = s[page.offset + i]
           /\ page'.messages[i].row <=> row(s[page.offset + i])
  <2> HIDE DEF row
  <2>1. CASE read = <<>>
    BY <2>1, <1>1, <1>8
  <2>2. CASE read # <<>>
    BY <2>2, <1>6, <1>7, <1>8
  <2> QED BY <2>1, <2>2
<1>11. page'.total = page.total \/ (page'.total = page.offset /\ Len(s) <= page.offset)
  <2>1. CASE read = <<>>
    <3>1. Len(rest) = 0
      BY <2>1, <1>4, <1>5
    <3>2. Len(s) \in Nat
      BY <1>2
    <3> QED BY <2>1, <3>1, <3>2, <1>2, <1>4, <1>8
  <2>2. CASE read # <<>>
    BY <2>2, <1>8
  <2> QED BY <2>1, <2>2
<1> QED BY <1>1, <1>8, <1>9, <1>10, <1>11 DEF data, Untouched, s

LEMMA RawTakeDoes ==
    ASSUME Types, RawTake
    PROVE  /\ Types' /\ Untouched /\ UNCHANGED <<phase, cursor>>
           /\ phase = "raw" /\ page.messages # <<>> /\ page.messages \in Seq(Message)
           /\ page'.buffer = page.buffer /\ page'.dry = page.dry
           /\ page'.queue = page.queue /\ page'.offset = page.offset + 1
           /\ page'.messages = Tail(page.messages)
           /\ page'.total = page.total /\ page'.stamp = page.stamp
           /\ \A u \in Task : reported'[u] # reported[u] =>
                 u = page.messages[1].task /\ page.messages[1].row
           /\ \A u \in Task : reported[u] = 0 => reported'[u] <= 1
           /\ page.messages[1].row => reported'[page.messages[1].task] > 0
<1> DEFINE s == page.messages
           head == Head(s)
<1>1. /\ page \in Page /\ s # <<>> /\ phase = "raw"
      /\ page.rows # Limit /\ page.scanned # ScanLimit
  BY DEF Types, RawTake, Full
<1>2. s \in Seq(Message)
  BY <1>1 DEF Page
<1>3. Tail(s) \in Seq(Message) /\ head = s[1] /\ head \in Message /\ 1 \in 1..Len(s)
  <2> HIDE DEF s
  <2> QED BY <1>1, <1>2, TailShifts
<1> DEFINE r == IF head.row THEN page.rows + 1 ELSE page.rows
<1>4. /\ page' = [page EXCEPT !.messages = Tail(s), !.offset = page.offset + 1,
                              !.scanned = page.scanned + 1, !.rows = r]
      /\ IF head.row THEN Report(head.task) ELSE UNCHANGED reported
      /\ UNCHANGED <<now, data, phase, cursor>>
  BY DEF RawTake
<1>5. r \in 0..Limit /\ page.scanned + 1 \in 0..ScanLimit /\ page.offset + 1 \in Nat
  BY <1>1, Bounds DEF Page
<1> HIDE DEF head
<1>6. head.task \in Task
  BY <1>3 DEF Message
<1>7. /\ reported' \in [Task -> 0..2]
      /\ \A u \in Task : reported'[u] # reported[u] => u = head.task /\ head.row
      /\ \A u \in Task : reported[u] = 0 => reported'[u] <= 1
      /\ head.row => reported'[head.task] > 0
  <2>1. CASE head.row
    <3>1. Report(head.task) /\ head.task \in Task
      BY <1>4, <1>6, <2>1
    <3>2. reported[head.task] \in 0..2 /\ reported'[head.task] \in 0..2
      BY <3>1, ReportDoes DEF Types
    <3> QED BY <2>1, <3>1, <3>2, ReportDoes
  <2>2. CASE ~head.row
    BY <1>4, <2>2 DEF Types
  <2> QED BY <2>1, <2>2
<1> HIDE DEF s, r
<1>8. /\ page' \in Page
      /\ page'.buffer = page.buffer /\ page'.dry = page.dry
      /\ page'.queue = page.queue /\ page'.offset = page.offset + 1
      /\ page'.messages = Tail(s)
      /\ page'.total = page.total /\ page'.stamp = page.stamp
  BY <1>1, <1>3, <1>4, <1>5 DEF Page
<1>9. Types'
  BY <1>4, <1>7, <1>8 DEF Types, data
<1>10. Untouched /\ UNCHANGED <<phase, cursor>>
  BY <1>4 DEF data, Untouched
<1> QED BY <1>1, <1>2, <1>3, <1>7, <1>8, <1>9, <1>10 DEF s

LEMMA RawEndsDoes ==
    ASSUME Types, RawEnds
    PROVE  /\ Types' /\ Untouched /\ UNCHANGED <<page, reported>>
           /\ phase = "raw"
           /\ cursor'.cutoff = cursor.cutoff /\ cursor'.anchor = cursor.anchor
           /\ cursor'.historyDone = cursor.historyDone
           /\ \/ /\ phase' = "between"
                 /\ cursor'.raw.queue = page.queue /\ cursor'.raw.offset = page.offset
                 /\ cursor'.raw.stamp = page.stamp /\ cursor'.rawDone = cursor.rawDone
              \/ /\ phase' = "open" /\ page.queue < Queues /\ page.messages = <<>>
                 /\ page.total <= page.offset /\ cursor'.rawDone = cursor.rawDone
              \/ /\ phase' = "done" /\ page.queue = Queues /\ page.total <= page.offset
<1>1. phase = "raw" /\ UNCHANGED <<now, data, page, reported>>
  BY DEF RawEnds
<1>2. /\ page.queue \in 0..Queues /\ page.offset \in Nat /\ page.stamp \in Stamps
      /\ page.total \in Nat
  BY DEF Types, Page
<1> DEFINE r == [queue |-> page.queue, offset |-> page.offset, stamp |-> page.stamp]
<1>3. CASE cursor' = [cursor EXCEPT !.raw = r] /\ phase' = "between"
  <2>1. /\ cursor' \in Cursor /\ cursor'.raw = r
        /\ cursor'.cutoff = cursor.cutoff /\ cursor'.anchor = cursor.anchor
        /\ cursor'.historyDone = cursor.historyDone /\ cursor'.rawDone = cursor.rawDone
    BY <1>2, <1>3 DEF Types, Cursor
  <2>2. Types'
    BY <1>1, <1>3, <2>1 DEF Types, data, Phase
  <2> QED BY <1>1, <1>3, <2>1, <2>2 DEF data, Untouched
<1>4. CASE /\ cursor' = cursor /\ phase' = "open"
           /\ page.queue < Queues /\ page.messages = <<>> /\ page.total <= page.offset
  <2>1. Types'
    BY <1>1, <1>4 DEF Types, data, Phase
  <2> QED BY <1>1, <1>4, <2>1 DEF data, Untouched
<1>5. CASE /\ cursor' = [cursor EXCEPT !.rawDone = TRUE] /\ phase' = "done"
           /\ page.queue = Queues /\ page.total <= page.offset
  <2>1. /\ cursor' \in Cursor
        /\ cursor'.cutoff = cursor.cutoff /\ cursor'.anchor = cursor.anchor
        /\ cursor'.historyDone = cursor.historyDone
    BY <1>5 DEF Types, Cursor
  <2>2. Types'
    BY <1>1, <1>5, <2>1 DEF Types, data, Phase
  <2> QED BY <1>1, <1>5, <2>1, <2>2 DEF data, Untouched
<1> QED BY <1>2, <1>3, <1>4, <1>5 DEF RawEnds

-----------------------------------------------------------------------------
\* A search shows what was there when it began

LEMMA SameData ==
    ASSUME Untouched
    PROVE  /\ Placed => Placed'
           /\ \A t \in Task : Bare(t)' <=> Bare(t)
           /\ \A t, u \in Task : Newer(t, u)' <=> Newer(t, u)
           /\ \A t \in Task, k \in Nat : At(t, k)' <=> At(t, k)
<1>1. created' = created /\ index' = index /\ found' = found /\ line' = line
  BY DEF Untouched
<1>2. \A t \in Task : Waits(t)' <=> Waits(t)
  BY <1>1 DEF Waits
<1>3. Placed => Placed'
  BY <1>1, <1>2 DEF Placed
<1>4. \A t \in Task : Bare(t)' <=> Bare(t)
  BY <1>1, <1>2 DEF Bare
<1>5. \A t, u \in Task : Newer(t, u)' <=> Newer(t, u)
  BY <1>1 DEF Newer
<1>6. \A t \in Task, k \in Nat : At(t, k)' <=> At(t, k)
  BY <1>1 DEF At
<1> QED BY <1>3, <1>4, <1>5, <1>6

Inserted == Types /\ Placed /\ Turn /\ Buffered /\ Fetched /\ Shown

LEMMA InsertedMeanwhile ==
    ASSUME Inserted, Types', Placed', Harmless
    PROVE  Inserted'
<1>1. /\ phase' = phase /\ cursor' = cursor /\ page' = page /\ reported' = reported
      /\ \A t \in Task : created[t] > 0 => created'[t] = created[t]
      /\ phase # "idle" => \A t \in Task : Bare(t)' => Bare(t)
  BY DEF Harmless, search
<1>2. Turn'
  BY <1>1 DEF Inserted, Turn
<1>3. Buffered'
  <2> SUFFICES ASSUME phase = "history" PROVE Buffered'
    BY <1>1 DEF Buffered
  <2>1. \A q \in Queue, i \in Nat, t \in Task : Held(q, i, t)' <=> Held(q, i, t)
    BY <1>1 DEF Held
  <2>2. \A q \in Queue, t \in Task : created[t] > 0 => (Before(t, q)' <=> Before(t, q))
    BY <1>1 DEF Before
  <2>3. \A t, u \in Task : created[t] > 0 /\ created[u] > 0 => (Newer(t, u)' <=> Newer(t, u))
    BY <1>1 DEF Newer
  <2>4. cursor.historyDone => \A q \in Queue : page'.dry[q] /\ page'.buffer[q] = <<>>
    BY <1>1 DEF Inserted, Buffered
  <2>5. \A q \in Queue, i \in Nat, t \in Task : Held(q, i, t)' =>
            /\ Home(t) = q /\ created'[t] > 0 /\ ~Bare(t)'
            /\ created'[t] <= cursor.cutoff /\ Before(t, q)'
    BY <1>1, <2>1, <2>2 DEF Inserted, Buffered
  <2>6. \A q \in Queue, i, j \in Nat, t, u \in Task :
            Held(q, i, t)' /\ Held(q, j, u)' /\ i < j => Newer(t, u)'
    BY <2>1, <2>3 DEF Inserted, Buffered
  <2> QED BY <1>1, <2>4, <2>5, <2>6 DEF Buffered
<1>4. Fetched'
  BY <1>1 DEF Inserted, Fetched, Listed
<1>5. Shown'
  BY <1>1 DEF Inserted, Shown
<1> QED BY <1>2, <1>3, <1>4, <1>5 DEF Inserted

LEMMA InsertedStart ==
    ASSUME Inserted, Start
    PROVE  Inserted'
<1>1. /\ Types' /\ Untouched /\ UNCHANGED <<page, reported>>
      /\ phase = "idle" /\ phase' = "between"
  BY StartDoes DEF Inserted
<1>2. Placed' /\ created' = created
  BY <1>1, SameData DEF Inserted, Untouched
<1>3. Turn' /\ Buffered'
  BY <1>1 DEF Turn, Buffered
<1>4. Fetched'
  BY <1>1 DEF Inserted, Fetched, Listed
<1>5. Shown'
  BY <1>1 DEF Inserted, Shown
<1> QED BY <1>1, <1>2, <1>3, <1>4, <1>5 DEF Inserted

LEMMA InsertedBeginPage ==
    ASSUME Inserted, BeginPage
    PROVE  Inserted'
<1>1. /\ Types' /\ Untouched /\ UNCHANGED <<cursor, reported>>
      /\ phase = "between" /\ phase' = "history"
      /\ page'.buffer = [q \in Queue |-> <<>>]
      /\ page'.dry = [q \in Queue |-> cursor.historyDone]
      /\ page'.messages = <<>> /\ page'.queue = 0
  BY BeginPageDoes DEF Inserted
<1>2. Placed' /\ created' = created
  BY <1>1, SameData DEF Inserted, Untouched
<1>3. \A q \in Queue : page'.buffer[q] = <<>> /\ page'.dry[q] = cursor.historyDone
  BY <1>1
<1>4. \A q \in Queue, i \in Nat, t \in Task : ~Held(q, i, t)'
  BY <1>3 DEF Held
<1>5. Turn' /\ Buffered'
  BY <1>1, <1>3, <1>4 DEF Turn, Buffered
<1>6. Fetched'
  BY <1>1 DEF Fetched, Listed
<1>7. Shown'
  BY <1>1, <1>2 DEF Inserted, Shown
<1> QED BY <1>1, <1>2, <1>5, <1>6, <1>7 DEF Inserted

\* The entries that a read adds are as those before.
LEMMA FillAdds ==
    ASSUME Inserted, NEW q \in Queue, Fill(q)
    PROVE  /\ \A i \in Nat, t \in Task : Held(q, i, t)' =>
                 t \in index /\ Home(t) = q /\ created[t] <= cursor.cutoff /\ Before(t, q)
           /\ \A i, j \in Nat, t, u \in Task :
                 Held(q, i, t)' /\ Held(q, j, u)' /\ i < j => Newer(t, u)
<1> DEFINE read == Newest(Waiting(q), page.size[q])
<1>1. /\ read \in Seq(Waiting(q)) /\ Len(page'.buffer[q]) = Len(read)
      /\ \A i \in 1..Len(page'.buffer[q]) : page'.buffer[q][i].task = read[i]
  BY FillDoes DEF Inserted
<1>2. \A i, j \in 1..Len(read) : i < j => Newer(read[i], read[j])
  <2>1. page.size[q] \in Nat \ {0} /\ Waiting(q) \in SUBSET Task
    BY DEF Inserted, Types, Page, Waiting
  <2> QED BY <2>1, NewestFirst, Bounds DEF Inserted, Types
<1> HIDE DEF read
<1>3. \A i \in Nat, t \in Task : Held(q, i, t)' => i \in 1..Len(read) /\ t = read[i]
  BY <1>1 DEF Held
<1>4. \A i \in 1..Len(read) : read[i] \in Waiting(q)
  BY <1>1
<1>5. \A t \in Waiting(q) :
          t \in index /\ Home(t) = q /\ created[t] <= cursor.cutoff /\ Before(t, q)
  BY DEF Waiting, Eligible, Before
<1> QED BY <1>2, <1>3, <1>4, <1>5

LEMMA InsertedFill ==
    ASSUME Inserted, NEW q \in Queue, Fill(q)
    PROVE  Inserted'
<1>1. /\ Types' /\ Untouched /\ phase' = phase /\ cursor' = cursor /\ reported' = reported
      /\ phase = "history" /\ ~page.dry[q]
      /\ page'.messages = page.messages /\ page'.queue = page.queue
      /\ \A p \in Queue : p # q => page'.buffer[p] = page.buffer[p]
  BY FillDoes DEF Inserted
<1>2. Placed' /\ created' = created
  BY <1>1, SameData DEF Inserted, Untouched
<1>3. Turn' /\ Fetched' /\ Shown'
  BY <1>1, <1>2 DEF Inserted, Turn, Fetched, Listed, Shown
<1>4. ~cursor.historyDone
  BY <1>1 DEF Inserted, Buffered
<1>5. \A p \in Queue, i \in Nat, t \in Task : p # q => (Held(p, i, t)' <=> Held(p, i, t))
  BY <1>1 DEF Held
<1>6. \A p \in Queue, t \in Task : Before(t, p)' <=> Before(t, p)
  BY <1>1, <1>2 DEF Before
<1>7. \A t \in Task : t \in index => created[t] > 0 /\ ~Bare(t)
  <2> SUFFICES ASSUME NEW t \in Task, t \in index PROVE created[t] > 0 /\ ~Bare(t)
    OBVIOUS
  <2>1. found[t] \in {"match", "other"}
    BY DEF Inserted, Placed
  <2>2. created[t] # 0 /\ created[t] \in 0..MaxTime
    BY <2>1 DEF Inserted, Placed, Types
  <2> QED BY <2>1, <2>2, Bounds DEF Bare
<1>8. \A p \in Queue, i \in Nat, t \in Task : Held(p, i, t)' =>
          /\ Home(t) = p /\ created[t] > 0 /\ ~Bare(t)
          /\ created[t] <= cursor.cutoff /\ Before(t, p)
  <2> TAKE p \in Queue, i \in Nat, t \in Task
  <2>1. CASE p = q
    BY <2>1, <1>7, FillAdds
  <2>2. CASE p # q
    BY <2>2, <1>1, <1>5 DEF Inserted, Buffered
  <2> QED BY <2>1, <2>2
<1>9. \A p \in Queue, i, j \in Nat, t, u \in Task :
          Held(p, i, t)' /\ Held(p, j, u)' /\ i < j => Newer(t, u)
  <2> TAKE p \in Queue, i, j \in Nat, t, u \in Task
  <2>1. CASE p = q
    BY <2>1, FillAdds
  <2>2. CASE p # q
    BY <2>2, <1>1, <1>5 DEF Inserted, Buffered
  <2> QED BY <2>1, <2>2
<1>10. Buffered'
  BY <1>1, <1>2, <1>4, <1>6, <1>8, <1>9, SameData DEF Buffered
<1> QED BY <1>1, <1>2, <1>3, <1>10 DEF Inserted

\* The entry that is taken, and those behind it.
LEMMA MergeTakes ==
    ASSUME Types, NEW q \in Queue, Merge(q)
    PROVE  /\ page.buffer[q][1].task \in Task
           /\ Held(q, 1, page.buffer[q][1].task)
           /\ \A i \in Nat, t \in Task : Held(q, i, t)' => Held(q, i + 1, t) /\ i + 1 \in Nat /\ 1 < i + 1
           /\ \A p \in Queue, i \in Nat, t \in Task : p # q => (Held(p, i, t)' <=> Held(p, i, t))
<1> DEFINE s == page.buffer[q]
<1>1. /\ s \in Seq(Entry) /\ s # <<>> /\ page'.buffer[q] = Tail(s)
      /\ \A p \in Queue : p # q => page'.buffer[p] = page.buffer[p]
  BY MergeDoes
<1> HIDE DEF s
<1>2. /\ 1 \in 1..Len(s) /\ s[1] \in Entry /\ Len(s) \in Nat
      /\ Len(Tail(s)) = Len(s) - 1
      /\ \A i \in 1..(Len(s) - 1) : Tail(s)[i] = s[i + 1]
  BY <1>1, TailShifts
<1>3. s[1].task \in Task
  BY <1>2 DEF Entry
<1>4. \A i \in Nat, t \in Task : Held(q, i, t)' => Held(q, i + 1, t) /\ i + 1 \in Nat /\ 1 < i + 1
  <2> SUFFICES ASSUME NEW i \in Nat, NEW t \in Task, Held(q, i, t)'
               PROVE  Held(q, i + 1, t) /\ i + 1 \in Nat /\ 1 < i + 1
    OBVIOUS
  <2>1. i \in 1..Len(Tail(s)) /\ Tail(s)[i].task = t
    BY <1>1 DEF Held
  <2>2. i + 1 \in 1..Len(s) /\ s[i + 1].task = t /\ 1 < i + 1
    BY <2>1, <1>2
  <2> QED BY <2>2 DEF Held, s
<1>5. \A p \in Queue, i \in Nat, t \in Task : p # q => (Held(p, i, t)' <=> Held(p, i, t))
  BY <1>1 DEF Held
<1>6. Held(q, 1, s[1].task)
  BY <1>2 DEF Held, s
<1> QED BY <1>3, <1>4, <1>5, <1>6 DEF s

LEMMA InsertedMerge ==
    ASSUME Inserted, NEW q \in Queue, Merge(q)
    PROVE  Inserted'
<1> DEFINE h == page.buffer[q][1].task
<1>1. /\ Types' /\ Untouched /\ phase' = phase /\ phase = "history"
      /\ page'.dry = page.dry /\ page.buffer[q] # <<>>
      /\ page'.messages = page.messages /\ page'.queue = page.queue
      /\ cursor'.cutoff = cursor.cutoff /\ cursor'.historyDone = cursor.historyDone
      /\ \A p \in Queue : cursor'.anchor[p] = IF p = q THEN <<created[h], h>> ELSE cursor.anchor[p]
      /\ \A u \in Task : reported'[u] # reported[u] => u = h
  BY MergeDoes DEF Inserted
<1> HIDE DEF h
<1>2. Placed' /\ created' = created
  BY <1>1, SameData DEF Inserted, Untouched
<1>3. h \in Task /\ Held(q, 1, h)
  BY MergeTakes DEF Inserted, h
<1>4. created[h] > 0 /\ created[h] <= cursor.cutoff /\ ~cursor.historyDone
  BY <1>1, <1>3 DEF Inserted, Buffered
<1>5. Turn' /\ Fetched'
  BY <1>1, <1>2 DEF Inserted, Turn, Fetched, Listed
<1>6. Shown'
  BY <1>1, <1>2, <1>4 DEF Inserted, Shown
<1>7. \A p \in Queue, i \in Nat, t \in Task : Held(p, i, t)' =>
          /\ Home(t) = p /\ created[t] > 0 /\ ~Bare(t)
          /\ created[t] <= cursor.cutoff /\ Before(t, p)'
  <2> SUFFICES ASSUME NEW p \in Queue, NEW i \in Nat, NEW t \in Task, Held(p, i, t)'
               PROVE  /\ Home(t) = p /\ created[t] > 0 /\ ~Bare(t)
                      /\ created[t] <= cursor.cutoff /\ Before(t, p)'
    OBVIOUS
  <2>1. CASE p = q
    <3>1. Held(q, i + 1, t) /\ i + 1 \in Nat /\ 1 < i + 1
      BY <2>1, MergeTakes DEF Inserted
    <3>2. Newer(h, t)
      BY <3>1, <1>1, <1>3 DEF Inserted, Buffered
    <3>3. cursor'.anchor[q][1] = created[h] /\ cursor'.anchor[q][2] = h
      BY <1>1
    <3>4. Before(t, p)'
      BY <2>1, <3>2, <3>3, <1>2, <1>3, Bounds DEF Before, Newer, Task, Inserted, Types
    <3> QED BY <3>1, <3>4, <2>1, <1>1 DEF Inserted, Buffered
  <2>2. CASE p # q
    <3>1. Held(p, i, t)
      BY <2>2, MergeTakes DEF Inserted
    <3>2. Before(t, p)' <=> Before(t, p)
      BY <2>2, <1>1, <1>2 DEF Before
    <3> QED BY <3>1, <3>2, <1>1 DEF Inserted, Buffered
  <2> QED BY <2>1, <2>2
<1>8. \A p \in Queue, i, j \in Nat, t, u \in Task :
          Held(p, i, t)' /\ Held(p, j, u)' /\ i < j => Newer(t, u)
  <2> SUFFICES ASSUME NEW p \in Queue, NEW i \in Nat, NEW j \in Nat, NEW t \in Task, NEW u \in Task,
                      Held(p, i, t)', Held(p, j, u)', i < j
               PROVE  Newer(t, u)
    OBVIOUS
  <2>1. CASE p = q
    <3>1. Held(q, i + 1, t) /\ Held(q, j + 1, u) /\ i + 1 < j + 1 /\ i + 1 \in Nat /\ j + 1 \in Nat
      BY <2>1, MergeTakes DEF Inserted
    <3> QED BY <3>1, <1>1 DEF Inserted, Buffered
  <2>2. CASE p # q
    BY <2>2, <1>1, MergeTakes DEF Inserted, Buffered
  <2> QED BY <2>1, <2>2
<1>9. Buffered'
  BY <1>1, <1>2, <1>4, <1>7, <1>8, SameData DEF Buffered
<1> QED BY <1>1, <1>2, <1>5, <1>6, <1>9 DEF Inserted

LEMMA InsertedHistoryEnds ==
    ASSUME Inserted, HistoryEnds
    PROVE  Inserted'
<1>1. /\ Types' /\ Untouched /\ page' = page /\ reported' = reported
      /\ phase = "history" /\ phase' \in {"open", "between", "done"}
      /\ cursor'.cutoff = cursor.cutoff
  BY HistoryEndsDoes DEF Inserted
<1>2. Placed' /\ created' = created
  BY <1>1, SameData DEF Inserted, Untouched
<1>3. Turn' /\ Buffered'
  BY <1>1, Bounds DEF Inserted, Turn, Buffered
<1>4. Fetched' /\ Shown'
  BY <1>1, <1>2 DEF Inserted, Fetched, Listed, Shown
<1> QED BY <1>1, <1>2, <1>3, <1>4 DEF Inserted

LEMMA InsertedOpen ==
    ASSUME Inserted, Open
    PROVE  Inserted'
<1>1. /\ Types' /\ Untouched /\ cursor' = cursor /\ reported' = reported
      /\ phase = "open" /\ phase' \in {"raw", "refused"}
      /\ page'.messages = page.messages /\ page'.queue \in Queue
  BY OpenDoes DEF Inserted
<1>2. Placed' /\ created' = created
  BY <1>1, SameData DEF Inserted, Untouched
<1>3. Turn' /\ Buffered'
  BY <1>1 DEF Turn, Buffered
<1>4. Fetched' /\ Shown'
  BY <1>1, <1>2 DEF Inserted, Fetched, Listed, Shown
<1> QED BY <1>1, <1>2, <1>3, <1>4 DEF Inserted

LEMMA InsertedRawRead ==
    ASSUME Inserted, RawRead
    PROVE  Inserted'
<1>1. /\ Types' /\ Untouched /\ phase' = phase /\ cursor' = cursor /\ reported' = reported
      /\ phase = "raw" /\ page'.queue = page.queue
      /\ \A i \in 1..Len(page'.messages) :
            /\ page.offset + i \in 1..Len(line[page.queue])
            /\ page'.messages[i].task = line[page.queue][page.offset + i]
            /\ page'.messages[i].row => created[line[page.queue][page.offset + i]] <= cursor.cutoff
  BY RawReadDoes DEF Inserted
<1>2. Placed' /\ created' = created
  BY <1>1, SameData DEF Inserted, Untouched
<1>3. Turn' /\ Buffered' /\ Shown'
  BY <1>1, <1>2 DEF Inserted, Turn, Buffered, Shown
<1>4. \A i \in Nat, t \in Task : Listed(i, t)' /\ page'.messages[i].row =>
          created[t] > 0 /\ created[t] <= cursor.cutoff
  <2> SUFFICES ASSUME NEW i \in Nat, NEW t \in Task, Listed(i, t)', page'.messages[i].row
               PROVE  created[t] > 0 /\ created[t] <= cursor.cutoff
    OBVIOUS
  <2>1. i \in 1..Len(page'.messages) /\ page'.messages[i].task = t
    BY DEF Listed
  <2>2. /\ page.offset + i \in 1..Len(line[page.queue])
        /\ line[page.queue][page.offset + i] = t /\ created[t] <= cursor.cutoff
    BY <2>1, <1>1
  <2>3. page.queue \in Queue
    BY <1>1 DEF Inserted, Turn
  <2>4. Home(t) = page.queue
    BY <2>2, <2>3 DEF Inserted, Placed
  <2>5. Waits(t)
    BY <2>2, <2>4 DEF Waits
  <2> QED BY <2>2, <2>5, Bounds DEF Inserted, Placed, Types
<1>5. Fetched'
  BY <1>1, <1>2, <1>4 DEF Fetched
<1> QED BY <1>1, <1>2, <1>3, <1>5 DEF Inserted

\* The message that is taken, and those behind it.
LEMMA RawTakes ==
    ASSUME Types, RawTake
    PROVE  /\ page.messages[1].task \in Task
           /\ Listed(1, page.messages[1].task)
           /\ \A i \in Nat, t \in Task : Listed(i, t)' =>
                 Listed(i + 1, t) /\ i + 1 \in Nat /\ i # 0 /\ page'.messages[i].row = page.messages[i + 1].row
<1> DEFINE s == page.messages
<1>1. s \in Seq(Message) /\ s # <<>> /\ page'.messages = Tail(s)
  BY RawTakeDoes
<1> HIDE DEF s
<1>2. /\ 1 \in 1..Len(s) /\ s[1] \in Message /\ Len(s) \in Nat
      /\ Len(Tail(s)) = Len(s) - 1
      /\ \A i \in 1..(Len(s) - 1) : Tail(s)[i] = s[i + 1]
  BY <1>1, TailShifts
<1>3. s[1].task \in Task
  BY <1>2 DEF Message
<1>4. \A i \in Nat, t \in Task : Listed(i, t)' =>
          Listed(i + 1, t) /\ i + 1 \in Nat /\ i # 0 /\ page'.messages[i].row = page.messages[i + 1].row
  <2> SUFFICES ASSUME NEW i \in Nat, NEW t \in Task, Listed(i, t)'
               PROVE  /\ Listed(i + 1, t) /\ i + 1 \in Nat /\ i # 0
                      /\ page'.messages[i].row = page.messages[i + 1].row
    OBVIOUS
  <2>1. i \in 1..Len(Tail(s)) /\ Tail(s)[i].task = t
    BY <1>1 DEF Listed
  <2>2. i + 1 \in 1..Len(s) /\ s[i + 1].task = t /\ i # 0 /\ Tail(s)[i] = s[i + 1]
    BY <2>1, <1>2
  <2> QED BY <2>2, <1>1 DEF Listed, s
<1>5. Listed(1, s[1].task)
  BY <1>2 DEF Listed, s
<1> QED BY <1>3, <1>4, <1>5 DEF s

LEMMA InsertedRawTake ==
    ASSUME Inserted, RawTake
    PROVE  Inserted'
<1> DEFINE h == page.messages[1].task
<1>1. /\ Types' /\ Untouched /\ phase' = phase /\ cursor' = cursor
      /\ phase = "raw" /\ page'.queue = page.queue
      /\ \A u \in Task : reported'[u] # reported[u] => u = h /\ page.messages[1].row
  BY RawTakeDoes DEF Inserted
<1> HIDE DEF h
<1>2. Placed' /\ created' = created
  BY <1>1, SameData DEF Inserted, Untouched
<1>3. h \in Task /\ Listed(1, h)
  BY RawTakes DEF Inserted, h
<1>4. page.messages[1].row => created[h] > 0 /\ created[h] <= cursor.cutoff
  BY <1>3 DEF Inserted, Fetched
<1>5. Turn' /\ Buffered'
  BY <1>1 DEF Inserted, Turn, Buffered
<1>6. Shown'
  BY <1>1, <1>2, <1>4 DEF Inserted, Shown
<1>7. Fetched'
  <2>1. \A i \in Nat, t \in Task : Listed(i, t)' =>
            Listed(i + 1, t) /\ i + 1 \in Nat /\ page'.messages[i].row = page.messages[i + 1].row
    BY RawTakes DEF Inserted
  <2> QED BY <1>1, <1>2, <2>1 DEF Inserted, Fetched
<1> QED BY <1>1, <1>2, <1>5, <1>6, <1>7 DEF Inserted

LEMMA InsertedRawEnds ==
    ASSUME Inserted, RawEnds
    PROVE  Inserted'
<1>1. /\ Types' /\ Untouched /\ page' = page /\ reported' = reported
      /\ phase = "raw" /\ phase' \in {"between", "open", "done"}
      /\ cursor'.cutoff = cursor.cutoff
      /\ phase' = "open" => page.queue < Queues /\ page.messages = <<>>
  BY RawEndsDoes DEF Inserted
<1>2. Placed' /\ created' = created
  BY <1>1, SameData DEF Inserted, Untouched
<1>3. Turn' /\ Buffered'
  BY <1>1 DEF Turn, Buffered
<1>4. Fetched' /\ Shown'
  BY <1>1, <1>2 DEF Inserted, Fetched, Listed, Shown
<1> QED BY <1>1, <1>2, <1>3, <1>4 DEF Inserted

LEMMA InsertedInit ==
    ASSUME Init
    PROVE  Inserted
<1>1. Types
  <2>1. <<>> \in Seq(Task) /\ <<>> \in Seq(Entry) /\ <<>> \in Seq(Message) /\ <<>> \in Stamps
    BY DEF Stamps
  <2>2. created \in [Task -> 0..MaxTime] /\ reported \in [Task -> 0..2] /\ now \in 1..MaxTime
    BY Bounds DEF Init
  <2>3. found \in [Task -> Found] /\ index \in SUBSET Task /\ line \in [Queue -> Seq(Task)]
    BY <2>1 DEF Init, Found
  <2>4. cursor \in Cursor
    <3> DEFINE a == [q \in Queue |-> NoAnchor]
    <3>1. a \in [Queue -> (0..(MaxTime + 1)) \X (0..Tasks)]
      BY Bounds DEF NoAnchor
    <3>2. NoRaw \in [queue : 0..Queues, offset : Nat, stamp : Stamps]
      BY <2>1, Bounds DEF NoRaw
    <3>3. cursor = [cutoff |-> 0, anchor |-> a, historyDone |-> FALSE, rawDone |-> FALSE, raw |-> NoRaw]
      BY DEF Init
    <3>4. 0 \in 0..MaxTime
      BY Bounds
    <3> HIDE DEF a
    <3> QED BY <3>1, <3>2, <3>3, <3>4 DEF Cursor
  <2>5. page \in Page
    <3> DEFINE b == [q \in Queue |-> <<>>]
               n == [q \in Queue |-> 1]
               d == [q \in Queue |-> FALSE]
    <3>1. /\ b \in [Queue -> Seq(Entry)] /\ n \in [Queue -> Nat \ {0}] /\ d \in [Queue -> BOOLEAN]
      BY <2>1
    <3>2. page = [buffer |-> b, size |-> n, dry |-> d,
                  rows |-> 0, scanned |-> 0, queue |-> 0, offset |-> 0, total |-> 0,
                  stamp |-> <<>>, messages |-> <<>>]
      BY DEF Init, EmptyPage
    <3>3. 0 \in 0..Limit /\ 0 \in 0..ScanLimit /\ 0 \in 0..Queues
      BY Bounds
    <3> HIDE DEF b, n, d
    <3> QED BY <2>1, <3>1, <3>2, <3>3 DEF Page
  <2>6. phase \in Phase
    BY DEF Init, Phase
  <2> QED BY <2>2, <2>3, <2>4, <2>5, <2>6 DEF Types
<1>2. Placed
  <2>1. \A q \in Queue : Len(line[q]) = 0
    BY DEF Init
  <2>2. \A t \in Task : ~Waits(t)
    BY <2>1, Bounds DEF Waits
  <2> QED BY <2>1, <2>2 DEF Placed, Init
<1>3. Turn /\ Buffered /\ Fetched /\ Shown
  BY DEF Init, EmptyPage, Turn, Buffered, Fetched, Shown, Listed
<1> QED BY <1>1, <1>2, <1>3 DEF Inserted

LEMMA Meanwhile ==
    ASSUME Types, Placed, NEW t \in Task,
           Prepare(t) \/ Commit(t) \/ Legacy(t) \/ Leave(t) \/ Return(t) \/ Forget(t)
    PROVE  Types' /\ Placed' /\ Harmless
BY PrepareHarmless, CommitHarmless, LegacyHarmless, LeaveHarmless, ReturnHarmless, ForgetHarmless

LEMMA InsertedStep ==
    ASSUME Inserted, [Next]_vars
    PROVE  Inserted'
<1>1. CASE Start
  BY <1>1, InsertedStart
<1>2. CASE Read
  BY <1>2, InsertedBeginPage, InsertedFill, InsertedMerge, InsertedHistoryEnds, InsertedOpen,
     InsertedRawRead, InsertedRawTake, InsertedRawEnds DEF Read
<1>3. ASSUME NEW t \in Task,
             Prepare(t) \/ Commit(t) \/ Legacy(t) \/ Leave(t) \/ Return(t) \/ Forget(t)
      PROVE  Inserted'
  <2>1. Types' /\ Placed' /\ Harmless
    BY <1>3, Meanwhile DEF Inserted
  <2> QED BY <2>1, InsertedMeanwhile
<1>4. CASE UNCHANGED vars
  <2>1. Untouched /\ UNCHANGED <<now, phase, cursor, page, reported>>
    BY <1>4 DEF vars, data, search, Untouched
  <2>2. Types' /\ Placed' /\ Harmless
    <3>1. Types'
      BY <2>1 DEF Inserted, Types, Untouched
    <3>2. Placed'
      BY <2>1, SameData DEF Inserted
    <3>3. Harmless
      BY <2>1, SameData, NoMoves DEF Inserted, Harmless, Untouched, search
    <3> QED BY <3>1, <3>2, <3>3
  <2> QED BY <2>2, InsertedMeanwhile
<1> QED BY <1>1, <1>2, <1>3, <1>4 DEF Next

LEMMA InsertedHolds == Spec => []Inserted
<1>1. Init => Inserted
  BY InsertedInit
<1>2. Inserted /\ [Next]_vars => Inserted'
  BY InsertedStep
<1> QED BY <1>1, <1>2, PTL DEF Spec

\* The types of the model, with what they say of the containers: a message is
\* in the list of its queue, and there once.
THEOREM TypesHold == Spec => []TypeOK
<1>1. Inserted => TypeOK
  <2> SUFFICES ASSUME Inserted PROVE TypeOK
    OBVIOUS
  <2>1. \A q \in Queue : line[q] \in Seq(Task)
    BY DEF Inserted, Types
  <2>2. \A q \in Queue : DOMAIN line[q] = 1..Len(line[q])
    BY <2>1
  <2>3. \A q \in Queue : \A i \in DOMAIN line[q] : Home(line[q][i]) = q
    BY <2>2 DEF Inserted, Placed
  <2>4. \A q \in Queue : IsInjective(line[q])
    BY <2>2 DEF Inserted, Placed, IsInjective
  <2>5. cursor.cutoff \in 0..MaxTime /\ page.rows <= Limit /\ page.scanned <= ScanLimit
    BY Bounds DEF Inserted, Types, Cursor, Page
  <2> QED BY <2>3, <2>4, <2>5 DEF Inserted, Types, TypeOK, Found
<1> QED BY <1>1, InsertedHolds, PTL

\* NoneInserted: whatever comes, goes and moves while a search runs, its pages
\* show only tasks that were there when it began.
THEOREM NoneInsertedHolds == Spec => []NoneInserted
<1>1. Inserted => NoneInserted
  BY DEF Inserted, Shown, NoneInserted
<1> QED BY <1>1, InsertedHolds, PTL

-----------------------------------------------------------------------------
\* No task is shown twice

Single == Inserted /\ Behind /\ Ahead

LEMMA PlaceTypes ==
    ASSUME Types
    PROVE  /\ AtQueue \in Nat /\ AtOffset \in Nat
           /\ page.queue \in Nat /\ page.offset \in Nat
           /\ \A t \in Task : Home(t) \in Nat \ {0}
<1>1. /\ page.queue \in Nat /\ page.offset \in Nat
      /\ cursor.raw.queue \in Nat /\ cursor.raw.offset \in Nat
  BY Bounds DEF Types, Page, Cursor
<1>2. AtQueue \in Nat /\ AtOffset \in Nat
  BY <1>1 DEF AtQueue, AtOffset
<1>3. \A t \in Task : Home(t) \in Nat \ {0}
  BY Bounds DEF Queue
<1> QED BY <1>1, <1>2, <1>3

LEMMA ReportedTypes ==
    ASSUME Types
    PROVE  \A t \in Task : reported[t] \in Nat /\ (reported[t] = 0 \/ reported[t] > 0)
BY DEF Types

LEMMA AtWaits ==
    ASSUME NEW t \in Task, NEW k \in Nat, At(t, k)
    PROVE  Waits(t)
BY DEF At, Waits

\* Where no container is searched, the end of the indexes is the end.
Indexes ==
    ~Containers =>
        /\ phase # "idle" => cursor.rawDone
        /\ phase \notin {"open", "raw"}
        /\ cursor.historyDone => phase = "done"

LEMMA IndexesStep ==
    ASSUME Types, Indexes, [Next]_vars
    PROVE  Indexes'
<1> SUFFICES ASSUME ~Containers PROVE Indexes'
  BY DEF Indexes
<1>1. CASE Start
  BY <1>1, StartDoes DEF Indexes
<1>2. CASE BeginPage
  BY <1>2, BeginPageDoes DEF Indexes
<1>3. ASSUME NEW q \in Queue, Fill(q) PROVE Indexes'
  BY <1>3, FillDoes DEF Indexes
<1>4. ASSUME NEW q \in Queue, Merge(q) PROVE Indexes'
  BY <1>4, MergeDoes DEF Indexes
<1>5. CASE HistoryEnds
  <2>1. cursor.rawDone /\ (Available = {} => phase' = "done")
    BY <1>5 DEF HistoryEnds, Indexes
  <2> QED BY <1>5, <2>1, HistoryEndsDoes DEF Indexes
<1>6. ~Open /\ ~RawRead /\ ~RawTake /\ ~RawEnds
  BY DEF Indexes, Open, RawRead, RawTake, RawEnds
<1>7. ASSUME UNCHANGED search PROVE Indexes'
  BY <1>7 DEF Indexes, search
<1>8. ASSUME NEW t \in Task,
             Prepare(t) \/ Commit(t) \/ Legacy(t) \/ Leave(t) \/ Return(t) \/ Forget(t)
      PROVE  Indexes'
  BY <1>7, <1>8 DEF Prepare, Commit, Legacy, Leave, Return, Forget
<1>9. CASE UNCHANGED vars
  BY <1>7, <1>9 DEF vars
<1> QED BY <1>1, <1>2, <1>3, <1>4, <1>5, <1>6, <1>8, <1>9 DEF Next, Read

LEMMA SingleMeanwhile ==
    ASSUME Single, Indexes, Inserted', Containers => ~Insertions, Harmless
    PROVE  Single'
<1>1. /\ phase' = phase /\ cursor' = cursor /\ page' = page /\ reported' = reported
      /\ \A t \in Task : created[t] > 0 => created'[t] = created[t]
      /\ phase # "idle" => \A t \in Task : Bare(t)' => Bare(t)
      /\ AtQueue' = AtQueue /\ AtOffset' = AtOffset
  BY DEF Harmless, search, AtQueue, AtOffset
<1>2. \A t \in Task, k \in Nat :
          Containers /\ phase # "idle" /\ found'[t] = "none" /\ At(t, k)' =>
              found[t] = "none" /\ \E m \in Nat : m >= k /\ At(t, m)
  <2> SUFFICES ASSUME NEW t \in Task, NEW k \in Nat,
                      Containers, phase # "idle", found'[t] = "none", At(t, k)'
               PROVE  found[t] = "none" /\ \E m \in Nat : m >= k /\ At(t, m)
    OBVIOUS
  <2>1. Bare(t)'
    BY DEF At, Bare, Waits
  <2>2. found[t] = "none"
    BY <2>1, <1>1 DEF Bare
  <2>3. k \in 1..Len(line'[Home(t)]) /\ line'[Home(t)][k] = t
    BY DEF At
  <2>4. PICK m \in 1..Len(line[Home(t)]) : m >= k /\ line[Home(t)][m] = t
    BY <2>3 DEF Harmless
  <2> QED BY <2>2, <2>4 DEF At
<1>3. Behind'
  <2> SUFFICES ASSUME NEW t \in Task, reported[t] > 0
               PROVE  /\ reported[t] = 1
                      /\ ~cursor.historyDone => ~Before(t, Home(t))' /\ ~Bare(t)'
                      /\ phase \notin {"done", "refused"} /\ found'[t] = "none" =>
                            \A k \in Nat : At(t, k)' =>
                                Home(t) < AtQueue \/ (Home(t) = AtQueue /\ k <= AtOffset)
    BY <1>1 DEF Behind
  <2>1. phase # "idle" /\ created'[t] = created[t]
    BY <1>1 DEF Single, Inserted, Shown, Types
  <2>2. Before(t, Home(t))' <=> Before(t, Home(t))
    BY <1>1, <2>1 DEF Before
  <2>3. /\ reported[t] = 1
        /\ ~cursor.historyDone => ~Before(t, Home(t))' /\ ~Bare(t)'
    BY <1>1, <2>1, <2>2 DEF Single, Behind
  <2>4. ASSUME phase \notin {"done", "refused"}, found'[t] = "none", NEW k \in Nat, At(t, k)'
        PROVE  Home(t) < AtQueue \/ (Home(t) = AtQueue /\ k <= AtOffset)
    <3>0. Containers
      <4> SUFFICES ASSUME ~Containers PROVE FALSE
        OBVIOUS
      <4>1. Bare(t)'
        BY <2>4 DEF At, Bare, Waits
      <4>2. ~cursor.historyDone
        BY <2>4 DEF Indexes
      <4> QED BY <4>1, <4>2, <2>3
    <3>1. found[t] = "none" /\ \E m \in Nat : m >= k /\ At(t, m)
      BY <1>2, <2>1, <2>4, <3>0
    <3>2. PICK m \in Nat : m >= k /\ At(t, m)
      BY <3>1
    <3>3. Home(t) < AtQueue \/ (Home(t) = AtQueue /\ m <= AtOffset)
      BY <2>4, <3>1, <3>2 DEF Single, Behind
    <3> QED BY <3>2, <3>3, PlaceTypes DEF Single, Inserted
  <2> QED BY <2>3, <2>4
<1>4. Ahead'
  <2>1. \A i \in Nat, t \in Task : Listed(i, t)' <=> Listed(i, t)
    BY <1>1 DEF Listed
  <2>2. ASSUME phase = "raw", NEW i \in Nat, NEW t \in Task, Listed(i, t),
               found'[t] = "none", NEW k \in Nat, At(t, k)'
        PROVE  k <= page.offset + i
    <3>1. found[t] = "none" /\ \E m \in Nat : m >= k /\ At(t, m)
      BY <1>2, <2>2 DEF Indexes
    <3>2. PICK m \in Nat : m >= k /\ At(t, m)
      BY <3>1
    <3>3. m <= page.offset + i
      BY <2>2, <3>1, <3>2 DEF Single, Ahead
    <3> QED BY <3>2, <3>3, PlaceTypes DEF Single, Inserted
  <2> QED BY <1>1, <2>1, <2>2 DEF Single, Ahead
<1> QED BY <1>3, <1>4 DEF Single

\* What has been shown stays behind the cursor when neither has changed.
LEMMA BehindKept ==
    ASSUME Single, Untouched, reported' = reported,
           cursor'.anchor = cursor.anchor, cursor'.historyDone \/ ~cursor.historyDone,
           phase' \in {"done", "refused"} \/
               (phase \notin {"done", "refused"} /\ AtQueue' = AtQueue /\ AtOffset' = AtOffset)
    PROVE  Behind'
<1>1. \A t \in Task : Before(t, Home(t))' <=> Before(t, Home(t))
  BY DEF Before, Untouched
<1>2. found' = found
  BY DEF Untouched
<1>3. \A t \in Task : Bare(t)' <=> Bare(t)
  BY SameData
<1>4. \A t \in Task, k \in Nat : At(t, k)' <=> At(t, k)
  BY SameData
<1> QED BY <1>1, <1>2, <1>3, <1>4 DEF Single, Behind

LEMMA SingleStart ==
    ASSUME Single, Inserted', Start
    PROVE  Single'
<1>1. phase = "idle" /\ phase' = "between" /\ reported' = reported
  BY StartDoes DEF Single, Inserted
<1>2. Behind'
  BY <1>1 DEF Single, Inserted, Shown, Behind
<1> QED BY <1>1, <1>2 DEF Single, Ahead

LEMMA SingleBeginPage ==
    ASSUME Single, Inserted', BeginPage
    PROVE  Single'
<1>1. /\ Untouched /\ cursor' = cursor /\ reported' = reported
      /\ phase = "between" /\ phase' = "history"
  BY BeginPageDoes DEF Single, Inserted
<1>2. AtQueue' = AtQueue /\ AtOffset' = AtOffset
  BY <1>1 DEF AtQueue, AtOffset
<1>3. Behind'
  BY <1>1, <1>2, BehindKept
<1> QED BY <1>1, <1>3 DEF Single, Ahead

LEMMA SingleFill ==
    ASSUME Single, Inserted', NEW q \in Queue, Fill(q)
    PROVE  Single'
<1>1. /\ Untouched /\ cursor' = cursor /\ reported' = reported
      /\ phase = "history" /\ phase' = "history"
  BY FillDoes DEF Single, Inserted
<1>2. AtQueue' = AtQueue /\ AtOffset' = AtOffset
  BY <1>1 DEF AtQueue, AtOffset
<1>3. Behind'
  BY <1>1, <1>2, BehindKept
<1> QED BY <1>1, <1>3 DEF Single, Ahead

LEMMA SingleMerge ==
    ASSUME Single, Inserted', NEW q \in Queue, Merge(q)
    PROVE  Single'
<1> DEFINE h == page.buffer[q][1].task
<1>1. /\ Untouched /\ phase = "history" /\ phase' = "history"
      /\ page.buffer[q] # <<>>
      /\ cursor'.historyDone = cursor.historyDone
      /\ \A p \in Queue : cursor'.anchor[p] = IF p = q THEN <<created[h], h>> ELSE cursor.anchor[p]
      /\ \A u \in Task : reported'[u] # reported[u] => u = h
      /\ \A u \in Task : reported[u] = 0 => reported'[u] <= 1
  BY MergeDoes DEF Single, Inserted
<1>2. h \in Task /\ Held(q, 1, h)
  BY MergeTakes DEF Single, Inserted
<1> HIDE DEF h
<1>3. Home(h) = q /\ ~Bare(h) /\ Before(h, q) /\ ~cursor.historyDone
  BY <1>1, <1>2 DEF Single, Inserted, Buffered
<1>4. reported[h] = 0
  BY <1>2, <1>3, ReportedTypes DEF Single, Behind, Inserted
<1>5. created' = created /\ found' = found
  BY <1>1 DEF Untouched
<1>6. /\ cursor.anchor[q][1] \in Nat /\ cursor.anchor[q][2] \in Nat
      /\ \A t \in Task : t \in Nat /\ created[t] \in Nat
  <2>1. cursor.anchor[q] \in (0..(MaxTime + 1)) \X (0..Tasks)
    BY DEF Single, Inserted, Types, Cursor
  <2>2. \A t \in Task : t \in Nat /\ created[t] \in Nat
    BY Bounds DEF Single, Inserted, Types, Task
  <2> QED BY <2>1, <2>2, Bounds
<1>7. \A t \in Task : reported'[t] > 0 => reported'[t] = 1 /\ ~Before(t, Home(t))' /\ ~Bare(t)
  <2> SUFFICES ASSUME NEW t \in Task, reported'[t] > 0
               PROVE  reported'[t] = 1 /\ ~Before(t, Home(t))' /\ ~Bare(t)
    OBVIOUS
  <2>1. CASE t = h
    <3>1. reported'[h] = 1
      <4>1. reported'[h] <= 1 /\ reported'[h] > 0
        BY <2>1, <1>1, <1>2, <1>4
      <4>2. reported'[h] \in 0..2
        BY <1>2 DEF Inserted, Types
      <4> QED BY <4>1, <4>2
    <3>2. cursor'.anchor[q][1] = created[t] /\ cursor'.anchor[q][2] = t
      BY <1>1, <2>1
    <3>3. ~Before(t, q)'
      <4>1. created'[t] = created[t] /\ created[t] \in Nat /\ t \in Nat
        BY <1>5, <1>6
      <4> QED BY <3>2, <4>1 DEF Before
    <3>4. Home(t) = q /\ ~Bare(t)
      BY <2>1, <1>3
    <3> QED BY <2>1, <3>1, <3>3, <3>4
  <2>2. CASE t # h
    <3>1. reported[t] = 1 /\ reported'[t] = 1 /\ ~Before(t, Home(t)) /\ ~Bare(t)
      BY <2>2, <1>1, <1>2, <1>3 DEF Single, Behind
    <3>2. CASE Home(t) = q
      <4>1. cursor'.anchor[q][1] = created[h] /\ cursor'.anchor[q][2] = h
        BY <1>1
      <4>2. ~Before(t, q)'
        <5>1. ~Before(t, q)
          BY <3>1, <3>2
        <5> QED BY <4>1, <5>1, <1>2, <1>3, <1>5, <1>6 DEF Before
      <4> QED BY <3>1, <3>2, <4>2
    <3>3. CASE Home(t) # q
      <4>1. Home(t) \in Queue
        BY Bounds
      <4>2. cursor'.anchor[Home(t)] = cursor.anchor[Home(t)]
        BY <4>1, <3>3, <1>1
      <4> QED BY <4>2, <3>1, <1>5 DEF Before
    <3> QED BY <3>2, <3>3
  <2> QED BY <2>1, <2>2
<1>8. Behind'
  <2>1. \A t \in Task : Bare(t)' <=> Bare(t)
    BY <1>1, SameData
  <2>2. \A t \in Task, k \in Nat : At(t, k)' /\ found'[t] = "none" => Bare(t)
    BY <1>1, <1>5, SameData, AtWaits DEF Bare
  <2> QED BY <1>7, <2>1, <2>2 DEF Behind
<1> QED BY <1>1, <1>8 DEF Single, Ahead

LEMMA SingleHistoryEnds ==
    ASSUME Single, Inserted', HistoryEnds
    PROVE  Single'
<1>1. /\ Untouched /\ page' = page /\ reported' = reported
      /\ phase = "history" /\ phase' \in {"open", "between", "done"}
      /\ cursor'.anchor = cursor.anchor /\ cursor'.raw = cursor.raw
      /\ cursor'.historyDone = (Available = {})
      /\ phase' = "open" => Available = {}
  BY HistoryEndsDoes DEF Single, Inserted
<1>2. cursor.historyDone => Available = {}
  BY <1>1 DEF Single, Inserted, Buffered, Available
<1>3. AtQueue' = AtQueue /\ AtOffset' = AtOffset
  BY <1>1 DEF AtQueue, AtOffset, Single, Inserted, Turn
<1>4. Behind'
  BY <1>1, <1>2, <1>3, BehindKept
<1> QED BY <1>1, <1>4 DEF Single, Ahead

LEMMA SingleOpen ==
    ASSUME Single, Inserted', Open
    PROVE  Single'
<1>1. /\ Untouched /\ cursor' = cursor /\ reported' = reported
      /\ phase = "open" /\ phase' \in {"raw", "refused"}
      /\ page'.messages = page.messages
      /\ page'.queue = IF Resumed THEN cursor.raw.queue ELSE page.queue + 1
      /\ page'.offset = IF Resumed THEN cursor.raw.offset ELSE 0
  BY OpenDoes DEF Single, Inserted
<1>2. cursor.historyDone /\ page.messages = <<>>
  BY <1>1 DEF Single, Ahead, Inserted, Fetched
<1>3. Behind'
  <2>1. CASE page.queue # 0 \/ cursor.raw.queue # 0
    <3>1. phase' = "raw" => AtQueue' = AtQueue /\ AtOffset' = AtOffset
      BY <1>1, <2>1 DEF AtQueue, AtOffset, Resumed
    <3> QED BY <1>1, <3>1, BehindKept
  <2>2. CASE page.queue = 0 /\ cursor.raw.queue = 0
    <3>1. AtQueue = 0
      BY <1>1, <2>2 DEF AtQueue
    <3>2. \A t \in Task : reported[t] > 0 =>
              reported[t] = 1 /\ (found[t] = "none" => \A k \in Nat : ~At(t, k))
      BY <1>1, <3>1, PlaceTypes DEF Single, Behind, Inserted
    <3>3. found' = found /\ \A t \in Task, k \in Nat : At(t, k)' <=> At(t, k)
      BY <1>1, SameData DEF Untouched
    <3> QED BY <1>1, <1>2, <3>2, <3>3 DEF Behind
  <2> QED BY <2>1, <2>2
<1>4. Ahead'
  <2>1. \A i \in Nat, t \in Task : ~Listed(i, t)'
    BY <1>1, <1>2 DEF Listed
  <2>2. page'.queue # 0
    BY <1>1, PlaceTypes DEF Single, Inserted, Resumed
  <2> QED BY <1>1, <1>2, <2>1, <2>2 DEF Ahead
<1> QED BY <1>3, <1>4 DEF Single

LEMMA SingleRawRead ==
    ASSUME Single, Inserted', RawRead
    PROVE  Single'
<1>1. /\ Untouched /\ phase' = phase /\ cursor' = cursor /\ reported' = reported
      /\ phase = "raw" /\ page'.queue = page.queue /\ page'.offset = page.offset
      /\ \A i \in 1..Len(page'.messages) :
            /\ page.offset + i \in 1..Len(line[page.queue])
            /\ page'.messages[i].task = line[page.queue][page.offset + i]
            /\ page'.messages[i].row =>
                  ~(line[page.queue][page.offset + i] \in index
                       /\ found[line[page.queue][page.offset + i]] # "none")
  BY RawReadDoes DEF Single, Inserted
<1>2. page.queue \in Queue /\ page.queue # 0 /\ cursor.historyDone
  BY <1>1 DEF Single, Inserted, Turn, Ahead
<1>3. Behind'
  <2>1. AtQueue' = AtQueue /\ AtOffset' = AtOffset
    BY <1>1 DEF AtQueue, AtOffset
  <2> QED BY <1>1, <2>1, BehindKept
<1>4. \A i \in Nat, t \in Task : Listed(i, t)' =>
          /\ i \in 1..Len(page'.messages)
          /\ page.offset + i \in 1..Len(line[page.queue])
          /\ line[page.queue][page.offset + i] = t
          /\ Home(t) = page.queue /\ At(t, page.offset + i)
  <2> SUFFICES ASSUME NEW i \in Nat, NEW t \in Task, Listed(i, t)'
               PROVE  /\ i \in 1..Len(page'.messages)
                      /\ page.offset + i \in 1..Len(line[page.queue])
                      /\ line[page.queue][page.offset + i] = t
                      /\ Home(t) = page.queue /\ At(t, page.offset + i)
    OBVIOUS
  <2>1. i \in 1..Len(page'.messages) /\ page'.messages[i].task = t
    BY DEF Listed
  <2>2. page.offset + i \in 1..Len(line[page.queue]) /\ line[page.queue][page.offset + i] = t
    BY <1>1, <2>1
  <2>3. Home(t) = page.queue
    BY <1>2, <2>2 DEF Single, Inserted, Placed
  <2> QED BY <2>1, <2>2, <2>3 DEF At
<1>5. \A t \in Task, k, m \in Nat : At(t, k) /\ At(t, m) => k = m
  BY Bounds DEF At, Single, Inserted, Placed
<1>6. \A i \in Nat, t \in Task : Listed(i, t)' /\ page'.messages[i].row => reported[t] = 0
  <2> SUFFICES ASSUME NEW i \in Nat, NEW t \in Task, Listed(i, t)', page'.messages[i].row,
                      reported[t] # 0
               PROVE  FALSE
    OBVIOUS
  <2>1. /\ i \in 1..Len(page'.messages) /\ At(t, page.offset + i) /\ Home(t) = page.queue
        /\ line[page.queue][page.offset + i] = t
    BY <1>4
  <2>2. ~(t \in index /\ found[t] # "none")
    BY <1>1, <2>1
  <2>3. Waits(t)
    BY <2>1 DEF At, Waits
  <2>4. found[t] = "none"
    BY <2>2, <2>3 DEF Single, Inserted, Placed
  <2>5. page.offset + i \in Nat /\ reported[t] > 0
    BY <2>1, PlaceTypes, ReportedTypes DEF Single, Inserted
  <2>6. Home(t) < AtQueue \/ (Home(t) = AtQueue /\ page.offset + i <= AtOffset)
    BY <1>1, <2>1, <2>4, <2>5 DEF Single, Behind
  <2>7. AtQueue = page.queue /\ AtOffset = page.offset
    BY <1>1 DEF AtQueue, AtOffset
  <2> QED BY <2>1, <2>6, <2>7, PlaceTypes DEF Single, Inserted
<1>7. \A i \in Nat, t \in Task : Listed(i, t)' =>
          \A k \in Nat : At(t, k) => k <= page.offset + i
  BY <1>4, <1>5, PlaceTypes DEF Single, Inserted
<1>8. \A i, j \in Nat, t \in Task : Listed(i, t)' /\ Listed(j, t)' => i = j
  <2> SUFFICES ASSUME NEW i \in Nat, NEW j \in Nat, NEW t \in Task, Listed(i, t)', Listed(j, t)'
               PROVE  i = j
    OBVIOUS
  <2>1. At(t, page.offset + i) /\ At(t, page.offset + j)
    BY <1>4
  <2>2. page.offset + i \in Nat /\ page.offset + j \in Nat
    BY PlaceTypes DEF Single, Inserted
  <2>3. page.offset + i = page.offset + j
    BY <1>5, <2>1, <2>2
  <2> QED BY <2>3, PlaceTypes DEF Single, Inserted
<1>9. Ahead'
  <2>1. found' = found /\ \A t \in Task, k \in Nat : At(t, k)' <=> At(t, k)
    BY <1>1, SameData DEF Untouched
  <2> QED BY <1>1, <1>2, <1>4, <1>6, <1>7, <1>8, <2>1 DEF Ahead
<1> QED BY <1>3, <1>9 DEF Single

LEMMA SingleRawTake ==
    ASSUME Single, Inserted', RawTake
    PROVE  Single'
<1> DEFINE h == page.messages[1].task
<1>1. /\ Untouched /\ phase' = phase /\ cursor' = cursor /\ phase = "raw"
      /\ page'.queue = page.queue /\ page'.offset = page.offset + 1
      /\ \A u \in Task : reported'[u] # reported[u] => u = h /\ page.messages[1].row
      /\ \A u \in Task : reported[u] = 0 => reported'[u] <= 1
  BY RawTakeDoes DEF Single, Inserted
<1>2. h \in Task /\ Listed(1, h)
  BY RawTakes DEF Single, Inserted
<1> HIDE DEF h
<1>3. \A i \in Nat, t \in Task : Listed(i, t)' =>
          Listed(i + 1, t) /\ i + 1 \in Nat /\ i # 0 /\ page'.messages[i].row = page.messages[i + 1].row
  BY RawTakes DEF Single, Inserted
<1>4. found' = found /\ \A t \in Task, k \in Nat : At(t, k)' <=> At(t, k)
  BY <1>1, SameData DEF Untouched
<1>5. /\ cursor.historyDone /\ page.queue # 0 /\ Home(h) = page.queue
      /\ page.messages[1].row => reported[h] = 0
      /\ found[h] = "none" => \A k \in Nat : At(h, k) => k <= page.offset + 1
  BY <1>1, <1>2 DEF Single, Ahead
<1>6. /\ AtQueue = page.queue /\ AtOffset = page.offset
      /\ AtQueue' = page.queue /\ AtOffset' = page.offset + 1
  BY <1>1 DEF AtQueue, AtOffset
<1>7. Behind'
  <2> SUFFICES ASSUME NEW t \in Task, reported'[t] > 0
               PROVE  /\ reported'[t] = 1
                      /\ found[t] = "none" => \A k \in Nat : At(t, k) =>
                            Home(t) < page.queue \/ (Home(t) = page.queue /\ k <= page.offset + 1)
    BY <1>1, <1>4, <1>5, <1>6 DEF Behind
  <2>1. CASE reported'[t] # reported[t]
    <3>1. t = h /\ reported[t] = 0 /\ reported'[t] <= 1
      BY <2>1, <1>1, <1>5
    <3>2. reported'[t] = 1
      BY <3>1 DEF Inserted, Types
    <3> QED BY <3>1, <3>2, <1>5
  <2>2. CASE reported'[t] = reported[t]
    <3>1. /\ reported[t] = 1
          /\ found[t] = "none" => \A k \in Nat : At(t, k) =>
                Home(t) < page.queue \/ (Home(t) = page.queue /\ k <= page.offset)
      BY <2>2, <1>1, <1>6 DEF Single, Behind
    <3> QED BY <2>2, <3>1, PlaceTypes DEF Single, Inserted
  <2> QED BY <2>1, <2>2
<1>8. \A i \in Nat, t \in Task : Listed(i, t)' =>
          /\ Home(t) = page.queue
          /\ page'.messages[i].row => reported'[t] = 0
          /\ found[t] = "none" => \A k \in Nat : At(t, k) => k <= (page.offset + 1) + i
  <2> SUFFICES ASSUME NEW i \in Nat, NEW t \in Task, Listed(i, t)'
               PROVE  /\ Home(t) = page.queue
                      /\ page'.messages[i].row => reported'[t] = 0
                      /\ found[t] = "none" => \A k \in Nat : At(t, k) => k <= (page.offset + 1) + i
    OBVIOUS
  <2>1. Listed(i + 1, t) /\ i + 1 \in Nat /\ i # 0 /\ page'.messages[i].row = page.messages[i + 1].row
    BY <1>3
  <2>2. t # h
    BY <2>1, <1>1, <1>2 DEF Single, Ahead
  <2>3. /\ Home(t) = page.queue
        /\ page.messages[i + 1].row => reported[t] = 0
        /\ found[t] = "none" => \A k \in Nat : At(t, k) => k <= page.offset + (i + 1)
    BY <2>1, <1>1 DEF Single, Ahead
  <2> QED BY <2>1, <2>2, <2>3, <1>1, PlaceTypes DEF Single, Inserted
<1>9. \A i, j \in Nat, t \in Task : Listed(i, t)' /\ Listed(j, t)' => i = j
  <2> SUFFICES ASSUME NEW i \in Nat, NEW j \in Nat, NEW t \in Task, Listed(i, t)', Listed(j, t)'
               PROVE  i = j
    OBVIOUS
  <2>1. Listed(i + 1, t) /\ Listed(j + 1, t) /\ i + 1 \in Nat /\ j + 1 \in Nat
    BY <1>3
  <2>2. i + 1 = j + 1
    BY <2>1, <1>1 DEF Single, Ahead
  <2> QED BY <2>2
<1>10. Ahead'
  BY <1>1, <1>4, <1>5, <1>8, <1>9 DEF Ahead
<1> QED BY <1>7, <1>10 DEF Single

LEMMA SingleRawEnds ==
    ASSUME Single, Inserted', RawEnds
    PROVE  Single'
<1>1. /\ Untouched /\ page' = page /\ reported' = reported
      /\ phase = "raw"
      /\ cursor'.anchor = cursor.anchor /\ cursor'.historyDone = cursor.historyDone
      /\ \/ /\ phase' = "between"
            /\ cursor'.raw.queue = page.queue /\ cursor'.raw.offset = page.offset
         \/ phase' = "open" /\ page.queue < Queues /\ page.messages = <<>>
         \/ phase' = "done"
  BY RawEndsDoes DEF Single, Inserted
<1>2. cursor.historyDone /\ page.queue # 0
  BY <1>1 DEF Single, Ahead
<1>3. Behind'
  <2>1. CASE phase' # "open"
    <3>1. phase' = "done" \/ (AtQueue' = AtQueue /\ AtOffset' = AtOffset)
      BY <1>1, <2>1 DEF AtQueue, AtOffset
    <3> QED BY <1>1, <3>1, BehindKept
  <2>2. CASE phase' = "open"
    <3>1. AtQueue = page.queue /\ AtQueue' = page.queue + 1
      BY <1>1, <1>2, <2>2 DEF AtQueue
    <3>2. \A t \in Task : reported[t] > 0 =>
              reported[t] = 1 /\ (found[t] = "none" => \A k \in Nat : At(t, k) => Home(t) < page.queue + 1)
      BY <1>1, <3>1, PlaceTypes DEF Single, Behind, Inserted
    <3>3. found' = found /\ \A t \in Task, k \in Nat : At(t, k)' <=> At(t, k)
      BY <1>1, SameData DEF Untouched
    <3> QED BY <1>1, <1>2, <3>1, <3>2, <3>3 DEF Behind
  <2> QED BY <2>1, <2>2
<1>4. Ahead'
  BY <1>1, <1>2 DEF Ahead
<1> QED BY <1>3, <1>4 DEF Single

LEMMA SingleStep ==
    ASSUME Single, Indexes, Containers => ~Insertions, [Next]_vars
    PROVE  Single'
<1>1. Inserted'
  BY InsertedStep DEF Single
<1>2. CASE Start
  BY <1>1, <1>2, SingleStart
<1>3. CASE Read
  BY <1>1, <1>3, SingleBeginPage, SingleFill, SingleMerge, SingleHistoryEnds, SingleOpen,
     SingleRawRead, SingleRawTake, SingleRawEnds DEF Read
<1>4. ASSUME NEW t \in Task,
             Prepare(t) \/ Commit(t) \/ Legacy(t) \/ Leave(t) \/ Return(t) \/ Forget(t)
      PROVE  Single'
  <2>1. Harmless
    BY <1>4, Meanwhile DEF Single, Inserted
  <2> QED BY <1>1, <2>1, SingleMeanwhile
<1>5. CASE UNCHANGED vars
  <2>1. Untouched /\ UNCHANGED <<now, phase, cursor, page, reported>>
    BY <1>5 DEF vars, data, search, Untouched
  <2>2. Harmless
    BY <2>1, SameData, NoMoves DEF Single, Inserted, Harmless, Untouched, search
  <2> QED BY <1>1, <2>2, SingleMeanwhile
<1> QED BY <1>2, <1>3, <1>4, <1>5 DEF Next

\* Once: no task is shown twice, however the indexes and containers shift
\* between two pages and within one.  Of the indexes that needs no assumption;
\* of the containers, that messages come behind the others.
THEOREM OnceHolds == (Containers => ~Insertions) => (Spec => []Once)
<1> SUFFICES ASSUME Containers => ~Insertions PROVE Spec => []Once
  OBVIOUS
<1>1. Init => Single /\ Indexes
  <2> SUFFICES ASSUME Init PROVE Single /\ Indexes
    OBVIOUS
  <2>1. Behind /\ Ahead
    BY DEF Init, Behind, Ahead
  <2>2. Indexes
    BY DEF Init, Indexes
  <2> QED BY <2>1, <2>2, InsertedInit DEF Single
<1>2. Single /\ Indexes /\ [Next]_vars => (Single /\ Indexes)'
  BY SingleStep, IndexesStep DEF Single, Inserted
<1>3. Single => Once
  BY DEF Single, Behind, Once, Inserted, Types
<1> QED BY <1>1, <1>2, <1>3, PTL DEF Spec

-----------------------------------------------------------------------------
\* A search that comes to its end is complete

Indexed(t) == t \in index /\ found[t] = "match"

\* What a search owes is there from its beginning, in an index or only in a
\* container.
Owed ==
    /\ \A t \in Task : created[t] <= now
    /\ steady \in SUBSET Task
    /\ phase = "idle" =>
          /\ steady = {} /\ ~cursor.historyDone /\ cursor.raw.queue = 0
          /\ \A q \in Queue : cursor.anchor[q] = NoAnchor
    /\ \A t \in Task : t \in steady =>
          /\ created[t] > 0 /\ created[t] <= cursor.cutoff
          /\ Indexed(t) \/ (Containers /\ Bare(t))

\* The entries a search still owes lie before it: in what a page has read of
\* the index, or behind all of that.
IndexedAhead ==
    /\ \A t \in Task : t \in steady /\ Indexed(t) /\ reported[t] = 0 =>
          /\ ~cursor.historyDone /\ phase \in {"between", "history"}
          /\ Before(t, Home(t))
          /\ phase = "history" =>
                \/ \E i \in Nat : Held(Home(t), i, t)
                \/ /\ ~page.dry[Home(t)]
                   /\ \A i \in Nat, u \in Task : Held(Home(t), i, u) => Newer(u, t)
    /\ phase = "history" => \A q \in Queue, i \in Nat, t \in Task :
          Held(q, i, t) /\ t \in steady => page.buffer[q][i].row = "match"

AtStamp == IF phase = "raw" THEN page.stamp ELSE cursor.raw.stamp

\* A message lies beyond the offset, or the first message of that time has gone
\* and is not back before it.
Beyond(t) ==
    \E u \in Task :
        /\ AtStamp[2] = <<u>> /\ Home(u) = Home(t)
        /\ \/ At(u, 1) /\ \A k \in Nat : At(t, k) => k > AtOffset
           \/ phase # "raw" /\ \A k, m \in Nat : At(t, k) /\ At(u, m) => m > k

\* The messages a search still owes lie before it in the containers.
BareAhead ==
    /\ phase # "done" /\ cursor.rawDone => ~Containers
    /\ phase # "idle" /\ ~cursor.rawDone => Containers
    /\ phase \in {"open", "raw"} => ~cursor.rawDone
    /\ \A t \in Task : t \in steady /\ Bare(t) /\ reported[t] = 0 =>
          /\ phase # "done"
          /\ phase # "refused" =>
                \/ AtQueue < Home(t)
                \/ AtQueue = Home(t) /\ ((phase = "open" /\ page.queue # 0) \/ Beyond(t))
          /\ phase = "raw" /\ page.queue = Home(t) =>
                \A k \in Nat : At(t, k) => k <= page.total
    /\ phase = "raw" => \A i \in Nat, t \in Task : Listed(i, t) =>
          /\ Home(t) = page.queue /\ At(t, page.offset + i)
          /\ t \in steady /\ Bare(t) => page.messages[i].row

\* Where an event appends, what waited stays where it was.
Appended ==
    \A v \in Task, k \in Nat :
        /\ At(v, k) => At(v, k)'
        /\ At(v, k)' => \/ At(v, k)
                        \/ ~Waits(v) /\ \A w \in Task, j \in Nat :
                                           Home(w) = Home(v) /\ At(w, j) => j < k

\* Where the first message leaves, those of its container move up.
Popped ==
    \E x \in Task :
        /\ x \notin steady' /\ At(x, 1) /\ ~Waits(x)'
        /\ \A v \in Task, k \in Nat : v # x /\ Home(v) = Home(x) => (At(v, k)' <=> At(v, k + 1))
        /\ \A v \in Task, k \in Nat : Home(v) # Home(x) => (At(v, k)' <=> At(v, k))

\* What an event between two steps of a search leaves of what the search owes.
Gentle ==
    /\ \A t \in Task : created'[t] <= now'
    /\ steady' \in SUBSET steady
    /\ \A t \in Task : t \in steady' =>
          /\ created'[t] = created[t] /\ found'[t] = found[t] /\ (t \in index' <=> t \in index)
          /\ Bare(t) => Bare(t)'
    /\ ~Insertions => Appended \/ (Popped /\ ("rush" \notin Events => phase # "raw"))

LEMMA ArrivesAppends ==
    ASSUME Types, Placed, NEW t \in Task, ~Waits(t), Arrives(t)
    PROVE  /\ \A u \in Task : Waits(u) => Waits(u)'
           /\ ~Insertions => Appended
<1> DEFINE h == Home(t)
           s == line[h]
<1>1. PICK k \in 1..(Len(s) + 1) :
          /\ Insertions \/ k = Len(s) + 1
          /\ line' = [line EXCEPT ![h] = InsertAt(s, k, t)]
  BY DEF Arrives
<1>2. h \in Queue /\ s \in Seq(Task) /\ Len(s) \in Nat
  BY Bounds DEF Types
<1> DEFINE r == InsertAt(s, k, t)
<1>3. /\ r \in Seq(Task) /\ Len(r) = Len(s) + 1
      /\ \A i \in 1..(Len(s) + 1) :
            r[i] = IF i < k THEN s[i] ELSE IF i = k THEN t ELSE s[i - 1]
  <2> HIDE DEF s
  <2> QED BY <1>2, InsertAtShifts
<1>4. /\ line'[h] = r
      /\ \A q \in Queue : q # h => line'[q] = line[q]
  BY <1>1, <1>2, <1>3 DEF Types
<1> HIDE DEF r
<1>5. ASSUME NEW u \in Task, NEW i \in 1..Len(line[Home(u)]), line[Home(u)][i] = u
      PROVE  Waits(u)'
  <2>1. Home(u) \in Queue
    BY Bounds
  <2>2. CASE Home(u) # h
    BY <2>1, <2>2, <1>4, <1>5 DEF Waits
  <2>3. CASE Home(u) = h
    <3>1. i \in 1..Len(s) /\ s[i] = u
      BY <2>3, <1>5
    <3> HIDE DEF s
    <3>2. CASE i < k
      <4>1. i \in 1..Len(r) /\ r[i] = u
        BY <3>1, <3>2, <1>2, <1>3
      <4> QED BY <4>1, <2>3, <1>4 DEF Waits
    <3>3. CASE ~(i < k)
      <4>1. i + 1 \in 1..Len(r) /\ r[i + 1] = u
        BY <3>1, <3>3, <1>2, <1>3
      <4> QED BY <4>1, <2>3, <1>4 DEF Waits
    <3> QED BY <3>2, <3>3
  <2> QED BY <2>2, <2>3
<1>6. ASSUME ~Insertions PROVE Appended
  <2>1. k = Len(s) + 1
    BY <1>1, <1>6
  <2>2. \A i \in 1..Len(s) : i \in 1..Len(r) /\ r[i] = s[i]
    <3> HIDE DEF s
    <3> QED BY <2>1, <1>2, <1>3
  <2>3. r[Len(s) + 1] = t
    <3> HIDE DEF s
    <3> QED BY <2>1, <1>2, <1>3
  <2> SUFFICES ASSUME NEW v \in Task, NEW i \in Nat
               PROVE  /\ At(v, i) => At(v, i)'
                      /\ At(v, i)' => \/ At(v, i)
                                      \/ ~Waits(v) /\ \A w \in Task, j \in Nat :
                                                         Home(w) = Home(v) /\ At(w, j) => j < i
    BY DEF Appended
  <2>4. Home(v) \in Queue
    BY Bounds
  <2>5. CASE Home(v) # h
    <3>1. line'[Home(v)] = line[Home(v)]
      BY <2>4, <2>5, <1>4
    <3> QED BY <3>1 DEF At
  <2>6. CASE Home(v) = h
    <3>1. At(v, i) => At(v, i)'
      BY <2>2, <2>6, <1>4 DEF At
    <3>2. ASSUME At(v, i)', i <= Len(s) PROVE At(v, i)
      <4>1. i \in 1..Len(r) /\ r[i] = v
        BY <3>2, <2>6, <1>4 DEF At
      <4>2. i \in 1..Len(s)
        BY <4>1, <3>2, <1>2
      <4>3. s[i] = v
        BY <4>1, <4>2, <2>2
      <4> QED BY <4>2, <4>3, <2>6 DEF At
    <3>3. ASSUME At(v, i)', ~(i <= Len(s))
          PROVE  ~Waits(v) /\ \A w \in Task, j \in Nat : Home(w) = Home(v) /\ At(w, j) => j < i
      <4>1. i \in 1..Len(r) /\ r[i] = v
        BY <3>3, <2>6, <1>4 DEF At
      <4>2. i = Len(s) + 1
        <5> HIDE DEF s
        <5> QED BY <4>1, <3>3, <1>2, <1>3
      <4>3. v = t
        BY <4>1, <4>2, <2>3
      <4>4. \A w \in Task, j \in Nat : Home(w) = Home(v) /\ At(w, j) => j < i
        <5>1. \A w \in Task, j \in Nat : Home(w) = Home(v) /\ At(w, j) => j \in 1..Len(s)
          BY <2>6 DEF At
        <5> HIDE DEF s
        <5> QED BY <5>1, <4>2, <1>2
      <4> QED BY <4>3, <4>4
    <3> QED BY <3>1, <3>2, <3>3
  <2> QED BY <2>5, <2>6
<1> QED BY <1>5, <1>6 DEF Waits

LEMMA LeavePops ==
    ASSUME Types, Placed, NEW t \in Task, Leave(t)
    PROVE  /\ \A u \in Task : u # t /\ Waits(u) => Waits(u)'
           /\ Popped
           /\ "rush" \notin Events => phase # "raw"
<1> DEFINE h == Home(t)
           s == line[h]
           r == Tail(s)
<1>1. h \in Queue /\ s \in Seq(Task) /\ s # <<>> /\ Head(s) = t /\ line' = [line EXCEPT ![h] = r]
  BY Bounds DEF Types, Leave
<1>2. /\ r \in Seq(Task) /\ Len(s) \in Nat \ {0} /\ Len(r) = Len(s) - 1
      /\ \A i \in 1..(Len(s) - 1) : r[i] = s[i + 1]
      /\ s[1] = t
  <2> HIDE DEF s
  <2> QED BY <1>1, TailShifts
<1>3. /\ line'[h] = r
      /\ \A q \in Queue : q # h => line'[q] = line[q]
  BY <1>1, <1>2 DEF Types
<1> HIDE DEF r
<1>4. \A v \in Task, k \in Nat : Home(v) = h /\ v # t => (At(v, k)' <=> At(v, k + 1))
  <2> SUFFICES ASSUME NEW v \in Task, NEW k \in Nat, Home(v) = h, v # t
               PROVE  At(v, k)' <=> At(v, k + 1)
    OBVIOUS
  <2>1. At(v, k)' <=> k \in 1..Len(r) /\ r[k] = v
    BY <1>3 DEF At
  <2>2. At(v, k + 1) <=> k + 1 \in 1..Len(s) /\ s[k + 1] = v
    BY DEF At
  <2> HIDE DEF s
  <2>3. CASE k = 0
    BY <2>1, <2>2, <2>3, <1>2
  <2>4. CASE k # 0
    <3>1. k \in 1..Len(r) <=> k + 1 \in 1..Len(s)
      BY <2>4, <1>2
    <3>2. k \in 1..Len(r) => r[k] = s[k + 1]
      BY <1>2
    <3> QED BY <3>1, <3>2, <2>1, <2>2
  <2> QED BY <2>3, <2>4
<1>5. \A v \in Task, k \in Nat : Home(v) # h => (At(v, k)' <=> At(v, k))
  BY <1>3, Bounds DEF At
<1>6. At(t, 1)
  BY <1>2 DEF At
<1>7. t \notin steady'
  BY DEF Leave, Touch
<1>8. Popped
  BY <1>4, <1>5, <1>6, <1>7, LeaveShifts DEF Popped
<1>9. ASSUME NEW u \in Task, u # t, Waits(u) PROVE Waits(u)'
  <2>1. PICK i \in 1..Len(line[Home(u)]) : line[Home(u)][i] = u
    BY <1>9 DEF Waits
  <2>2. i \in Nat /\ At(u, i)
    BY <2>1, Bounds DEF At, Types
  <2>3. \E k \in Nat : At(u, k)'
    <3>1. CASE Home(u) = h
      <4>1. i # 1
        BY <3>1, <2>1, <1>2, <1>9
      <4>2. i - 1 \in Nat /\ i = (i - 1) + 1
        BY <4>1, <2>1, <2>2
      <4>3. At(u, i - 1)'
        <5>1. At(u, (i - 1) + 1)
          BY <2>2, <4>2
        <5> QED BY <5>1, <4>2, <3>1, <1>4, <1>9
      <4> QED BY <4>2, <4>3
    <3>2. CASE Home(u) # h
      BY <3>2, <2>2, <1>5
    <3> QED BY <3>1, <3>2
  <2> QED BY <2>3 DEF At, Waits
<1>10. "rush" \notin Events => phase # "raw"
  BY DEF Leave
<1> QED BY <1>8, <1>9, <1>10

LEMMA NoneAppended ==
    ASSUME line' = line
    PROVE  Appended /\ \A u \in Task : Waits(u) => Waits(u)'
BY DEF Appended, At, Waits

LEMMA GentleMeanwhile ==
    ASSUME Types, Placed, Owed, NEW t \in Task,
           Prepare(t) \/ Commit(t) \/ Legacy(t) \/ Leave(t) \/ Return(t) \/ Forget(t)
    PROVE  Gentle
<1>1. /\ now \in Nat /\ \A u \in Task : created[u] \in Nat /\ created[u] <= now
      /\ steady \in SUBSET Task
  BY Bounds DEF Types, Owed
<1>2. CASE Prepare(t)
  <2>1. created[t] = 0 /\ found[t] = "none" /\ ~Waits(t)
    BY <1>2 DEF Prepare, Placed
  <2>2. /\ created' = [created EXCEPT ![t] = now] /\ now' \in {now, now + 1}
        /\ steady' = steady \ {t}
    BY <1>2 DEF Prepare, Touch
  <2>3. \/ found' = [found EXCEPT ![t] = "unsent"] /\ UNCHANGED <<index, line>>
        \/ /\ index' = index \cup {t} /\ found' = [found EXCEPT ![t] = "match"]
           /\ Arrives(t)
    BY <1>2 DEF Prepare
  <2>4. /\ \A u \in Task : Waits(u) => Waits(u)'
        /\ ~Insertions => Appended
    BY <2>1, <2>3, ArrivesAppends, NoneAppended
  <2>5. \A u \in Task : created'[u] <= now'
    BY <2>2, <1>1 DEF Types
  <2> QED BY <2>2, <2>3, <2>4, <2>5 DEF Gentle, Types, Bare
<1>3. CASE Commit(t)
  <2>1. found[t] = "unsent" /\ ~Waits(t)
    BY <1>3 DEF Commit, Placed
  <2>2. /\ created' = created /\ now' = now /\ steady' = steady \ {t}
        /\ index' = index \cup {t} /\ found' = [found EXCEPT ![t] = "match"]
        /\ Arrives(t)
    BY <1>3 DEF Commit, Touch
  <2>3. /\ \A u \in Task : Waits(u) => Waits(u)'
        /\ ~Insertions => Appended
    BY <2>1, <2>2, ArrivesAppends
  <2> QED BY <2>2, <2>3, <1>1 DEF Gentle, Types, Bare
<1>4. CASE Legacy(t)
  <2>1. created[t] = 0 /\ ~Waits(t) /\ phase = "idle"
    BY <1>4 DEF Legacy, Placed
  <2>2. /\ created' = [created EXCEPT ![t] = now] /\ now' = now /\ steady' = steady
        /\ index' = index /\ found' = found /\ Arrives(t)
    BY <1>4 DEF Legacy
  <2>3. ~Insertions => Appended
    BY <2>1, <2>2, ArrivesAppends
  <2>4. steady = {}
    BY <2>1 DEF Owed
  <2>5. \A u \in Task : created'[u] <= now'
    BY <2>2, <1>1 DEF Types
  <2> QED BY <2>2, <2>3, <2>4, <2>5 DEF Gentle
<1>5. CASE Leave(t)
  <2>1. /\ created' = created /\ now' = now /\ steady' = steady \ {t}
        /\ index' = index \cup {t} /\ found' = [found EXCEPT ![t] = "other"]
    BY <1>5 DEF Leave, Touch
  <2>2. /\ \A u \in Task : u # t /\ Waits(u) => Waits(u)'
        /\ Popped
        /\ "rush" \notin Events => phase # "raw"
    BY <1>5, LeavePops
  <2> QED BY <2>1, <2>2, <1>1 DEF Gentle, Types, Bare
<1>6. CASE Return(t)
  <2>1. found[t] = "other" /\ ~Waits(t)
    BY <1>6 DEF Return, Placed
  <2>2. /\ created' = created /\ now' = now /\ steady' = steady \ {t}
        /\ index' = index /\ found' = [found EXCEPT ![t] = "match"]
        /\ Arrives(t)
    BY <1>6 DEF Return, Touch
  <2>3. /\ \A u \in Task : Waits(u) => Waits(u)'
        /\ ~Insertions => Appended
    BY <2>1, <2>2, ArrivesAppends
  <2> QED BY <2>2, <2>3, <1>1 DEF Gentle, Types, Bare
<1>7. CASE Forget(t)
  <2>1. /\ created' = created /\ now' = now /\ steady' = steady \ {t} /\ line' = line
        /\ index' = index \ {t} /\ found' = [found EXCEPT ![t] = "none"]
    BY <1>7 DEF Forget, Touch
  <2>2. Appended /\ \A u \in Task : Waits(u) => Waits(u)'
    BY <2>1, NoneAppended
  <2> QED BY <2>1, <2>2, <1>1 DEF Gentle, Types, Bare
<1> QED BY <1>2, <1>3, <1>4, <1>5, <1>6, <1>7

Whole == Inserted /\ Owed /\ IndexedAhead /\ BareAhead

\* In which searches messages only come behind the others, and none leaves
\* between two reads of one page.
Safe == Containers => ~Insertions /\ "rush" \notin Events

LEMMA BareOnly ==
    ASSUME Owed, NEW t \in Task, t \in steady
    PROVE  /\ Bare(t) => Containers /\ ~Indexed(t)
           /\ ~Bare(t) => Indexed(t)
BY DEF Owed, Bare, Indexed

LEMMA WaitsAt ==
    ASSUME Types, NEW t \in Task, Waits(t)
    PROVE  \E k \in Nat : At(t, k) /\ k # 0 /\ k <= Len(line[Home(t)])
<1>1. Len(line[Home(t)]) \in Nat
  BY Bounds DEF Types
<1> QED BY <1>1 DEF Waits, At

LEMMA AtOnce ==
    ASSUME Types, Placed, NEW t \in Task, NEW u \in Task, NEW k \in Nat, NEW m \in Nat, At(t, k), At(u, m)
    PROVE  /\ t = u => k = m
           /\ k = m /\ Home(t) = Home(u) => t = u
           /\ k # 0 /\ k <= Len(line[Home(t)])
<1>1. Home(t) \in Queue /\ Len(line[Home(t)]) \in Nat
  BY Bounds DEF Types
<1> QED BY <1>1 DEF At, Placed

\* What lies beyond the offset stays there.
LEMMA BeyondMeanwhile ==
    ASSUME Types, Placed, Appended \/ (Popped /\ phase # "raw"),
           phase' = phase, cursor' = cursor, page' = page,
           NEW t \in Task, t \in steady', Waits(t), Beyond(t)
    PROVE  Beyond(t)'
<1>1. AtStamp' = AtStamp /\ AtOffset' = AtOffset
  BY DEF AtStamp, AtOffset
<1>2. PICK u \in Task :
          /\ AtStamp[2] = <<u>> /\ Home(u) = Home(t)
          /\ \/ At(u, 1) /\ \A k \in Nat : At(t, k) => k > AtOffset
             \/ phase # "raw" /\ \A k, m \in Nat : At(t, k) /\ At(u, m) => m > k
  BY DEF Beyond
<1>3. SUFFICES \/ At(u, 1)' /\ \A k \in Nat : At(t, k)' => k > AtOffset
               \/ phase # "raw" /\ \A k, m \in Nat : At(t, k)' /\ At(u, m)' => m > k
  BY <1>1, <1>2 DEF Beyond
<1>4. CASE Appended
  <2>1. \A k \in Nat : At(t, k)' => At(t, k)
    BY <1>4 DEF Appended
  <2>2. CASE At(u, 1) /\ \A k \in Nat : At(t, k) => k > AtOffset
    <3>1. At(u, 1)'
      BY <1>4, <2>2 DEF Appended
    <3> QED BY <2>1, <2>2, <3>1
  <2>3. CASE phase # "raw" /\ \A k, m \in Nat : At(t, k) /\ At(u, m) => m > k
    <3> SUFFICES ASSUME NEW k \in Nat, NEW m \in Nat, At(t, k)', At(u, m)' PROVE m > k
      BY <2>3
    <3>1. At(t, k)
      BY <2>1
    <3>2. At(u, m) \/ \A w \in Task, j \in Nat : Home(w) = Home(u) /\ At(w, j) => j < m
      BY <1>4 DEF Appended
    <3> QED BY <2>3, <3>1, <3>2, <1>2
  <2> QED BY <1>2, <2>2, <2>3
<1>5. CASE Popped /\ phase # "raw"
  <2>1. PICK x \in Task :
            /\ x \notin steady' /\ At(x, 1) /\ ~Waits(x)'
            /\ \A v \in Task, k \in Nat : v # x /\ Home(v) = Home(x) => (At(v, k)' <=> At(v, k + 1))
            /\ \A v \in Task, k \in Nat : Home(v) # Home(x) => (At(v, k)' <=> At(v, k))
    BY <1>5 DEF Popped
  <2>2. t # x
    BY <2>1
  <2>3. CASE Home(t) # Home(x)
    BY <1>2, <2>1, <2>3
  <2>4. CASE Home(t) = Home(x)
    <3>1. CASE u = x
      <4>1. \A m \in Nat : ~At(x, m)'
        BY <2>1 DEF At, Waits
      <4> QED BY <3>1, <4>1, <1>5
    <3>2. CASE u # x
      <4>1. ~At(u, 1)
        BY <2>1, <2>4, <3>2, <1>2, AtOnce
      <4> SUFFICES ASSUME NEW k \in Nat, NEW m \in Nat, At(t, k)', At(u, m)' PROVE m > k
        BY <1>5
      <4>2. At(t, k + 1) /\ At(u, m + 1) /\ k + 1 \in Nat /\ m + 1 \in Nat
        BY <2>1, <2>2, <2>4, <3>2, <1>2
      <4>3. m + 1 > k + 1
        BY <4>1, <4>2, <1>2
      <4> QED BY <4>3
    <3> QED BY <3>1, <3>2
  <2> QED BY <2>3, <2>4
<1> QED BY <1>4, <1>5 DEF Popped

LEMMA WholeMeanwhile ==
    ASSUME Whole, Inserted', Safe, Harmless, Gentle
    PROVE  Whole'
<1>1. /\ phase' = phase /\ cursor' = cursor /\ page' = page /\ reported' = reported
      /\ \A t \in Task : created[t] > 0 => created'[t] = created[t]
      /\ phase # "idle" => \A t \in Task : Bare(t)' => Bare(t)
      /\ AtQueue' = AtQueue /\ AtOffset' = AtOffset
  BY DEF Harmless, search, AtQueue, AtOffset
<1>2. \A t \in Task : t \in steady' =>
          /\ t \in steady /\ phase # "idle"
          /\ created'[t] = created[t] /\ found'[t] = found[t] /\ (t \in index' <=> t \in index)
          /\ (Bare(t) <=> Bare(t)') /\ (Indexed(t)' <=> Indexed(t))
  <2> SUFFICES ASSUME NEW t \in Task, t \in steady'
               PROVE  /\ t \in steady /\ phase # "idle"
                      /\ created'[t] = created[t] /\ found'[t] = found[t] /\ (t \in index' <=> t \in index)
                      /\ (Bare(t) <=> Bare(t)') /\ (Indexed(t)' <=> Indexed(t))
    OBVIOUS
  <2>1. /\ t \in steady
        /\ created'[t] = created[t] /\ found'[t] = found[t] /\ (t \in index' <=> t \in index)
        /\ Bare(t) => Bare(t)'
    BY DEF Gentle
  <2>2. phase # "idle"
    BY <2>1 DEF Whole, Owed
  <2>3. Indexed(t)' <=> Indexed(t)
    BY <2>1 DEF Indexed
  <2> QED BY <1>1, <2>1, <2>2, <2>3
<1>3. Owed'
  <2>1. steady' \in SUBSET Task /\ \A t \in Task : created'[t] <= now'
    BY DEF Whole, Owed, Gentle
  <2>2. phase = "idle" =>
            /\ steady' = {} /\ ~cursor.historyDone /\ cursor.raw.queue = 0
            /\ \A q \in Queue : cursor.anchor[q] = NoAnchor
    BY DEF Whole, Owed, Gentle
  <2>3. \A t \in Task : t \in steady' =>
            /\ created'[t] > 0 /\ created'[t] <= cursor.cutoff
            /\ Indexed(t)' \/ (Containers /\ Bare(t)')
    BY <1>2 DEF Whole, Owed
  <2> QED BY <1>1, <2>1, <2>2, <2>3 DEF Owed
<1>4. IndexedAhead'
  <2>1. \A q \in Queue, i \in Nat, t \in Task : Held(q, i, t)' <=> Held(q, i, t)
    BY <1>1 DEF Held
  <2>2. ASSUME NEW t \in Task, t \in steady', Indexed(t)', reported[t] = 0
        PROVE  /\ ~cursor.historyDone /\ phase \in {"between", "history"}
               /\ Before(t, Home(t))'
               /\ phase = "history" =>
                     \/ \E i \in Nat : Held(Home(t), i, t)
                     \/ /\ ~page.dry[Home(t)]
                        /\ \A i \in Nat, u \in Task : Held(Home(t), i, u) => Newer(u, t)'
    <3>1. t \in steady /\ Indexed(t) /\ created'[t] = created[t] /\ created[t] > 0 /\ Home(t) \in Queue
      BY <1>2, <2>2, Bounds DEF Whole, Owed
    <3>2. Before(t, Home(t))' <=> Before(t, Home(t))
      BY <1>1, <3>1 DEF Before
    <3>3. phase = "history" => \A i \in Nat, u \in Task : Held(Home(t), i, u) => created'[u] = created[u]
      BY <1>1, <3>1 DEF Whole, Inserted, Buffered
    <3>4. phase = "history" => \A i \in Nat, u \in Task :
              Held(Home(t), i, u) /\ Newer(u, t) => Newer(u, t)'
      BY <3>1, <3>3 DEF Newer
    <3>5. /\ ~cursor.historyDone /\ phase \in {"between", "history"}
          /\ Before(t, Home(t))
          /\ phase = "history" =>
                \/ \E i \in Nat : Held(Home(t), i, t)
                \/ /\ ~page.dry[Home(t)]
                   /\ \A i \in Nat, u \in Task : Held(Home(t), i, u) => Newer(u, t)
      BY <2>2, <3>1 DEF Whole, IndexedAhead
    <3> QED BY <3>2, <3>4, <3>5
  <2>3. phase = "history" => \A q \in Queue, i \in Nat, t \in Task :
            Held(q, i, t) /\ t \in steady' => page.buffer[q][i].row = "match"
    BY <1>2 DEF Whole, IndexedAhead
  <2>4. \A t \in Task : Home(t) \in Queue
    BY Bounds
  <2> QED BY <1>1, <2>1, <2>2, <2>3, <2>4 DEF IndexedAhead
<1>5. BareAhead'
  <2>1. ASSUME Containers PROVE Appended \/ (Popped /\ phase # "raw")
    BY <2>1 DEF Safe, Gentle
  <2>2. ASSUME NEW t \in Task, t \in steady', Bare(t)', reported[t] = 0
        PROVE  /\ phase # "done"
               /\ phase # "refused" =>
                     \/ AtQueue < Home(t)
                     \/ AtQueue = Home(t) /\ ((phase = "open" /\ page.queue # 0) \/ Beyond(t)')
               /\ phase = "raw" /\ page.queue = Home(t) =>
                     \A k \in Nat : At(t, k)' => k <= page.total
    <3>1. t \in steady /\ Bare(t) /\ Waits(t)
      BY <1>2, <2>2 DEF Bare
    <3>2. Containers
      BY <3>1, BareOnly DEF Whole
    <3>3. Beyond(t) => Beyond(t)'
      BY <1>1, <2>1, <2>2, <3>1, <3>2, BeyondMeanwhile DEF Whole, Inserted
    <3>4. phase = "raw" => \A k \in Nat : At(t, k)' => At(t, k)
      BY <2>1, <3>1, <3>2 DEF Appended
    <3> QED BY <2>2, <3>1, <3>3, <3>4 DEF Whole, BareAhead
  <2>3. ASSUME phase = "raw", NEW i \in Nat, NEW t \in Task, Listed(i, t)
        PROVE  /\ Home(t) = page.queue /\ At(t, page.offset + i)'
               /\ t \in steady' /\ Bare(t)' => page.messages[i].row
    <3>1. Containers
      BY <2>3 DEF Whole, BareAhead
    <3>2. Home(t) = page.queue /\ At(t, page.offset + i)
      BY <2>3 DEF Whole, BareAhead
    <3>3. page.offset + i \in Nat
      BY PlaceTypes DEF Whole, Inserted
    <3>4. \A k \in Nat : At(t, k) => At(t, k)'
      BY <2>1, <2>3, <3>1 DEF Appended
    <3>5. ASSUME NEW k \in Nat, k = page.offset + i PROVE At(t, page.offset + i)'
      <4>1. At(t, k)'
        BY <3>2, <3>4, <3>5
      <4>2. page'.offset + i = k
        BY <3>5, <1>1
      <4> QED BY <4>1, <4>2
    <3>6. At(t, page.offset + i)'
      BY <3>3, <3>5
    <3> QED BY <3>2, <3>6, <1>2, <2>3 DEF Whole, BareAhead
  <2>4. \A i \in Nat, t \in Task : Listed(i, t)' <=> Listed(i, t)
    BY <1>1 DEF Listed
  <2> QED BY <1>1, <2>2, <2>3, <2>4 DEF Whole, BareAhead
<1> QED BY <1>3, <1>4, <1>5 DEF Whole

\* What a step of the search leaves of what it owes, when it has not moved in
\* the containers ...
LEMMA BareKept ==
    ASSUME Whole, Inserted', Untouched, steady' = steady,
           \A t \in Task : reported'[t] = 0 => reported[t] = 0,
           phase \in {"between", "history"}, phase' \in {"between", "history", "open"},
           phase' = "open" => ~cursor.rawDone /\ page'.queue = 0,
           cursor'.raw = cursor.raw, cursor'.rawDone = cursor.rawDone
    PROVE  BareAhead'
<1>1. AtQueue' = AtQueue /\ AtOffset' = AtOffset /\ AtStamp' = AtStamp
  BY DEF AtQueue, AtOffset, AtStamp
<1>2. \A t \in Task : Bare(t)' <=> Bare(t)
  BY SameData
<1>3. \A t \in Task, k \in Nat : At(t, k)' <=> At(t, k)
  BY SameData
<1>4. \A t \in Task : Beyond(t) => Beyond(t)'
  BY <1>1, <1>3 DEF Beyond
<1> QED BY <1>1, <1>2, <1>4 DEF Whole, BareAhead

\* ... and when the indexes are over.
LEMMA IndexedLater ==
    ASSUME Whole, Untouched, steady' = steady,
           \A t \in Task : reported'[t] = 0 => reported[t] = 0,
           phase \in {"open", "raw"}, phase' # "history"
    PROVE  IndexedAhead'
<1>1. \A t \in Task : Indexed(t)' <=> Indexed(t)
  BY DEF Indexed, Untouched
<1> QED BY <1>1 DEF Whole, IndexedAhead

LEMMA OwedKept ==
    ASSUME Whole, Untouched, steady' = steady, now' = now, cursor'.cutoff = cursor.cutoff,
           phase # "idle", phase' # "idle"
    PROVE  Owed'
<1>1. \A t \in Task : Indexed(t)' <=> Indexed(t)
  BY DEF Indexed, Untouched
<1>2. \A t \in Task : Bare(t)' <=> Bare(t)
  BY SameData
<1>3. created' = created
  BY DEF Untouched
<1> QED BY <1>1, <1>2, <1>3 DEF Whole, Owed

LEMMA WholeStart ==
    ASSUME Whole, Inserted', Start
    PROVE  Whole'
<1>1. /\ Untouched /\ UNCHANGED <<page, reported>>
      /\ phase = "idle" /\ phase' = "between"
      /\ cursor'.cutoff = now
      /\ cursor'.historyDone = cursor.historyDone /\ cursor'.raw = cursor.raw
      /\ cursor'.anchor = cursor.anchor
      /\ cursor'.rawDone = (~Containers)
  BY StartDoes DEF Whole, Inserted
<1>2. /\ now' = now + 1
      /\ steady' = {t \in Task :
             \/ t \in index /\ found[t] = "match"
             \/ Containers /\ found[t] = "none"
                           /\ \E i \in DOMAIN line[Home(t)] : line[Home(t)][i] = t}
  BY DEF Start
<1>3. /\ now \in Nat /\ \A t \in Task : created[t] \in 0..MaxTime /\ created[t] <= now
      /\ \A t \in Task : t \in Nat /\ Home(t) \in Queue
      /\ MaxTime \in Nat /\ created' = created
  BY <1>1, Bounds DEF Whole, Owed, Inserted, Types, Task, Untouched
<1>4. \A t \in Task : t \in steady' => Indexed(t) \/ (Containers /\ Bare(t))
  <2>1. \A t \in Task : DOMAIN line[Home(t)] = 1..Len(line[Home(t)])
    BY <1>3 DEF Whole, Inserted, Types
  <2> QED BY <1>2, <2>1 DEF Indexed, Bare, Waits
<1>5. \A t \in Task : (Indexed(t)' <=> Indexed(t)) /\ (Bare(t)' <=> Bare(t))
  BY <1>1, SameData DEF Indexed, Untouched
<1>6. \A t \in Task : t \in steady' => created[t] > 0
  <2> SUFFICES ASSUME NEW t \in Task, t \in steady' PROVE created[t] > 0
    OBVIOUS
  <2>1. found[t] # "none" \/ Waits(t)
    BY <1>4 DEF Indexed, Bare
  <2>2. created[t] # 0
    BY <2>1 DEF Whole, Inserted, Placed
  <2> QED BY <2>2, <1>3
<1>7. Owed'
  <2>1. \A t \in Task : created'[t] <= now'
    BY <1>2, <1>3
  <2>2. steady' \in SUBSET Task
    BY <1>2
  <2>3. \A t \in Task : t \in steady' =>
            /\ created'[t] > 0 /\ created'[t] <= cursor'.cutoff
            /\ Indexed(t)' \/ (Containers /\ Bare(t)')
    BY <1>1, <1>3, <1>4, <1>5, <1>6
  <2> QED BY <1>1, <2>1, <2>2, <2>3 DEF Owed
<1>8. IndexedAhead'
  <2>1. ~cursor.historyDone /\ \A q \in Queue : cursor.anchor[q] = NoAnchor
    BY <1>1 DEF Whole, Owed
  <2>2. \A t \in Task : Before(t, Home(t))'
    BY <1>1, <1>3, <2>1 DEF Before, NoAnchor
  <2> QED BY <1>1, <2>1, <2>2 DEF IndexedAhead
<1>9. BareAhead'
  <2>1. AtQueue' = 0
    BY <1>1 DEF AtQueue, Whole, Owed
  <2>2. \A t \in Task : 0 < Home(t)
    BY PlaceTypes DEF Whole, Inserted
  <2> QED BY <1>1, <2>1, <2>2 DEF BareAhead
<1> QED BY <1>7, <1>8, <1>9 DEF Whole

LEMMA WholeBeginPage ==
    ASSUME Whole, Inserted', BeginPage
    PROVE  Whole'
<1>1. /\ Untouched /\ cursor' = cursor /\ reported' = reported
      /\ phase = "between" /\ phase' = "history"
      /\ page'.buffer = [q \in Queue |-> <<>>]
      /\ page'.dry = [q \in Queue |-> cursor.historyDone]
  BY BeginPageDoes DEF Whole, Inserted
<1>2. steady' = steady /\ now' = now /\ created' = created
  BY <1>1 DEF BeginPage, Untouched
<1>3. Owed' /\ BareAhead'
  BY <1>1, <1>2, OwedKept, BareKept
<1>4. \A q \in Queue : page'.buffer[q] = <<>> /\ page'.dry[q] = cursor.historyDone
  BY <1>1
<1>5. \A q \in Queue, i \in Nat, t \in Task : ~Held(q, i, t)'
  BY <1>4 DEF Held
<1>6. \A t \in Task : Indexed(t)' <=> Indexed(t)
  BY <1>1 DEF Indexed, Untouched
<1>7. \A t \in Task : Before(t, Home(t))' <=> Before(t, Home(t))
  BY <1>1, <1>2 DEF Before
<1>8. IndexedAhead'
  BY <1>1, <1>2, <1>4, <1>5, <1>6, <1>7, Bounds DEF Whole, IndexedAhead
<1> QED BY <1>3, <1>8 DEF Whole

\* What waited for the read is in it or behind it.
LEMMA FillFinds ==
    ASSUME Inserted, NEW q \in Queue, Fill(q), NEW t \in Task, Eligible(t, q)
    PROVE  /\ page'.buffer[q] # <<>>
           /\ \/ \E i \in Nat : Held(q, i, t)'
              \/ \A i \in Nat, u \in Task : Held(q, i, u)' => Newer(u, t)
<1> DEFINE read == Newest(Waiting(q), page.size[q])
<1>1. /\ read \in Seq(Waiting(q)) /\ Len(page'.buffer[q]) = Len(read)
      /\ \A i \in 1..Len(page'.buffer[q]) : page'.buffer[q][i].task = read[i]
      /\ page' \in Page
  BY FillDoes DEF Inserted, Types
<1>2. t \in Waiting(q)
  BY DEF Waiting
<1>3. /\ (\E i \in 1..Len(read) : read[i] = t) \/ (\A i \in 1..Len(read) : Newer(read[i], t))
      /\ read # <<>>
  <2>1. page.size[q] \in Nat \ {0} /\ Waiting(q) \in SUBSET Task
    BY DEF Inserted, Types, Page, Waiting
  <2> QED BY <1>2, <2>1, NewestFirst, Bounds DEF Inserted, Types
<1> HIDE DEF read
<1>4. page'.buffer[q] # <<>>
  <2>1. Len(read) # 0
    BY <1>1, <1>3
  <2> QED BY <2>1, <1>1
<1>5. \A i \in 1..Len(read) : i \in Nat /\ (read[i] = t => Held(q, i, t)')
  BY <1>1 DEF Held
<1>6. \A i \in Nat, u \in Task : Held(q, i, u)' => i \in 1..Len(read) /\ u = read[i]
  BY <1>1 DEF Held
<1> QED BY <1>3, <1>4, <1>5, <1>6

LEMMA WholeFill ==
    ASSUME Whole, Inserted', NEW q \in Queue, Fill(q)
    PROVE  Whole'
<1>1. /\ Untouched /\ phase' = phase /\ cursor' = cursor /\ reported' = reported
      /\ phase = "history" /\ ~page.dry[q] /\ page.buffer[q] = <<>>
      /\ page'.queue = page.queue
      /\ \A p \in Queue : page'.dry[p] = IF p = q THEN page'.buffer[q] = <<>> ELSE page.dry[p]
      /\ \A p \in Queue : p # q => page'.buffer[p] = page.buffer[p]
      /\ \A i \in 1..Len(page'.buffer[q]) : page'.buffer[q][i].row = found[page'.buffer[q][i].task]
  BY FillDoes DEF Whole, Inserted
<1>2. steady' = steady /\ now' = now /\ created' = created
  BY <1>1 DEF Fill, Untouched
<1>3. Owed' /\ BareAhead'
  BY <1>1, <1>2, OwedKept, BareKept
<1>4. \A p \in Queue, i \in Nat, t \in Task : p # q => (Held(p, i, t)' <=> Held(p, i, t))
  BY <1>1 DEF Held
<1>5. \A t \in Task : Indexed(t)' <=> Indexed(t)
  BY <1>1 DEF Indexed, Untouched
<1>6. \A t \in Task : Before(t, Home(t))' <=> Before(t, Home(t))
  BY <1>1, <1>2 DEF Before
<1>7. ASSUME NEW t \in Task, t \in steady, Indexed(t), reported[t] = 0
      PROVE  \/ \E i \in Nat : Held(Home(t), i, t)'
             \/ /\ ~page'.dry[Home(t)]
                /\ \A i \in Nat, u \in Task : Held(Home(t), i, u)' => Newer(u, t)
  <2>1. Home(t) \in Queue
    BY Bounds
  <2>2. CASE Home(t) = q
    <3>1. Before(t, q) /\ created[t] <= cursor.cutoff /\ t \in index
      BY <1>7, <2>2 DEF Whole, IndexedAhead, Owed, Indexed
    <3>2. Eligible(t, q)
      BY <2>2, <3>1 DEF Eligible, Before
    <3>3. ~page'.dry[q]
      BY <1>1, <3>2, FillFinds DEF Whole
    <3> QED BY <2>2, <3>2, <3>3, FillFinds DEF Whole
  <2>3. CASE Home(t) # q
    <3>1. page'.dry[Home(t)] = page.dry[Home(t)]
      BY <1>1, <2>1, <2>3
    <3> QED BY <2>1, <2>3, <3>1, <1>1, <1>4, <1>7 DEF Whole, IndexedAhead
  <2> QED BY <2>2, <2>3
<1>8. \A p \in Queue, i \in Nat, t \in Task :
          Held(p, i, t)' /\ t \in steady => page'.buffer[p][i].row = "match"
  <2> SUFFICES ASSUME NEW p \in Queue, NEW i \in Nat, NEW t \in Task, Held(p, i, t)', t \in steady
               PROVE  page'.buffer[p][i].row = "match"
    OBVIOUS
  <2>1. CASE p = q
    <3>1. i \in 1..Len(page'.buffer[q]) /\ page'.buffer[q][i].task = t
      BY <2>1 DEF Held
    <3>2. page'.buffer[q][i].row = found[t]
      BY <1>1, <3>1
    <3>3. t \in index
      BY <2>1, FillAdds DEF Whole
    <3>4. found[t] \in {"match", "other"}
      BY <3>3 DEF Whole, Inserted, Placed
    <3>5. found[t] = "match"
      BY <3>4 DEF Whole, Owed, Indexed, Bare
    <3> QED BY <2>1, <3>2, <3>5
  <2>2. CASE p # q
    BY <2>2, <1>1, <1>4 DEF Whole, IndexedAhead
  <2> QED BY <2>1, <2>2
<1>9. \A t, u \in Task : Newer(t, u)' <=> Newer(t, u)
  BY <1>1, SameData
<1>10. IndexedAhead'
  BY <1>1, <1>2, <1>5, <1>6, <1>7, <1>8, <1>9 DEF Whole, IndexedAhead
<1> QED BY <1>3, <1>10 DEF Whole

LEMMA WholeMerge ==
    ASSUME Whole, Inserted', NEW q \in Queue, Merge(q)
    PROVE  Whole'
<1> DEFINE h == page.buffer[q][1].task
<1>1. /\ Untouched /\ phase' = phase /\ phase = "history"
      /\ page.buffer[q] # <<>> /\ page.buffer[q] \in Seq(Entry)
      /\ \A p \in Queue : page'.buffer[p] = IF p = q THEN Tail(page.buffer[q]) ELSE page.buffer[p]
      /\ page'.dry = page.dry /\ page'.queue = page.queue
      /\ cursor'.cutoff = cursor.cutoff
      /\ cursor'.historyDone = cursor.historyDone /\ cursor'.raw = cursor.raw
      /\ cursor'.rawDone = cursor.rawDone
      /\ \A p \in Queue : cursor'.anchor[p] = IF p = q THEN <<created[h], h>> ELSE cursor.anchor[p]
      /\ \A u \in Task : reported'[u] # reported[u] => u = h /\ page.buffer[q][1].row = "match"
      /\ page.buffer[q][1].row = "match" => reported'[h] > 0
  BY MergeDoes DEF Whole, Inserted
<1>2. h \in Task /\ Held(q, 1, h)
  BY MergeTakes DEF Whole, Inserted
<1> HIDE DEF h
<1>3. steady' = steady /\ now' = now /\ created' = created
  BY <1>1 DEF Merge, Untouched
<1>4. \A t \in Task : reported'[t] = 0 => reported[t] = 0
  BY <1>1
<1>5. Owed' /\ BareAhead'
  BY <1>1, <1>3, <1>4, OwedKept, BareKept
<1>6. \A i \in Nat, t \in Task : Held(q, i, t) => i = 1 \/ (i # 0 /\ i - 1 \in Nat /\ Held(q, i - 1, t)')
  <2> SUFFICES ASSUME NEW i \in Nat, NEW t \in Task, Held(q, i, t), i # 1
               PROVE  i # 0 /\ i - 1 \in Nat /\ Held(q, i - 1, t)'
    OBVIOUS
  <2> DEFINE s == page.buffer[q]
  <2>1. s # <<>> /\ s \in Seq(Entry) /\ page'.buffer[q] = Tail(s)
    BY <1>1
  <2>2. i \in 1..Len(s) /\ s[i].task = t
    BY DEF Held
  <2> HIDE DEF s
  <2>3. /\ Len(s) \in Nat \ {0} /\ Len(Tail(s)) = Len(s) - 1
        /\ \A k \in 1..(Len(s) - 1) : Tail(s)[k] = s[k + 1]
    BY <2>1, TailShifts
  <2>4. i - 1 \in 1..Len(Tail(s)) /\ Tail(s)[i - 1] = s[(i - 1) + 1] /\ (i - 1) + 1 = i
    BY <2>2, <2>3
  <2>5. Tail(s)[i - 1].task = t
    BY <2>2, <2>4
  <2> QED BY <2>1, <2>4, <2>5 DEF Held
<1>7. \A p \in Queue, i \in Nat, t \in Task : p # q => (Held(p, i, t)' <=> Held(p, i, t))
  BY MergeTakes DEF Whole, Inserted
<1>8. \A i \in Nat, t \in Task : Held(q, i, t)' => Held(q, i + 1, t) /\ i + 1 \in Nat
  BY MergeTakes DEF Whole, Inserted
<1>9. \A t, u \in Task : Newer(t, u)' <=> Newer(t, u)
  BY <1>1, SameData
<1>10. ASSUME NEW t \in Task, t \in steady, Indexed(t), reported'[t] = 0
       PROVE  /\ Before(t, Home(t))'
              /\ \/ \E i \in Nat : Held(Home(t), i, t)'
                 \/ /\ ~page'.dry[Home(t)]
                    /\ \A i \in Nat, u \in Task : Held(Home(t), i, u)' => Newer(u, t)
  <2>1. Home(t) \in Queue
    BY Bounds
  <2>2. /\ Before(t, Home(t))
        /\ \/ \E i \in Nat : Held(Home(t), i, t)
           \/ /\ ~page.dry[Home(t)]
              /\ \A i \in Nat, u \in Task : Held(Home(t), i, u) => Newer(u, t)
    BY <1>1, <1>4, <1>10 DEF Whole, IndexedAhead
  <2>3. CASE Home(t) = q
    <3>1. t # h
      <4> SUFFICES ASSUME t = h PROVE FALSE
        OBVIOUS
      <4>1. page.buffer[q][1].row = "match"
        BY <1>1, <1>2, <1>10 DEF Whole, IndexedAhead
      <4> QED BY <4>1, <1>1, <1>10
    <3>2. \A i \in Nat : Held(q, i, t) => i # 1
      BY <1>2, <3>1 DEF Held
    <3>3. Newer(h, t)
      <4>1. CASE \E i \in Nat : Held(q, i, t)
        <5>1. PICK i \in Nat : Held(q, i, t)
          BY <4>1
        <5>2. 1 < i
          BY <5>1, <3>2, <1>6
        <5> QED BY <5>1, <5>2, <1>1, <1>2 DEF Whole, Inserted, Buffered
      <4>2. CASE \A i \in Nat, u \in Task : Held(Home(t), i, u) => Newer(u, t)
        BY <4>2, <2>3, <1>2
      <4> QED BY <2>2, <2>3, <4>1, <4>2
    <3>4. cursor'.anchor[q][1] = created[h] /\ cursor'.anchor[q][2] = h
      BY <1>1
    <3>5. Before(t, q)'
      BY <3>3, <3>4, <1>3 DEF Before, Newer
    <3>6. \/ \E i \in Nat : Held(q, i, t)'
          \/ /\ ~page'.dry[q]
             /\ \A i \in Nat, u \in Task : Held(q, i, u)' => Newer(u, t)
      <4>1. CASE \E i \in Nat : Held(q, i, t)
        BY <4>1, <3>2, <1>6
      <4>2. CASE /\ ~page.dry[q]
                 /\ \A i \in Nat, u \in Task : Held(q, i, u) => Newer(u, t)
        BY <4>2, <1>1, <1>8
      <4> QED BY <2>2, <2>3, <4>1, <4>2
    <3> QED BY <2>3, <3>5, <3>6
  <2>4. CASE Home(t) # q
    <3>1. Before(t, Home(t))' <=> Before(t, Home(t))
      BY <2>1, <2>4, <1>1, <1>3 DEF Before
    <3> QED BY <2>1, <2>2, <2>4, <3>1, <1>1, <1>7
  <2> QED BY <2>3, <2>4
<1>11. \A p \in Queue, i \in Nat, t \in Task :
           Held(p, i, t)' /\ t \in steady => page'.buffer[p][i].row = "match"
  <2> SUFFICES ASSUME NEW p \in Queue, NEW i \in Nat, NEW t \in Task, Held(p, i, t)', t \in steady
               PROVE  page'.buffer[p][i].row = "match"
    OBVIOUS
  <2>1. CASE p = q
    <3> DEFINE s == page.buffer[q]
    <3>1. s # <<>> /\ s \in Seq(Entry) /\ page'.buffer[q] = Tail(s)
      BY <1>1
    <3>2. i \in 1..Len(Tail(s))
      BY <2>1, <3>1 DEF Held
    <3>3. s[i + 1].row = "match"
      BY <2>1, <1>1, <1>8 DEF Whole, IndexedAhead
    <3> HIDE DEF s
    <3>4. /\ Len(s) \in Nat \ {0} /\ Len(Tail(s)) = Len(s) - 1
          /\ \A k \in 1..(Len(s) - 1) : Tail(s)[k] = s[k + 1]
      BY <3>1, TailShifts
    <3>5. Tail(s)[i] = s[i + 1]
      BY <3>2, <3>4
    <3> QED BY <2>1, <3>1, <3>3, <3>5
  <2>2. CASE p # q
    BY <2>2, <1>1, <1>7 DEF Whole, IndexedAhead
  <2> QED BY <2>1, <2>2
<1>12. \A t \in Task : Indexed(t)' <=> Indexed(t)
  BY <1>1 DEF Indexed, Untouched
<1>13. IndexedAhead'
  <2>1. \A t \in Task : t \in steady /\ Indexed(t) /\ reported'[t] = 0 => ~cursor.historyDone
    BY <1>4 DEF Whole, IndexedAhead
  <2> QED BY <1>1, <1>3, <1>9, <1>10, <1>11, <1>12, <2>1 DEF IndexedAhead
<1> QED BY <1>5, <1>13 DEF Whole

LEMMA WholeHistoryEnds ==
    ASSUME Whole, Inserted', HistoryEnds
    PROVE  Whole'
<1>1. /\ Untouched /\ page' = page /\ reported' = reported
      /\ phase = "history" /\ phase' \in {"open", "between", "done"}
      /\ cursor'.cutoff = cursor.cutoff /\ cursor'.anchor = cursor.anchor
      /\ cursor'.raw = cursor.raw
      /\ cursor'.historyDone = (Available = {})
      /\ phase' = "open" => Available = {} /\ ~cursor.rawDone
      /\ phase' = "done" => Available = {} /\ cursor.rawDone
      /\ cursor'.rawDone = cursor.rawDone
      /\ \A q \in Queue : ~ToFill(q)
  BY HistoryEndsDoes DEF Whole, Inserted
<1>2. steady' = steady /\ now' = now /\ created' = created
  BY <1>1 DEF HistoryEnds, Untouched
<1>3. Owed'
  BY <1>1, <1>2, OwedKept
<1>4. Available = {} => \A q \in Queue : page.buffer[q] = <<>> /\ page.dry[q]
  BY <1>1 DEF Available, ToFill
<1>5. \A t \in Task : t \in steady /\ Indexed(t) /\ reported[t] = 0 => Available # {}
  <2> SUFFICES ASSUME NEW t \in Task, t \in steady, Indexed(t), reported[t] = 0, Available = {}
               PROVE  FALSE
    OBVIOUS
  <2>1. Home(t) \in Queue
    BY Bounds
  <2>2. page.buffer[Home(t)] = <<>> /\ page.dry[Home(t)]
    BY <1>4, <2>1
  <2>3. \A i \in Nat : ~Held(Home(t), i, t)
    BY <2>2 DEF Held
  <2> QED BY <1>1, <2>2, <2>3 DEF Whole, IndexedAhead
<1>6. \A t \in Task : Indexed(t)' <=> Indexed(t)
  BY <1>1 DEF Indexed, Untouched
<1>7. \A t \in Task : Before(t, Home(t))' <=> Before(t, Home(t))
  BY <1>1, <1>2 DEF Before
<1>8. IndexedAhead'
  BY <1>1, <1>2, <1>5, <1>6, <1>7 DEF Whole, IndexedAhead
<1>9. BareAhead'
  <2>1. CASE phase' # "done"
    BY <2>1, <1>1, <1>2, BareKept DEF Whole, Inserted, Turn
  <2>2. CASE phase' = "done"
    <3>1. ~Containers
      BY <2>2, <1>1 DEF Whole, BareAhead
    <3>2. \A t \in Task : t \in steady => ~Bare(t)
      BY <3>1, BareOnly DEF Whole
    <3>3. \A t \in Task : Bare(t)' <=> Bare(t)
      BY <1>1, SameData
    <3> QED BY <2>2, <3>1, <3>2, <3>3, <1>1, <1>2 DEF BareAhead
  <2> QED BY <2>1, <2>2
<1> QED BY <1>3, <1>8, <1>9 DEF Whole

\* The stamp of a container names its first message.
LEMMA StampFirst ==
    ASSUME Types, Placed, NEW q \in Queue, NEW t \in Task, Waits(t), Home(t) = q
    PROVE  \E u \in Task : Stamp(q)[2] = <<u>> /\ Home(u) = q /\ At(u, 1)
<1> DEFINE s == line[q]
<1>1. s \in Seq(Task) /\ \E i \in 1..Len(s) : s[i] = t
  BY DEF Types, Waits
<1> HIDE DEF s
<1>2. Len(s) \in Nat /\ 1 \in 1..Len(s) /\ s[1] \in Task
  BY <1>1
<1>3. /\ FirstOf(s, 1) \in Seq(Task) /\ Len(FirstOf(s, 1)) = (IF 1 < Len(s) THEN 1 ELSE Len(s))
      /\ \A i \in 1..Len(FirstOf(s, 1)) : FirstOf(s, 1)[i] = s[i]
  BY <1>1, FirstOfTakes
<1> DEFINE f == FirstOf(s, 1)
<1> HIDE DEF f
<1>4. f \in Seq(Task) /\ Len(f) = 1 /\ f[1] = s[1]
  <2>1. f \in Seq(Task) /\ Len(f) = (IF 1 < Len(s) THEN 1 ELSE Len(s))
        /\ \A i \in 1..Len(f) : f[i] = s[i]
    BY <1>3 DEF f
  <2>2. \A n \in Nat : 1 \in 1..n => 1 < n \/ (n = 1 /\ ~(1 < n))
    OBVIOUS
  <2>3. Len(f) = 1
    BY <1>2, <2>1, <2>2, Zenon
  <2> QED BY <2>1, <2>3
<1>5. f = <<s[1]>>
  BY <1>4
<1>6. Stamp(q)[2] = f
  BY DEF Stamp, f, s
<1>7. \A u \in Task : u = s[1] => Home(u) = q /\ At(u, 1)
  BY <1>2 DEF Placed, At, s
<1>8. s[1] \in Task /\ Stamp(q)[2] = <<s[1]>>
  BY <1>2, <1>5, <1>6
<1> QED BY <1>7, <1>8

LEMMA WholeOpen ==
    ASSUME Whole, Inserted', Open
    PROVE  Whole'
<1>1. /\ Untouched /\ cursor' = cursor /\ reported' = reported
      /\ phase = "open" /\ phase' \in {"raw", "refused"}
      /\ page'.messages = page.messages
      /\ page'.queue = IF Resumed THEN cursor.raw.queue ELSE page.queue + 1
      /\ page'.offset = IF Resumed THEN cursor.raw.offset ELSE 0
      /\ page'.queue \in Queue
      /\ page'.total = Len(line[page'.queue]) /\ page'.stamp = Stamp(page'.queue)
      /\ phase' = "raw" /\ Resumed => cursor.raw.stamp = Stamp(page'.queue)
  BY OpenDoes DEF Whole, Inserted
<1>2. steady' = steady /\ now' = now
  BY DEF Open
<1>3. Owed' /\ IndexedAhead'
  BY <1>1, <1>2, OwedKept, IndexedLater
<1>4. page.messages = <<>> /\ ~cursor.rawDone
  BY <1>1 DEF Whole, Inserted, Fetched, BareAhead
<1>5. ASSUME phase' = "raw", NEW t \in Task, t \in steady, Bare(t), reported[t] = 0
      PROVE  /\ page'.queue < Home(t) \/ (page'.queue = Home(t) /\ Beyond(t)')
             /\ page'.queue = Home(t) => \A k \in Nat : At(t, k) => k <= page'.total
  <2>1. /\ Waits(t) /\ Home(t) \in Nat \ {0} /\ page.queue \in Nat
        /\ \/ AtQueue < Home(t)
           \/ AtQueue = Home(t) /\ (page.queue # 0 \/ Beyond(t))
    BY <1>1, <1>5, PlaceTypes DEF Whole, Inserted, BareAhead, Bare
  <2>2. \A v \in Task, k \in Nat : At(v, k)' <=> At(v, k)
    BY <1>1, SameData
  <2>3. AtStamp' = Stamp(page'.queue) /\ AtOffset' = page'.offset
    BY <1>1, <1>5 DEF AtStamp, AtOffset
  <2>4. page'.queue = Home(t) =>
            \E u \in Task : AtStamp'[2] = <<u>> /\ Home(u) = Home(t) /\ At(u, 1)
    BY <1>1, <2>1, <2>3, StampFirst DEF Whole, Inserted
  <2>5. \A k \in Nat : At(t, k) => k > 0
    BY DEF At
  <2>6. page'.queue < Home(t) \/ (page'.queue = Home(t) /\ Beyond(t)')
    <3>1. CASE ~Resumed
      <4>1. page'.queue <= Home(t)
        <5>1. CASE page.queue # 0
          <6>1. AtQueue = page.queue + 1
            BY <1>1, <5>1 DEF AtQueue
          <6> QED BY <6>1, <3>1, <1>1, <2>1
        <5>2. CASE page.queue = 0
          BY <5>2, <3>1, <1>1, <2>1
        <5> QED BY <5>1, <5>2
      <4>2. CASE page'.queue = Home(t)
        <5>1. PICK u \in Task : AtStamp'[2] = <<u>> /\ Home(u) = Home(t) /\ At(u, 1)
          BY <4>2, <2>4
        <5>2. AtOffset' = 0
          BY <3>1, <1>1, <2>3
        <5>3. At(u, 1)' /\ \A k \in Nat : At(t, k)' => k > AtOffset'
          BY <5>1, <5>2, <2>2, <2>5
        <5> QED BY <4>2, <5>1, <5>3 DEF Beyond
      <4>3. CASE page'.queue # Home(t)
        BY <4>1, <4>3, <1>1, <2>1, <3>1
      <4> QED BY <4>2, <4>3
    <3>2. CASE Resumed
      <4>1. AtQueue = cursor.raw.queue /\ page.queue = 0 /\ page'.queue = AtQueue
        BY <1>1, <3>2 DEF AtQueue, Resumed
      <4>2. CASE page'.queue = Home(t)
        <5>1. PICK u \in Task : AtStamp'[2] = <<u>> /\ Home(u) = Home(t) /\ At(u, 1)
          BY <4>2, <2>4
        <5>2. AtStamp = AtStamp' /\ AtOffset = AtOffset'
          BY <1>1, <1>5, <2>3, <3>2, <4>1 DEF AtStamp, AtOffset
        <5>3. Beyond(t)
          BY <4>1, <4>2, <2>1
        <5>4. PICK v \in Task :
                  /\ AtStamp[2] = <<v>> /\ Home(v) = Home(t)
                  /\ \/ At(v, 1) /\ \A k \in Nat : At(t, k) => k > AtOffset
                     \/ phase # "raw" /\ \A k, m \in Nat : At(t, k) /\ At(v, m) => m > k
          BY <5>3 DEF Beyond
        <5>5. v = u
          BY <5>1, <5>2, <5>4
        <5>6. PICK k \in Nat : At(t, k) /\ k # 0
          BY <2>1, WaitsAt DEF Whole, Inserted
        <5>7. \A m \in Nat : At(t, m) => m > AtOffset
          BY <5>1, <5>4, <5>5, <5>6
        <5>8. At(u, 1)' /\ \A m \in Nat : At(t, m)' => m > AtOffset'
          BY <5>1, <5>2, <5>7, <2>2
        <5> QED BY <4>2, <5>1, <5>8 DEF Beyond
      <4>3. CASE page'.queue # Home(t)
        BY <4>1, <4>3, <2>1
      <4> QED BY <4>2, <4>3
    <3> QED BY <3>1, <3>2
  <2>7. page'.queue = Home(t) => \A k \in Nat : At(t, k) => k <= page'.total
    BY <1>1 DEF At
  <2> QED BY <2>6, <2>7
<1>6. BareAhead'
  <2>1. \A t \in Task : Bare(t)' <=> Bare(t)
    BY <1>1, SameData
  <2>2. \A t \in Task, k \in Nat : At(t, k)' <=> At(t, k)
    BY <1>1, SameData
  <2>3. \A i \in Nat, t \in Task : ~Listed(i, t)'
    BY <1>1, <1>4 DEF Listed
  <2>4. phase' = "raw" => AtQueue' = page'.queue
    BY DEF AtQueue
  <2>5. Containers
    BY <1>1, <1>4 DEF Whole, BareAhead
  <2> QED BY <1>1, <1>2, <1>4, <1>5, <2>1, <2>2, <2>3, <2>4, <2>5 DEF BareAhead
<1> QED BY <1>3, <1>6 DEF Whole

LEMMA WholeRawRead ==
    ASSUME Whole, Inserted', RawRead
    PROVE  Whole'
<1>1. /\ Untouched /\ phase' = phase /\ cursor' = cursor /\ reported' = reported
      /\ phase = "raw" /\ page'.queue = page.queue /\ page'.offset = page.offset
      /\ \A i \in 1..Len(page'.messages) :
            /\ page.offset + i \in 1..Len(line[page.queue])
            /\ page'.messages[i].task = line[page.queue][page.offset + i]
            /\ page'.messages[i].row <=>
                  /\ ~(line[page.queue][page.offset + i] \in index
                          /\ found[line[page.queue][page.offset + i]] # "none")
                  /\ created[line[page.queue][page.offset + i]] <= cursor.cutoff
      /\ page'.stamp = page.stamp
      /\ \/ page'.total = page.total
         \/ page'.total = page.offset /\ Len(line[page.queue]) <= page.offset
  BY RawReadDoes DEF Whole, Inserted
<1>2. steady' = steady /\ now' = now
  BY DEF RawRead
<1>3. Owed' /\ IndexedAhead'
  BY <1>1, <1>2, OwedKept, IndexedLater
<1>4. /\ AtQueue' = AtQueue /\ AtOffset' = AtOffset /\ AtStamp' = AtStamp
      /\ AtQueue = page.queue /\ AtOffset = page.offset
  BY <1>1 DEF AtQueue, AtOffset, AtStamp
<1>5. \A t \in Task, k \in Nat : At(t, k)' <=> At(t, k)
  BY <1>1, SameData
<1>6. \A t \in Task : Bare(t)' <=> Bare(t)
  BY <1>1, SameData
<1>7. \A t \in Task : Beyond(t) => Beyond(t)'
  BY <1>1, <1>4, <1>5 DEF Beyond
<1>8. ASSUME NEW t \in Task, t \in steady, Bare(t), reported[t] = 0, page.queue = Home(t)
      PROVE  \A k \in Nat : At(t, k) => k <= page'.total
  <2>1. Beyond(t) /\ \A k \in Nat : At(t, k) => k <= page.total
    BY <1>1, <1>4, <1>8, PlaceTypes DEF Whole, Inserted, BareAhead
  <2>2. \A k \in Nat : At(t, k) => k > page.offset
    BY <2>1, <1>1, <1>4 DEF Beyond
  <2>3. PICK k \in Nat : At(t, k) /\ k <= Len(line[Home(t)])
    BY <1>8, WaitsAt DEF Bare, Whole, Inserted
  <2>4. k > page.offset
    BY <2>2, <2>3
  <2>5. ~(Len(line[page.queue]) <= page.offset)
    <3>1. page.offset \in Nat /\ Len(line[page.queue]) \in Nat
      BY <1>8, PlaceTypes, Bounds DEF Whole, Inserted, Types
    <3> QED BY <3>1, <2>3, <2>4, <1>8
  <2> QED BY <2>1, <2>5, <1>1
<1>9. \A i \in Nat, t \in Task : Listed(i, t)' =>
          /\ Home(t) = page.queue /\ At(t, page.offset + i)
          /\ t \in steady /\ Bare(t) => page'.messages[i].row
  <2> SUFFICES ASSUME NEW i \in Nat, NEW t \in Task, Listed(i, t)'
               PROVE  /\ Home(t) = page.queue /\ At(t, page.offset + i)
                      /\ t \in steady /\ Bare(t) => page'.messages[i].row
    OBVIOUS
  <2>1. i \in 1..Len(page'.messages) /\ page'.messages[i].task = t
    BY DEF Listed
  <2>2. /\ page.offset + i \in 1..Len(line[page.queue]) /\ line[page.queue][page.offset + i] = t
        /\ page'.messages[i].row <=> ~(t \in index /\ found[t] # "none") /\ created[t] <= cursor.cutoff
    BY <1>1, <2>1
  <2>3. Home(t) = page.queue
    BY <2>2, <1>1 DEF Whole, Inserted, Placed, Turn
  <2>4. t \in steady /\ Bare(t) => page'.messages[i].row
    BY <2>2 DEF Whole, Owed, Bare
  <2> QED BY <2>2, <2>3, <2>4 DEF At
<1>10. BareAhead'
  <2>1. \A i \in Nat, t \in Task : Listed(i, t)' => At(t, page.offset + i)'
    <3> SUFFICES ASSUME NEW i \in Nat, NEW t \in Task, Listed(i, t)', NEW k \in Nat, k = page.offset + i
                 PROVE  At(t, page.offset + i)'
      BY <1>1, PlaceTypes DEF Whole, Inserted
    <3>1. At(t, k)'
      BY <1>5, <1>9
    <3>2. (page.offset + i)' = k
      BY <1>1
    <3> QED BY <3>1, <3>2 DEF At
  <2> QED BY <1>1, <1>2, <1>4, <1>5, <1>6, <1>7, <1>8, <1>9, <2>1 DEF Whole, BareAhead
<1> QED BY <1>3, <1>10 DEF Whole

LEMMA WholeRawTake ==
    ASSUME Whole, Inserted', RawTake
    PROVE  Whole'
<1> DEFINE h == page.messages[1].task
<1>1. /\ Untouched /\ phase' = phase /\ cursor' = cursor /\ phase = "raw"
      /\ page'.queue = page.queue /\ page'.offset = page.offset + 1
      /\ page'.total = page.total /\ page'.stamp = page.stamp
      /\ \A u \in Task : reported'[u] # reported[u] => u = h /\ page.messages[1].row
      /\ page.messages[1].row => reported'[h] > 0
  BY RawTakeDoes DEF Whole, Inserted
<1>2. h \in Task /\ Listed(1, h)
  BY RawTakes DEF Whole, Inserted
<1> HIDE DEF h
<1>3. \A i \in Nat, t \in Task : Listed(i, t)' =>
          Listed(i + 1, t) /\ i + 1 \in Nat /\ page'.messages[i].row = page.messages[i + 1].row
  BY RawTakes DEF Whole, Inserted
<1>4. steady' = steady /\ now' = now
  BY DEF RawTake
<1>5. \A t \in Task : reported'[t] = 0 => reported[t] = 0
  BY <1>1
<1>6. Owed' /\ IndexedAhead'
  BY <1>1, <1>4, <1>5, OwedKept, IndexedLater
<1>7. /\ AtQueue' = AtQueue /\ AtOffset' = page.offset + 1 /\ AtStamp' = AtStamp
      /\ AtQueue = page.queue /\ AtOffset = page.offset /\ page.offset \in Nat
  BY <1>1, PlaceTypes DEF AtQueue, AtOffset, AtStamp, Whole, Inserted
<1>8. \A t \in Task, k \in Nat : At(t, k)' <=> At(t, k)
  BY <1>1, SameData
<1>9. \A t \in Task : Bare(t)' <=> Bare(t)
  BY <1>1, SameData
<1>10. ASSUME NEW t \in Task, t \in steady, Bare(t), reported'[t] = 0, Home(t) = page.queue, Beyond(t)
       PROVE  Beyond(t)'
  <2>1. PICK u \in Task :
            /\ AtStamp[2] = <<u>> /\ Home(u) = Home(t) /\ At(u, 1)
            /\ \A k \in Nat : At(t, k) => k > page.offset
    BY <1>1, <1>7, <1>10 DEF Beyond
  <2>2. ~At(t, page.offset + 1)
    <3> SUFFICES ASSUME At(t, page.offset + 1) PROVE FALSE
      OBVIOUS
    <3>1. At(h, page.offset + 1) /\ Home(h) = page.queue
      BY <1>1, <1>2 DEF Whole, BareAhead
    <3>2. h = t
      BY <3>1, <1>10 DEF At
    <3>3. page.messages[1].row
      BY <3>2, <1>1, <1>2, <1>10 DEF Whole, BareAhead
    <3> QED BY <3>2, <3>3, <1>1, <1>10
  <2>3. \A k \in Nat : At(t, k)' => k > AtOffset'
    <3> SUFFICES ASSUME NEW k \in Nat, At(t, k)' PROVE k > page.offset + 1
      BY <1>7
    <3>1. At(t, k) /\ k > page.offset
      BY <2>1, <1>8
    <3>2. k # page.offset + 1
      BY <3>1, <2>2
    <3> QED BY <3>1, <3>2, <1>7
  <2>4. At(u, 1)'
    BY <2>1, <1>8
  <2> QED BY <2>1, <2>3, <2>4, <1>7 DEF Beyond
<1>11. \A i \in Nat, t \in Task : Listed(i, t)' =>
           /\ Home(t) = page.queue /\ At(t, page.offset + i)'
           /\ t \in steady /\ Bare(t) => page'.messages[i].row
  <2> SUFFICES ASSUME NEW i \in Nat, NEW t \in Task, Listed(i, t)'
               PROVE  /\ Home(t) = page.queue /\ At(t, page.offset + i)'
                      /\ t \in steady /\ Bare(t) => page'.messages[i].row
    OBVIOUS
  <2>1. Listed(i + 1, t) /\ i + 1 \in Nat /\ page'.messages[i].row = page.messages[i + 1].row
    BY <1>3
  <2>2. /\ Home(t) = page.queue /\ At(t, page.offset + (i + 1))
        /\ t \in steady /\ Bare(t) => page.messages[i + 1].row
    BY <2>1, <1>1 DEF Whole, BareAhead
  <2>3. ASSUME NEW k \in Nat, k = page.offset + (i + 1) PROVE At(t, page.offset + i)'
    <3>1. At(t, k)'
      BY <2>2, <2>3, <1>8
    <3>2. (page.offset + i)' = k
      BY <2>3, <1>1, <1>7
    <3> QED BY <3>1, <3>2 DEF At
  <2>4. page.offset + (i + 1) \in Nat
    BY <1>7
  <2> QED BY <2>1, <2>2, <2>3, <2>4
<1>12. BareAhead'
  BY <1>1, <1>4, <1>5, <1>7, <1>8, <1>9, <1>10, <1>11 DEF Whole, BareAhead
<1> QED BY <1>6, <1>12 DEF Whole

LEMMA WholeRawEnds ==
    ASSUME Whole, Inserted', RawEnds
    PROVE  Whole'
<1>1. /\ Untouched /\ page' = page /\ reported' = reported
      /\ phase = "raw" /\ cursor'.cutoff = cursor.cutoff
      /\ \/ /\ phase' = "between"
            /\ cursor'.raw.queue = page.queue /\ cursor'.raw.offset = page.offset
            /\ cursor'.raw.stamp = page.stamp /\ cursor'.rawDone = cursor.rawDone
         \/ /\ phase' = "open" /\ page.queue < Queues
            /\ page.total <= page.offset /\ cursor'.rawDone = cursor.rawDone
         \/ /\ phase' = "done" /\ page.queue = Queues /\ page.total <= page.offset
  BY RawEndsDoes DEF Whole, Inserted
<1>2. steady' = steady /\ now' = now
  BY DEF RawEnds
<1>3. Owed' /\ IndexedAhead'
  BY <1>1, <1>2, OwedKept, IndexedLater
<1>4. /\ AtQueue = page.queue /\ AtOffset = page.offset /\ AtStamp = page.stamp
      /\ page.queue \in Nat /\ page.queue # 0 /\ page.offset \in Nat /\ page.total \in Nat
  BY <1>1, PlaceTypes DEF AtQueue, AtOffset, AtStamp, Whole, Inserted, Types, Page, Turn, Queue
<1>5. \A t \in Task, k \in Nat : At(t, k)' <=> At(t, k)
  BY <1>1, SameData
<1>6. \A t \in Task : Bare(t)' <=> Bare(t)
  BY <1>1, SameData
<1>7. Containers /\ ~cursor.rawDone
  BY <1>1 DEF Whole, BareAhead
<1>8. ASSUME NEW t \in Task, t \in steady, Bare(t), reported[t] = 0, page.total <= page.offset
      PROVE  page.queue < Home(t)
  <2>1. \/ page.queue < Home(t)
        \/ page.queue = Home(t) /\ Beyond(t) /\ \A k \in Nat : At(t, k) => k <= page.total
    BY <1>1, <1>4, <1>8 DEF Whole, BareAhead
  <2>2. Beyond(t) => \A k \in Nat : At(t, k) => k > page.offset
    BY <1>1, <1>4 DEF Beyond
  <2>3. PICK k \in Nat : At(t, k)
    BY <1>8, WaitsAt DEF Whole, Inserted, Bare
  <2> QED BY <2>1, <2>2, <2>3, <1>4, <1>8
<1>9. BareAhead'
  <2>1. CASE phase' = "between"
    <3>1. AtQueue' = AtQueue /\ AtOffset' = AtOffset /\ AtStamp' = AtStamp
      BY <1>1, <1>4, <2>1 DEF AtQueue, AtOffset, AtStamp
    <3>2. \A t \in Task : Beyond(t) => Beyond(t)'
      BY <1>1, <1>5, <3>1 DEF Beyond
    <3> QED BY <2>1, <3>1, <3>2, <1>1, <1>2, <1>6, <1>7 DEF Whole, BareAhead
  <2>2. CASE phase' = "open"
    <3>1. AtQueue' = page.queue + 1
      BY <1>1, <1>4, <2>2 DEF AtQueue
    <3>2. \A t \in Task : Home(t) \in Nat
      BY PlaceTypes DEF Whole, Inserted
    <3>3. \A t \in Task : t \in steady /\ Bare(t) /\ reported[t] = 0 =>
              AtQueue' < Home(t) \/ AtQueue' = Home(t)
      BY <2>2, <3>1, <3>2, <1>1, <1>4, <1>8
    <3> QED BY <2>2, <3>3, <1>1, <1>2, <1>4, <1>6, <1>7 DEF BareAhead
  <2>3. CASE phase' = "done"
    <3>1. \A t \in Task : Home(t) <= Queues /\ Home(t) \in Nat
      BY Bounds DEF Queue
    <3>2. \A t \in Task : ~(t \in steady /\ Bare(t) /\ reported[t] = 0)
      BY <2>3, <3>1, <1>1, <1>4, <1>8, Bounds
    <3> QED BY <2>3, <3>2, <1>1, <1>2, <1>6, <1>7 DEF BareAhead
  <2> QED BY <2>1, <2>2, <2>3, <1>1
<1> QED BY <1>3, <1>9 DEF Whole

LEMMA WholeStep ==
    ASSUME Whole, Safe, [Next]_vars
    PROVE  Whole'
<1>1. Inserted'
  BY InsertedStep DEF Whole
<1>2. CASE Start
  BY <1>1, <1>2, WholeStart
<1>3. CASE Read
  BY <1>1, <1>3, WholeBeginPage, WholeFill, WholeMerge, WholeHistoryEnds, WholeOpen,
     WholeRawRead, WholeRawTake, WholeRawEnds DEF Read
<1>4. ASSUME NEW t \in Task,
             Prepare(t) \/ Commit(t) \/ Legacy(t) \/ Leave(t) \/ Return(t) \/ Forget(t)
      PROVE  Whole'
  <2>1. Harmless /\ Gentle
    BY <1>4, Meanwhile, GentleMeanwhile DEF Whole, Inserted
  <2> QED BY <1>1, <2>1, WholeMeanwhile
<1>5. CASE UNCHANGED vars
  <2>1. Untouched /\ UNCHANGED <<now, phase, cursor, page, reported, steady>>
    BY <1>5 DEF vars, data, search, Untouched
  <2>2. Harmless
    BY <2>1, SameData, NoMoves DEF Whole, Inserted, Harmless, Untouched, search
  <2>3. Gentle
    BY <2>1, SameData, NoneAppended DEF Whole, Owed, Gentle, Untouched
  <2> QED BY <1>1, <2>2, <2>3, WholeMeanwhile
<1> QED BY <1>2, <1>3, <1>4, <1>5 DEF Next

\* Complete: a search that comes to its end has shown every task that matched
\* when it began and that nothing has touched since.  Of the indexes that needs
\* no assumption; of the containers, that messages come behind the others and
\* that none leaves between two reads of one page.
THEOREM CompleteHolds == Safe => (Spec => []Complete)
<1> SUFFICES ASSUME Safe PROVE Spec => []Complete
  OBVIOUS
<1>1. Init => Whole
  <2> SUFFICES ASSUME Init PROVE Whole
    OBVIOUS
  <2>1. Owed
    BY Bounds DEF Init, Owed, NoRaw
  <2>2. IndexedAhead /\ BareAhead
    BY DEF Init, IndexedAhead, BareAhead
  <2> QED BY <2>1, <2>2, InsertedInit DEF Whole
<1>2. Whole /\ [Next]_vars => Whole'
  BY WholeStep
<1>3. Whole => Complete
  <2> SUFFICES ASSUME Whole, phase = "done", NEW t \in Task, t \in steady PROVE reported[t] > 0
    BY DEF Complete, Whole, Owed
  <2>1. reported[t] # 0
    BY DEF Whole, Owed, IndexedAhead, BareAhead
  <2> QED BY <2>1, ReportedTypes DEF Whole, Inserted
<1> QED BY <1>1, <1>2, <1>3, PTL DEF Spec
=============================================================================
