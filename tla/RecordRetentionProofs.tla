------------------------ MODULE RecordRetentionProofs ------------------------
(***************************************************************************)
(* Proofs about RecordRetention for every set of tasks and any retention.  *)
(* The theorems on the records and their messages name the jobs and the    *)
(* operators they need away: see the assumptions before each.              *)
(***************************************************************************)
EXTENDS RecordRetention, TLAPS

JobRecord == [task: Task \cup {None}, step: Step, cutoff: -MaxTime..MaxTime,
              read: Record \cup {None}, found: BOOLEAN]

-----------------------------------------------------------------------------
\* What the operators on records and jobs return.

LEMMA NoneDistinct ==
    /\ \A r \in Record : r # None
    /\ \A n \in Int : n # None
    /\ Fresh \in Record /\ Fresh # None
<1>1. 0 \in Time /\ "none" \in Terminal \cup {"none"}
  BY BoundsAssumption DEF Time, Terminal
<1>2. Fresh \in Record
  BY <1>1 DEF Fresh, Record
<1> QED
  BY <1>2, NoneAssumption

LEMMA FlaggedFields ==
    ASSUME TypeOK, NEW t \in Task, NEW op \in BOOLEAN
    PROVE  /\ Flagged(t, op) \in Record
           /\ Flagged(t, op).op = op
           /\ rec[t] = None => Flagged(t, op).outcome = "none" /\ Flagged(t, op).bare
           /\ rec[t] # None =>
                 /\ rec[t] \in Record
                 /\ Flagged(t, op).outcome = rec[t].outcome
                 /\ Flagged(t, op).finished = rec[t].finished
                 /\ Flagged(t, op).bare = rec[t].bare
<1>1. rec[t] # None => rec[t] \in Record
  BY DEF TypeOK
<1>2. Fresh \in Record
  BY NoneDistinct
<1>3. CASE rec[t] = None
  <2>1. Flagged(t, op) = [Fresh EXCEPT !.op = op, !.bare = TRUE]
    BY <1>3 DEF Flagged
  <2> QED
    BY <1>2, <1>3, <2>1 DEF Record, Fresh
<1>4. CASE rec[t] # None
  BY <1>1, <1>4 DEF Flagged, Record
<1> QED
  BY <1>3, <1>4

\* The record of a task that ends.
Ended(t, outcome, op) ==
    [Flagged(t, op) EXCEPT !.outcome = outcome, !.finished = now]

LEMMA EndedFields ==
    ASSUME TypeOK, NEW t \in Task, NEW op \in BOOLEAN, NEW outcome \in Terminal
    PROVE  /\ Ended(t, outcome, op) \in Record /\ Ended(t, outcome, op) # None
           /\ Ended(t, outcome, op).outcome = outcome
           /\ Ended(t, outcome, op).op = op
           /\ Ended(t, outcome, op).finished = now
           /\ Ended(t, outcome, op).bare = (rec[t] = None \/ rec[t].bare)
<1>1. Flagged(t, op) \in Record /\ now \in Time
  BY FlaggedFields DEF TypeOK
<1>2. Flagged(t, op).op = op /\ Flagged(t, op).bare = (rec[t] = None \/ rec[t].bare)
  <2>1. CASE rec[t] = None
    BY <2>1, FlaggedFields, <1>1 DEF Record
  <2>2. CASE rec[t] # None
    BY <2>2, FlaggedFields DEF Record
  <2> QED
    BY <2>1, <2>2
<1>3. Ended(t, outcome, op) \in Record
  BY <1>1 DEF Ended, Record
<1> QED
  BY <1>1, <1>2, <1>3, NoneDistinct DEF Ended, Record

LEMMA EndsFields ==
    ASSUME TypeOK, NEW t \in Task, NEW op \in BOOLEAN, NEW outcome \in Terminal,
           Ends(t, outcome, op)
    PROVE  /\ rec' \in [Task -> Record \cup {None}]
           /\ \A u \in Task : u # t =>
                 rec'[u] = rec[u] /\ ttl'[u] = ttl[u] /\ place'[u] = place[u]
           /\ rec'[t] # None /\ rec'[t] \in Record
           /\ rec'[t].outcome = outcome /\ rec'[t].op = op /\ rec'[t].finished = now
           /\ rec'[t].bare = (rec[t] = None \/ rec[t].bare)
           /\ ttl' \in [Task -> 0..(MaxTime + HistoryTtl) \cup {None}]
           /\ ttl'[t] = IF op THEN ttl[t] ELSE now + HistoryTtl
           /\ place' \in [Task -> {"none", "ready", "processing", "delay", "dlq"}]
           /\ place'[t] = IF op THEN "dlq" ELSE "none"
<1> DEFINE r == Ended(t, outcome, op)
<1>1. /\ r \in Record /\ r # None
      /\ r.outcome = outcome /\ r.op = op /\ r.finished = now
      /\ r.bare = (rec[t] = None \/ rec[t].bare)
  BY EndedFields
<1>2. rec' = [rec EXCEPT ![t] = r]
  BY DEF Ends, Ended
<1> HIDE DEF r
<1>3. now + HistoryTtl \in 0..(MaxTime + HistoryTtl)
  BY BoundsAssumption DEF TypeOK, Time
<1>4. /\ ttl' \in [Task -> 0..(MaxTime + HistoryTtl) \cup {None}]
      /\ ttl'[t] = (IF op THEN ttl[t] ELSE now + HistoryTtl)
      /\ \A u \in Task : u # t => ttl'[u] = ttl[u]
  BY <1>3 DEF Ends, TypeOK
<1>5. /\ place' \in [Task -> {"none", "ready", "processing", "delay", "dlq"}]
      /\ place'[t] = (IF op THEN "dlq" ELSE "none")
      /\ \A u \in Task : u # t => place'[u] = place[u]
  BY DEF Ends, TypeOK
<1>6. /\ rec' \in [Task -> Record \cup {None}] /\ rec'[t] = r
      /\ \A u \in Task : u # t => rec'[u] = rec[u]
  BY <1>1, <1>2 DEF TypeOK
<1>7. /\ rec'[t] # None /\ rec'[t] \in Record
      /\ rec'[t].outcome = outcome /\ rec'[t].op = op /\ rec'[t].finished = now
      /\ rec'[t].bare = (rec[t] = None \/ rec[t].bare)
  BY <1>1, <1>6, Zenon
<1> QED
  BY <1>4, <1>5, <1>6, <1>7

Hold == {"none", "popped", "absent", "begin", "running"}

LEMMA TakenFields ==
    ASSUME TypeOK, NEW gone \in SUBSET Task, TakenFrom(gone)
    PROVE  /\ hold' \in [Task -> Hold] /\ late' \subseteq Late
           /\ \A u \in gone : hold'[u] = "none"
           /\ \A u \in Task : u \notin gone =>
                 hold'[u] = hold[u] /\ (Lagging(u)' => Lagging(u))
           /\ \A u \in Task : Lagging(u)' => Lagging(u) \/ hold[u] \in {"popped", "absent"}
<1>1. /\ hold' = [u \in Task |-> IF u \in gone THEN "none" ELSE hold[u]]
      /\ hold \in [Task -> Hold] /\ late \subseteq Late
  BY DEF TakenFrom, TypeOK, Hold
<1>2. ASSUME NEW u \in Task, NEW s \in {"popped", "absent"}, <<u, s>> \in late'
      PROVE  <<u, s>> \in late \/ (u \in gone /\ hold[u] = s)
  BY <1>2 DEF TakenFrom, Late
<1>3. late' \subseteq Late
  BY <1>1 DEF TakenFrom
<1>4. hold' \in [Task -> Hold]
  BY <1>1 DEF Hold
<1> QED
  BY <1>1, <1>2, <1>3, <1>4 DEF Lagging

LEMMA PurgedFields ==
    ASSUME TypeOK, NEW t \in Task, Purged(t)
    PROVE  /\ rec' \in [Task -> Record \cup {None}]
           /\ \A u \in Task : u # t =>
                 /\ rec'[u] = rec[u] /\ ttl'[u] = ttl[u] /\ place'[u] = place[u]
                 /\ hold'[u] = hold[u] /\ (Lagging(u)' => Lagging(u))
           /\ rec[t] = None => rec'[t] = None /\ ttl'[t] = ttl[t]
           /\ rec[t] # None =>
                 /\ rec'[t] # None /\ rec'[t] \in Record /\ ttl'[t] # None
                 /\ rec'[t].outcome \in Terminal /\ ~rec'[t].op
                 /\ rec'[t].bare = rec[t].bare
           /\ rec[t] # None /\ rec[t].outcome \in Terminal =>
                 rec'[t].outcome = rec[t].outcome /\ rec'[t].finished = rec[t].finished
           /\ ttl' \in [Task -> 0..(MaxTime + HistoryTtl) \cup {None}]
           /\ place' \in [Task -> {"none", "ready", "processing", "delay", "dlq"}]
           /\ place'[t] = "none"
           /\ hold' \in [Task -> Hold] /\ hold'[t] = "none" /\ late' \subseteq Late
           /\ Lagging(t)' => Lagging(t) \/ hold[t] \in {"popped", "absent"}
<1> DEFINE old == rec[t]
           r == IF old.outcome = "none"
                THEN [old EXCEPT !.op = FALSE, !.outcome = "skipped", !.finished = now]
                ELSE [old EXCEPT !.op = FALSE]
<1>1. CASE rec[t] = None
  <2>1. rec' = rec /\ ttl' = ttl
    BY <1>1 DEF Purged
  <2>2. /\ place' \in [Task -> {"none", "ready", "processing", "delay", "dlq"}]
        /\ place'[t] = "none"
        /\ \A u \in Task : u # t => place'[u] = place[u]
    BY DEF Purged, TypeOK
  <2>3. TakenFrom({t})
    BY DEF Purged
  <2> QED
    BY <1>1, <2>1, <2>2, <2>3, TakenFields DEF TypeOK
<1>2. CASE rec[t] # None
  <2>1. old \in Record /\ now \in Time
    BY <1>2 DEF TypeOK
  <2>2. /\ r \in Record /\ r.outcome \in Terminal /\ r.op = FALSE
        /\ r.bare = old.bare
        /\ old.outcome \in Terminal => r.outcome = old.outcome /\ r.finished = old.finished
    <3>1. CASE old.outcome = "none"
      BY <2>1, <3>1 DEF Record, Terminal
    <3>2. CASE old.outcome # "none"
      BY <2>1, <3>2 DEF Record
    <3> QED
      BY <3>1, <3>2
  <2>3. rec' = [rec EXCEPT ![t] = r]
    BY <1>2 DEF Purged
  <2> HIDE DEF r
  <2>4. /\ rec' \in [Task -> Record \cup {None}] /\ rec'[t] = r
        /\ \A u \in Task : u # t => rec'[u] = rec[u]
    BY <2>2, <2>3 DEF TypeOK
  <2>5. now + HistoryTtl \in 0..(MaxTime + HistoryTtl) /\ now + HistoryTtl # None
    BY <2>1, BoundsAssumption, NoneDistinct DEF Time
  <2>6. /\ ttl' \in [Task -> 0..(MaxTime + HistoryTtl) \cup {None}]
        /\ ttl'[t] # None
        /\ \A u \in Task : u # t => ttl'[u] = ttl[u]
    BY <1>2, <2>5 DEF Purged, TypeOK
  <2>7. /\ place' \in [Task -> {"none", "ready", "processing", "delay", "dlq"}]
        /\ place'[t] = "none"
        /\ \A u \in Task : u # t => place'[u] = place[u]
    BY DEF Purged, TypeOK
  <2>8. TakenFrom({t})
    BY DEF Purged
  <2>9. r # None
    BY <2>2, NoneDistinct
  <2> QED
    BY <1>2, <2>2, <2>4, <2>6, <2>7, <2>8, <2>9, TakenFields
<1> QED
  BY <1>1, <1>2

\* What a job remembers, and that the others go on as they were.
LEMMA SteppedFields ==
    ASSUME TypeOK, NEW j \in Jobs, NEW s \in Step, Stepped(j, s)
    PROVE  /\ job' \in [Jobs -> JobRecord]
           /\ job'[j].step = s /\ job'[j].task = job[j].task
           /\ job'[j].read = job[j].read /\ job'[j].cutoff = job[j].cutoff
           /\ job'[j].found = job[j].found
           /\ \A i \in Jobs : i # j => job'[i] = job[i]
BY DEF TypeOK, Stepped, JobRecord

LEMMA LeaveFields ==
    ASSUME TypeOK, NEW j \in Jobs, Leave(j)
    PROVE  /\ job' \in [Jobs -> JobRecord]
           /\ job'[j] = Idle /\ Idle.step = "idle"
           /\ \A i \in Jobs : i # j => job'[i] = job[i]
<1>1. Idle \in JobRecord
  BY BoundsAssumption DEF Idle, JobRecord, Step
<1> QED
  BY <1>1 DEF TypeOK, Leave, JobRecord, Idle

LEMMA TakeFields ==
    ASSUME TypeOK, NEW j \in Jobs, NEW t \in Task, Take(j, t)
    PROVE  /\ job' \in [Jobs -> JobRecord]
           /\ job'[j].step = First(j) /\ job'[j].task = t
           /\ \A i \in Jobs : i # j => job'[i] = job[i]
<1> DEFINE c == now - Age(j)
           new == [Idle EXCEPT !.task = t, !.step = First(j), !.cutoff = c]
<1>1. First(j) \in Step
  BY DEF First, Step
<1>2. c \in -MaxTime..MaxTime
  <2>1. j \in {"clean", "archive"} => created[t] \in Time /\ created[t] <= c
    BY DEF Take, TypeOK
  <2>2. now \in Time /\ Age(j) \in Nat
    BY BoundsAssumption DEF TypeOK, Age
  <2>3. j \notin {"clean", "archive"} => Age(j) = 0
    BY DEF Age
  <2> QED
    BY <2>1, <2>2, <2>3, BoundsAssumption DEF Time
<1>3. job' = [job EXCEPT ![j] = new]
  BY DEF Take
<1>4. new \in JobRecord
  BY <1>1, <1>2, BoundsAssumption DEF JobRecord, Idle, Step
<1>5. new.step = First(j) /\ new.task = t
  BY DEF Idle
<1> HIDE DEF new
<1>6. job \in [Jobs -> JobRecord]
  BY DEF TypeOK, JobRecord
<1> QED
  BY <1>3, <1>4, <1>5, <1>6

-----------------------------------------------------------------------------
\* Every step keeps the types.

JobsTyped ==
    /\ job \in [Jobs -> JobRecord]
    /\ \A j \in Jobs \cap {"clean", "archive"} :
          job[j].step \notin {"idle", "read", "unindex"} => job[j].read # None

Early == {"idle", "read", "unindex"}

LEMMA SteppedTyped ==
    ASSUME TypeOK, NEW j \in Jobs, NEW s \in Step, Stepped(j, s),
           j \in {"clean", "archive"} => s \in Early \/ job[j].step \notin Early
    PROVE  JobsTyped'
<1>1. /\ job' \in [Jobs -> JobRecord]
      /\ job'[j].step = s /\ job'[j].read = job[j].read
      /\ \A i \in Jobs : i # j => job'[i] = job[i]
  BY SteppedFields
<1>2. ASSUME NEW i \in Jobs \cap {"clean", "archive"}, job'[i].step \notin Early
      PROVE  job'[i].read # None
  <2>1. CASE i = j
    BY <1>1, <1>2, <2>1 DEF TypeOK, Early
  <2>2. CASE i # j
    BY <1>1, <1>2, <2>2 DEF TypeOK, Early
  <2> QED
    BY <2>1, <2>2
<1> QED
  BY <1>1, <1>2 DEF JobsTyped, Early

LEMMA LeaveTyped ==
    ASSUME TypeOK, NEW j \in Jobs, Leave(j) PROVE JobsTyped'
<1>1. /\ job' \in [Jobs -> JobRecord]
      /\ job'[j].step = "idle"
      /\ \A i \in Jobs : i # j => job'[i] = job[i]
  BY LeaveFields
<1>2. ASSUME NEW i \in Jobs \cap {"clean", "archive"}, job'[i].step \notin Early
      PROVE  job'[i].read # None
  <2>1. CASE i = j
    BY <1>1, <1>2, <2>1 DEF Early
  <2>2. CASE i # j
    BY <1>1, <1>2, <2>2 DEF TypeOK, Early
  <2> QED
    BY <2>1, <2>2
<1> QED
  BY <1>1, <1>2 DEF JobsTyped, Early

\* A script writes or deletes the record of a task with its expiry.
LEMMA ErasedTyped ==
    ASSUME TypeOK, NEW t \in Task,
           rec' = [rec EXCEPT ![t] = None], ttl' = [ttl EXCEPT ![t] = None]
    PROVE  /\ rec' \in [Task -> Record \cup {None}]
           /\ ttl' \in [Task -> 0..(MaxTime + HistoryTtl) \cup {None}]
           /\ rec'[t] = None /\ ttl'[t] = None
           /\ \A u \in Task : u # t => rec'[u] = rec[u] /\ ttl'[u] = ttl[u]
BY DEF TypeOK

LEMMA ReplayedFields ==
    ASSUME TypeOK, NEW t \in Task, NEW u \in Task, Replay(t, u)
    PROVE  /\ rec' \in [Task -> Record \cup {None}]
           /\ rec'[u] = Fresh
           /\ rec[t] \in Record /\ rec'[t] \in Record /\ rec'[t].op = FALSE
           /\ rec'[t].outcome = rec[t].outcome /\ rec'[t].bare = FALSE
           /\ rec'[t].finished = rec[t].finished
           /\ ~rec[t].op => rec'[t] = rec[t]
           /\ \A v \in Task : v # t /\ v # u => rec'[v] = rec[v]
<1> DEFINE r == [rec[t] EXCEPT !.op = FALSE]
<1>1. rec[t] \in Record /\ ~rec[t].bare
  BY DEF Replay, TypeOK
<1>2. /\ r \in Record /\ r.op = FALSE /\ r.outcome = rec[t].outcome /\ ~r.bare
      /\ r.finished = rec[t].finished
      /\ ~rec[t].op => r = rec[t]
  BY <1>1 DEF Record
<1>3. /\ u # t
      /\ rec' = [rec EXCEPT ![u] = Fresh, ![t] = [@ EXCEPT !.op = FALSE]]
  BY DEF Replay
<1>4. rec' = [rec EXCEPT ![u] = Fresh, ![t] = r]
  BY <1>3 DEF TypeOK
<1> DEFINE d == [rec EXCEPT ![u] = Fresh]
<1>5. rec' = [d EXCEPT ![t] = r]
  BY <1>4
<1>6. /\ d \in [Task -> Record \cup {None}] /\ d[u] = Fresh
      /\ \A v \in Task : v # u => d[v] = rec[v]
  BY NoneDistinct DEF TypeOK
<1>7. r \in Record /\ u # t
  BY <1>2, <1>3
<1> HIDE DEF d, r
<1>8. /\ rec' \in [Task -> Record \cup {None}] /\ rec'[u] = Fresh /\ rec'[t] = r
      /\ \A v \in Task : v # t /\ v # u => rec'[v] = rec[v]
  BY <1>5, <1>6, <1>7
<1> QED
  BY <1>1, <1>2, <1>8
LEMMA ScriptTypes ==
    ASSUME TypeOK, NEW t \in Task, Script(t)
    PROVE  TypeOK'
<1>1. Fresh \in Record /\ now \in Time /\ now # None
  BY NoneDistinct DEF TypeOK, Time
<1>2. CASE Enqueue(t)
  BY <1>1, <1>2 DEF Enqueue, TypeOK
<1>3. CASE Pop(t)
  BY <1>3 DEF Pop, TypeOK, store
<1>4. CASE EnsureReads(t)
  BY <1>4 DEF EnsureReads, TypeOK, store
<1>5. CASE EnsureWrites(t)
  BY <1>1, <1>5 DEF EnsureWrites, TypeOK
<1>6. CASE Begin(t)
  <2>1. /\ UNCHANGED <<now, late, index, created, job, archive>>
        /\ hold' \in [Task -> {"none", "popped", "absent", "begin", "running"}]
    BY <1>6 DEF Begin, TypeOK
  <2>2. "skipped" \in Terminal /\ FALSE \in BOOLEAN
    BY DEF Terminal
  <2>3. CASE Ends(t, "skipped", FALSE)
    BY <2>1, <2>2, <2>3, EndsFields DEF TypeOK
  <2>4. CASE UNCHANGED <<place, rec, ttl>>
    BY <2>1, <2>4 DEF TypeOK
  <2> QED
    BY <1>6, <2>3, <2>4 DEF Begin
<1>7. CASE Settle(t)
  <2>1. /\ UNCHANGED <<now, late, index, created, job, archive>>
        /\ hold' \in [Task -> {"none", "popped", "absent", "begin", "running"}]
    BY <1>7 DEF Settle, TypeOK
  <2>2. "completed" \in Terminal /\ "failed" \in Terminal
    BY DEF Terminal
  <2>3. CASE Ends(t, "completed", FALSE)
    BY <2>1, <2>2, <2>3, EndsFields DEF TypeOK
  <2>4. CASE Ends(t, "failed", TRUE)
    BY <2>1, <2>2, <2>4, EndsFields DEF TypeOK
  <2>5. CASE place' = [place EXCEPT ![t] = "delay"] /\ UNCHANGED <<rec, ttl>>
    BY <2>1, <2>5 DEF TypeOK
  <2>6. CASE UNCHANGED <<place, rec, ttl>>
    BY <2>1, <2>6 DEF TypeOK
  <2> QED
    BY <1>7, <2>3, <2>4, <2>5, <2>6 DEF Settle
<1>8. CASE BackToReady(t)
  <2>1. TakenFrom({t})
    BY <1>8 DEF BackToReady
  <2>2. hold' \in [Task -> Hold] /\ late' \subseteq Late
    BY <2>1, TakenFields
  <2> QED
    BY <1>8, <2>2 DEF BackToReady, TypeOK, store, Hold
<1>9. CASE Purge(t)
  BY <1>9, PurgedFields DEF Purge, TypeOK, Hold
<1>10. CASE ClearTerminal(t)
  BY <1>10, ErasedTyped DEF ClearTerminal, TypeOK, queue
<1>11. CASE Lose(t)
  BY <1>11, ErasedTyped DEF Lose, TypeOK, queue
<1>12. CASE Expire(t)
  BY <1>12, ErasedTyped DEF Expire, TypeOK, queue
<1>13. CASE \E u \in Task : Replay(t, u)
  <2> PICK u \in Task : Replay(t, u)
    BY <1>13
  <2>4. rec' \in [Task -> Record \cup {None}]
    BY ReplayedFields
  <2>5. now + HistoryTtl \in 0..(MaxTime + HistoryTtl)
    BY <1>1, BoundsAssumption DEF Time
  <2>6. ttl' \in [Task -> 0..(MaxTime + HistoryTtl) \cup {None}]
    BY <2>5 DEF Replay, TypeOK
  <2>7. place' \in [Task -> {"none", "ready", "processing", "delay", "dlq"}]
    BY DEF Replay, TypeOK
  <2> QED
    BY <1>1, <2>4, <2>6, <2>7 DEF Replay, TypeOK
<1>14. CASE Crash(t)
  BY <1>14 DEF Crash, TypeOK, store
<1>15. CASE LateReads(t)
  BY <1>15 DEF LateReads, TypeOK, Late, store
<1>16. CASE LateWrites(t)
  BY <1>1, <1>16 DEF LateWrites, TypeOK
<1> QED
  BY <1>2, <1>3, <1>4, <1>5, <1>6, <1>7, <1>8, <1>9, <1>10, <1>11, <1>12, <1>13,
     <1>14, <1>15, <1>16 DEF Script

LEMMA JobTypes ==
    ASSUME TypeOK, NEW t \in Task, NEW j \in Jobs, JobStep(j, t)
    PROVE  TypeOK'
<1> USE DEF Early, queue, store
<1>1. CASE Take(j, t)
  <2>1. /\ job' \in [Jobs -> JobRecord]
        /\ job'[j].step = First(j)
        /\ \A i \in Jobs : i # j => job'[i] = job[i]
    BY <1>1, TakeFields
  <2>2. j \in {"clean", "archive"} => First(j) = "read"
    BY DEF First
  <2>3. JobsTyped'
    BY <2>1, <2>2 DEF JobsTyped, TypeOK
  <2> QED
    BY <1>1, <2>3 DEF Take, TypeOK, JobsTyped, JobRecord
<1>2. CASE Read(j, t)
  <2>1. JobsTyped'
    <3>1. CASE Leave(j)
      BY <3>1, LeaveTyped
    <3>2. CASE Stepped(j, "unindex")
      BY <3>2, SteppedTyped DEF Step
    <3>3. CASE rec[t] # None /\ job' = [job EXCEPT ![j] = [@ EXCEPT !.step = "scan1",
                                                                 !.read = rec[t]]]
      <4> DEFINE new == [job[j] EXCEPT !.step = "scan1", !.read = rec[t]]
      <4>1. job' = [job EXCEPT ![j] = new]
        BY <3>3
      <4>2. job[j] \in JobRecord /\ rec[t] \in Record /\ rec[t] # None
        BY <3>3, NoneDistinct DEF TypeOK, JobRecord
      <4>3. new \in JobRecord /\ new.read # None
        BY <4>2 DEF JobRecord, Step
      <4> HIDE DEF new
      <4> QED
        BY <4>1, <4>3 DEF TypeOK, JobsTyped, JobRecord
    <3> QED
      BY <1>2, <3>1, <3>2, <3>3 DEF Read
  <2> QED
    BY <1>2, <2>1 DEF Read, TypeOK, JobsTyped, JobRecord
<1>3. CASE SetFlag(j, t)
  <2>1. JobsTyped'
    BY <1>3, LeaveTyped DEF SetFlag
  <2>2. job[j].found \in BOOLEAN
    BY DEF TypeOK
  <2>3. (j = "clean" \/ job[j].found) \in BOOLEAN
    OBVIOUS
  <2>4. Flagged(t, j = "clean" \/ job[j].found) \in Record
    BY <2>3, FlaggedFields
  <2>5. rec' \in [Task -> Record \cup {None}]
    BY <1>3, <2>4 DEF SetFlag, TypeOK
  <2> QED
    BY <1>3, <2>1, <2>5 DEF SetFlag, TypeOK, JobsTyped, JobRecord
<1>4. CASE Unindex(j, t)
  <2>1. JobsTyped'
    BY <1>4, LeaveTyped DEF Unindex
  <2> QED
    BY <1>4, <2>1 DEF Unindex, TypeOK, JobsTyped, JobRecord
<1>5. ASSUME j # "delete", NEW k \in 1..4, Scan(j, t, k) PROVE TypeOK'
  <2>1. job[j].step \notin Early
    <3>1. k = 1 \/ k = 2 \/ k = 3 \/ k = 4
      OBVIOUS
    <3> QED
      BY <1>5, <3>1 DEF Scan, At
  <2>2. ASSUME k < 4, Stepped(j, <<"scan2", "scan3", "scan4">>[k]) PROVE JobsTyped'
    <3>1. <<"scan2", "scan3", "scan4">>[k] \in Step
      <4>1. k = 1 \/ k = 2 \/ k = 3
        BY <2>2
      <4> QED
        BY <4>1 DEF Step
    <3> QED
      BY <2>1, <2>2, <3>1, SteppedTyped
  <2>3. ASSUME Found(j) PROVE JobsTyped'
    <3>1. CASE Stepped(j, "flag")
      BY <2>1, <3>1, SteppedTyped DEF Step
    <3>2. CASE Leave(j)
      BY <3>2, LeaveTyped
    <3>3. CASE j = "repair" /\ job' = [job EXCEPT ![j] = [@ EXCEPT !.step = "read",
                                                                 !.found = TRUE]]
      <4> DEFINE new == [job[j] EXCEPT !.step = "read", !.found = TRUE]
      <4>1. job' = [job EXCEPT ![j] = new]
        BY <3>3
      <4>2. new \in JobRecord
        BY DEF TypeOK, JobRecord, Step
      <4> HIDE DEF new
      <4> QED
        BY <3>3, <4>1, <4>2 DEF TypeOK, JobsTyped, JobRecord
    <3> QED
      BY <2>3, <3>1, <3>2, <3>3 DEF Found
  <2>4. ASSUME NotFound(j) PROVE JobsTyped'
    <3>1. CASE Leave(j)
      BY <3>1, LeaveTyped
    <3>2. ASSUME NEW s \in {"read", "drop", "insert"}, Stepped(j, s) PROVE JobsTyped'
      BY <2>1, <3>2, SteppedTyped DEF Step
    <3> QED
      BY <2>4, <3>1, <3>2 DEF NotFound
  <2>5. JobsTyped'
    BY <1>5, <2>2, <2>3, <2>4 DEF Scan
  <2> QED
    BY <1>5, <2>5 DEF Scan, TypeOK, JobsTyped, JobRecord
<1>6. CASE j = "repair" /\ ReadAfterScan(t)
  <2>1. ASSUME Leave(j) PROVE JobsTyped'
    BY <2>1, LeaveTyped
  <2>2. ASSUME NEW s \in {"unindex", "flag"}, Stepped(j, s) PROVE JobsTyped'
    BY <1>6, <2>2, SteppedTyped DEF Step
  <2>3. JobsTyped'
    BY <1>6, <2>1, <2>2 DEF ReadAfterScan
  <2> QED
    BY <1>6, <2>3 DEF ReadAfterScan, TypeOK, JobsTyped, JobRecord
<1>7. CASE j = "clean" /\ CleanDrops(t)
  <2>1. JobsTyped'
    BY <1>7, LeaveTyped DEF CleanDrops
  <2>2. /\ rec' \in [Task -> Record \cup {None}]
        /\ ttl' \in [Task -> 0..(MaxTime + HistoryTtl) \cup {None}]
        /\ index' \subseteq Task
    BY <1>7, ErasedTyped DEF CleanDrops, TypeOK
  <2> QED
    BY <1>7, <2>1, <2>2 DEF CleanDrops, TypeOK, JobsTyped, JobRecord
<1>8. CASE j = "archive" /\ Insert(t)
  <2>1. JobsTyped'
    <3>1. job[j].step \notin Early
      BY <1>8 DEF Insert, At
    <3> QED
      BY <1>8, <3>1, SteppedTyped DEF Insert, Step
  <2>2. job["archive"].read \in Record \cup {None}
    BY <1>8 DEF TypeOK
  <2> QED
    BY <1>8, <2>1, <2>2 DEF Insert, TypeOK, JobsTyped, JobRecord
<1>9. CASE j = "archive" /\ ArchiveDrops(t)
  <2>1. JobsTyped'
    BY <1>9, LeaveTyped DEF ArchiveDrops
  <2>2. /\ rec' \in [Task -> Record \cup {None}]
        /\ ttl' \in [Task -> 0..(MaxTime + HistoryTtl) \cup {None}]
    BY <1>9, ErasedTyped DEF ArchiveDrops
  <2> QED
    BY <1>9, <2>1, <2>2 DEF ArchiveDrops, TypeOK, JobsTyped, JobRecord
<1>10. ASSUME j = "delete", NEW s \in Step, Stepped(j, s) PROVE JobsTyped'
  BY <1>10, SteppedTyped
<1>11. CASE j = "delete" /\ DeleteChecks(t)
  <2>1. JobsTyped'
    BY <1>10, <1>11, LeaveTyped DEF DeleteChecks, Step
  <2> QED
    BY <1>11, <2>1 DEF DeleteChecks, TypeOK, JobsTyped, JobRecord
<1>12. CASE j = "delete" /\ DeleteRechecks(t)
  <2>1. JobsTyped'
    BY <1>10, <1>12, LeaveTyped DEF DeleteRechecks, Step
  <2> QED
    BY <1>12, <2>1 DEF DeleteRechecks, TypeOK, JobsTyped, JobRecord
<1>13. CASE j = "delete" /\ DeleteDrops(t)
  <2>1. JobsTyped'
    BY <1>10, <1>13 DEF DeleteDrops, Step
  <2>2. /\ rec' \in [Task -> Record \cup {None}]
        /\ ttl' \in [Task -> 0..(MaxTime + HistoryTtl) \cup {None}]
    BY <1>13, ErasedTyped DEF DeleteDrops
  <2> QED
    BY <1>13, <2>1, <2>2 DEF DeleteDrops, TypeOK, JobsTyped, JobRecord
<1>14. ASSUME j = "delete", NEW k \in 1..4, DeletePurges(t, k) PROVE TypeOK'
  <2>1. <<"purge2", "purge3", "purge4", "recheck">>[k] \in Step
    <3>1. k = 1 \/ k = 2 \/ k = 3 \/ k = 4
      OBVIOUS
    <3> QED
      BY <3>1 DEF Step
  <2>2. JobsTyped'
    BY <1>10, <1>14, <2>1, LeaveTyped DEF DeletePurges
  <2>3. CASE Purged(t)
    BY <1>14, <2>2, <2>3, PurgedFields DEF DeletePurges, TypeOK, JobsTyped, JobRecord,
       Hold
  <2>4. CASE UNCHANGED <<queue, rec, ttl>>
    BY <1>14, <2>2, <2>4 DEF DeletePurges, TypeOK, JobsTyped, JobRecord
  <2> QED
    BY <1>14, <2>3, <2>4 DEF DeletePurges
<1> QED
  BY <1>1, <1>2, <1>3, <1>4, <1>5, <1>6, <1>7, <1>8, <1>9, <1>11, <1>12, <1>13, <1>14
     DEF JobStep

LEMMA QueueTypes ==
    ASSUME TypeOK, DeleteQueue
    PROVE  TypeOK'
<1> DEFINE gone == {t \in Task : place[t] # "none" \/ t \in index}
<1>1. /\ rec' = [t \in Task |-> IF t \in gone THEN None ELSE rec[t]]
      /\ ttl' = [t \in Task |-> IF t \in gone THEN None ELSE ttl[t]]
  BY DEF DeleteQueue
<1> HIDE DEF gone
<1>2. /\ rec' \in [Task -> Record \cup {None}]
      /\ ttl' \in [Task -> 0..(MaxTime + HistoryTtl) \cup {None}]
  BY <1>1 DEF TypeOK
<1>3. hold' \in [Task -> Hold] /\ late' \subseteq Late
  BY TakenFields DEF DeleteQueue
<1> QED
  BY <1>2, <1>3 DEF DeleteQueue, TypeOK, Hold

LEMMA TypeInit == Init => TypeOK
<1>1. ASSUME Init PROVE TypeOK
  <2>1. 0 \in Time /\ Idle \in JobRecord /\ Idle.step = "idle"
    BY BoundsAssumption DEF Time, Idle, JobRecord, Step
  <2>2. job \in [Jobs -> JobRecord] /\ \A j \in Jobs : job[j].step = "idle"
    BY <1>1, <2>1 DEF Init
  <2> QED
    BY <1>1, <2>1, <2>2 DEF Init, TypeOK, JobRecord
<1> QED
  BY <1>1

LEMMA TypeStep == TypeOK /\ [Next]_vars => TypeOK'
<1> SUFFICES ASSUME TypeOK, [Next]_vars PROVE TypeOK'
  OBVIOUS
<1>1. CASE Tick
  <2>1. now + 1 \in Time
    BY <1>1, BoundsAssumption DEF Tick, TypeOK, Time
  <2> QED
    BY <1>1, <2>1 DEF Tick, TypeOK, queue, store
<1>2. CASE DeleteQueue
  BY <1>2, QueueTypes
<1>3. CASE \E t \in Task : Script(t) \/ \E j \in Jobs : JobStep(j, t)
  BY <1>3, ScriptTypes, JobTypes
<1>4. CASE \E j \in Jobs : Abandon(j)
  <2> PICK j \in Jobs : Abandon(j)
    BY <1>4
  <2>1. JobsTyped'
    BY LeaveTyped DEF Abandon
  <2> QED
    BY <2>1 DEF Abandon, TypeOK, JobsTyped, JobRecord, queue, store
<1>5. CASE UNCHANGED vars
  BY <1>5 DEF vars, queue, store, TypeOK
<1> QED
  BY <1>1, <1>2, <1>3, <1>4, <1>5 DEF Next

\* The types of the clock, the containers, the records with their expiry, the
\* index, the workers and the jobs, whatever jobs and operators run.
THEOREM TypesHold == Spec => []TypeOK
<1> QED
  BY TypeInit, TypeStep, PTL DEF Spec

-----------------------------------------------------------------------------
\* Which steps can change a task, and which a job.

Same(t) ==
    /\ place'[t] = place[t] /\ rec'[t] = rec[t] /\ ttl'[t] = ttl[t]
    /\ hold'[t] = hold[t] /\ (Lagging(t)' => Lagging(t))
    /\ created'[t] = created[t]

JobWrites(j, t) ==
    \/ SetFlag(j, t)
    \/ j = "clean" /\ CleanDrops(t)
    \/ j = "archive" /\ ArchiveDrops(t)
    \/ j = "delete" /\ DeleteDrops(t)
    \/ j = "delete" /\ Purged(t) /\ \E k \in 1..4 : DeletePurges(t, k)

\* The steps that change what is known of task t.
Changes(t) ==
    \/ DeleteQueue \/ Script(t)
    \/ \E v \in Task : Replay(v, t)
    \/ \E j \in Jobs : JobWrites(j, t)

LEMMA JobSteps ==
    ASSUME TypeOK, NEW j \in Jobs, NEW t \in Task, JobStep(j, t)
    PROVE  JobWrites(j, t) \/ UNCHANGED <<queue, rec, ttl, created>>
<1> USE DEF JobWrites, queue, store
<1>1. CASE Take(j, t)
  BY <1>1 DEF Take
<1>2. CASE Read(j, t)
  BY <1>2 DEF Read
<1>3. CASE Unindex(j, t)
  BY <1>3 DEF Unindex
<1>4. CASE \E k \in 1..4 : Scan(j, t, k)
  BY <1>4 DEF Scan
<1>5. CASE ReadAfterScan(t)
  BY <1>5 DEF ReadAfterScan
<1>6. CASE Insert(t)
  BY <1>6 DEF Insert
<1>7. CASE DeleteChecks(t) \/ DeleteRechecks(t)
  BY <1>7 DEF DeleteChecks, DeleteRechecks
<1>8. CASE j = "delete" /\ \E k \in 1..4 : DeletePurges(t, k)
  <2> PICK k \in 1..4 : DeletePurges(t, k)
    BY <1>8
  <2> QED
    BY <1>8 DEF DeletePurges
<1>9. CASE \/ SetFlag(j, t)
           \/ j = "clean" /\ CleanDrops(t)
           \/ j = "archive" /\ ArchiveDrops(t)
           \/ j = "delete" /\ DeleteDrops(t)
  BY <1>9
<1> QED
  BY <1>1, <1>2, <1>3, <1>4, <1>5, <1>6, <1>7, <1>8, <1>9 DEF JobStep

LEMMA OtherJobs ==
    ASSUME TypeOK, NEW j \in Jobs, NEW t \in Task, JobWrites(j, t),
           NEW u \in Task, u # t
    PROVE  Same(u)
<1> USE DEF Same, queue, Lagging
<1>1. CASE SetFlag(j, t)
  BY <1>1 DEF SetFlag, TypeOK
<1>2. CASE CleanDrops(t)
  BY <1>2 DEF CleanDrops, TypeOK
<1>3. CASE ArchiveDrops(t)
  BY <1>3 DEF ArchiveDrops, TypeOK
<1>4. CASE DeleteDrops(t)
  BY <1>4 DEF DeleteDrops, TypeOK
<1>5. CASE Purged(t) /\ \E k \in 1..4 : DeletePurges(t, k)
  BY <1>5, PurgedFields DEF DeletePurges
<1> QED
  BY <1>1, <1>2, <1>3, <1>4, <1>5 DEF JobWrites

LEMMA OtherScripts ==
    ASSUME TypeOK, NEW t \in Task, Script(t), NEW u \in Task, u # t, ~Replay(t, u)
    PROVE  Same(u)
<1> USE DEF Same, queue, store, Lagging
<1>1. CASE Enqueue(t)
  BY <1>1 DEF Enqueue, TypeOK
<1>2. CASE Pop(t)
  BY <1>2 DEF Pop, TypeOK
<1>3. CASE EnsureReads(t)
  BY <1>3 DEF EnsureReads, TypeOK
<1>4. CASE EnsureWrites(t)
  BY <1>4 DEF EnsureWrites, TypeOK
<1>5. CASE Begin(t)
  <2>1. hold'[u] = hold[u] /\ UNCHANGED <<late, created>>
    BY <1>5 DEF Begin, TypeOK
  <2>2. CASE Ends(t, "skipped", FALSE)
    BY <2>1, <2>2, EndsFields DEF Terminal
  <2>3. CASE UNCHANGED <<place, rec, ttl>>
    BY <2>1, <2>3
  <2> QED
    BY <1>5, <2>2, <2>3 DEF Begin
<1>6. CASE Settle(t)
  <2>1. hold'[u] = hold[u] /\ UNCHANGED <<late, created>>
    BY <1>6 DEF Settle, TypeOK
  <2>2. CASE Ends(t, "completed", FALSE)
    BY <2>1, <2>2, EndsFields DEF Terminal
  <2>3. CASE Ends(t, "failed", TRUE)
    BY <2>1, <2>3, EndsFields DEF Terminal
  <2>4. CASE place' = [place EXCEPT ![t] = "delay"] /\ UNCHANGED <<rec, ttl>>
    BY <2>1, <2>4 DEF TypeOK
  <2>5. CASE UNCHANGED <<place, rec, ttl>>
    BY <2>1, <2>5
  <2> QED
    BY <1>6, <2>2, <2>3, <2>4, <2>5 DEF Settle
<1>7. CASE BackToReady(t)
  <2>1. TakenFrom({t})
    BY <1>7 DEF BackToReady
  <2>2. hold'[u] = hold[u] /\ (Lagging(u)' => Lagging(u))
    BY <2>1, TakenFields
  <2> QED
    BY <1>7, <2>2 DEF BackToReady, TypeOK
<1>8. CASE Purge(t)
  BY <1>8, PurgedFields DEF Purge
<1>9. CASE ClearTerminal(t)
  BY <1>9 DEF ClearTerminal, TypeOK
<1>10. CASE Lose(t)
  BY <1>10 DEF Lose, TypeOK
<1>11. CASE Expire(t)
  BY <1>11 DEF Expire, TypeOK
<1>12. CASE \E v \in Task : Replay(t, v)
  <2> PICK v \in Task : Replay(t, v)
    BY <1>12
  <2>1. rec'[u] = rec[u]
    BY ReplayedFields
  <2>2. place'[u] = place[u] /\ ttl'[u] = ttl[u]
    BY DEF Replay, TypeOK
  <2>3. created'[u] = created[u] /\ UNCHANGED <<hold, late>>
    BY DEF Replay, TypeOK
  <2> QED
    BY <2>1, <2>2, <2>3
<1>13. CASE Crash(t)
  BY <1>13 DEF Crash, TypeOK
<1>14. CASE LateReads(t) \/ LateWrites(t)
  BY <1>14 DEF LateReads, LateWrites, TypeOK
<1> QED
  BY <1>1, <1>2, <1>3, <1>4, <1>5, <1>6, <1>7, <1>8, <1>9, <1>10, <1>11, <1>12,
     <1>13, <1>14 DEF Script

LEMMA TaskSteps ==
    ASSUME TypeOK, [Next]_vars, NEW t \in Task
    PROVE  Same(t) \/ Changes(t)
<1>1. CASE DeleteQueue
  BY <1>1 DEF Changes
<1>2. ASSUME NEW u \in Task, Script(u) PROVE Same(t) \/ Changes(t)
  BY <1>2, OtherScripts DEF Changes
<1>3. ASSUME NEW u \in Task, NEW j \in Jobs, JobStep(j, u) PROVE Same(t) \/ Changes(t)
  <2>1. CASE UNCHANGED <<queue, rec, ttl, created>>
    BY <2>1 DEF Same, queue, Lagging
  <2>2. CASE JobWrites(j, u)
    BY <2>2, OtherJobs DEF Changes
  <2> QED
    BY <1>3, <2>1, <2>2, JobSteps
<1>4. CASE Tick \/ (\E j \in Jobs : Abandon(j)) \/ UNCHANGED vars
  BY <1>4 DEF Tick, Abandon, vars, queue, store, Same, Lagging
<1> QED
  BY <1>1, <1>2, <1>3, <1>4 DEF Next

\* A step of job i on u leaves the other jobs alone, and its task is u.
Alone(i, u) ==
    /\ \A j \in Jobs : j # i => job'[j] = job[j]
    /\ job'[i].step = "idle" \/ job'[i].task = u

LEMMA JobAlone ==
    ASSUME TypeOK, NEW i \in Jobs, NEW u \in Task, JobStep(i, u)
    PROVE  Alone(i, u)
<1>1. ASSUME NEW s \in Step, Stepped(i, s), job[i].task = u PROVE Alone(i, u)
  BY <1>1, SteppedFields DEF Alone
<1>2. ASSUME Leave(i) PROVE Alone(i, u)
  BY <1>2, LeaveFields DEF Alone
<1>3. ASSUME NEW s \in Step, NEW r, job[i].task = u,
             job' = [job EXCEPT ![i] = [@ EXCEPT !.step = s, !.read = r]]
      PROVE  Alone(i, u)
  BY <1>3 DEF TypeOK, Alone
<1>4. ASSUME NEW s \in Step, NEW f, job[i].task = u,
             job' = [job EXCEPT ![i] = [@ EXCEPT !.step = s, !.found = f]]
      PROVE  Alone(i, u)
  BY <1>4 DEF TypeOK, Alone
<1>6. CASE Take(i, u)
  BY <1>6, TakeFields DEF Alone
<1>7. CASE Read(i, u)
  <2>1. "scan1" \in Step /\ "unindex" \in Step
    BY DEF Step
  <2>2. job[i].task = u
    BY <1>7 DEF Read, At
  <2> QED
    BY <1>1, <1>2, <1>3, <1>7, <2>1, <2>2 DEF Read
<1>8. CASE SetFlag(i, u) \/ Unindex(i, u)
  BY <1>2, <1>8 DEF SetFlag, Unindex
<1>9. CASE \E k \in 1..4 : Scan(i, u, k)
  <2> PICK k \in 1..4 : Scan(i, u, k)
    BY <1>9
  <2>1. job[i].task = u
    BY DEF Scan, At
  <2>2. {"flag", "read", "drop", "insert", "scan2", "scan3", "scan4"} \subseteq Step
    BY DEF Step
  <2>3. ASSUME Found(i) PROVE Alone(i, u)
    BY <1>1, <1>2, <1>4, <2>1, <2>2, <2>3 DEF Found
  <2>4. ASSUME NotFound(i) PROVE Alone(i, u)
    BY <1>1, <1>2, <2>1, <2>2, <2>4 DEF NotFound
  <2>5. ASSUME k < 4, Stepped(i, <<"scan2", "scan3", "scan4">>[k]) PROVE Alone(i, u)
    <3>1. k = 1 \/ k = 2 \/ k = 3
      BY <2>5
    <3>2. <<"scan2", "scan3", "scan4">>[k] \in Step
      BY <2>2, <3>1
    <3> QED
      BY <1>1, <2>1, <2>5, <3>2
  <2> QED
    BY <2>3, <2>4, <2>5 DEF Scan
<1>10. CASE i = "repair" /\ ReadAfterScan(u)
  <2>1. job[i].task = u
    BY <1>10 DEF ReadAfterScan, At
  <2>2. {"flag", "unindex"} \subseteq Step
    BY DEF Step
  <2> QED
    BY <1>1, <1>2, <1>10, <2>1, <2>2 DEF ReadAfterScan
<1>11. CASE (i = "clean" /\ CleanDrops(u)) \/ (i = "archive" /\ ArchiveDrops(u))
  BY <1>2, <1>11 DEF CleanDrops, ArchiveDrops
<1>12. CASE i = "archive" /\ Insert(u)
  BY <1>1, <1>12 DEF Insert, At, Step
<1>13. CASE i = "delete" /\ (DeleteChecks(u) \/ DeleteRechecks(u) \/ DeleteDrops(u))
  <2>1. {"purge1", "drop", "unindex"} \subseteq Step
    BY DEF Step
  <2> QED
    BY <1>1, <1>2, <1>13, <2>1 DEF DeleteChecks, DeleteRechecks, DeleteDrops, At
<1>14. CASE i = "delete" /\ \E k \in 1..4 : DeletePurges(u, k)
  <2> PICK k \in 1..4 : DeletePurges(u, k)
    BY <1>14
  <2>1. job[i].task = u
    BY <1>14 DEF DeletePurges, At
  <2>2. <<"purge2", "purge3", "purge4", "recheck">>[k] \in Step
    <3>1. k = 1 \/ k = 2 \/ k = 3 \/ k = 4
      OBVIOUS
    <3> QED
      BY <3>1 DEF Step
  <2> QED
    BY <1>1, <1>2, <1>14, <2>1, <2>2 DEF DeletePurges
<1> QED
  BY <1>6, <1>7, <1>8, <1>9, <1>10, <1>11, <1>12, <1>13, <1>14 DEF JobStep
\* A job that is at work after a step was as it is, or made the step.
LEMMA JobMoves ==
    ASSUME TypeOK, [Next]_vars, NEW j \in Jobs, job'[j].step # "idle"
    PROVE  \/ job'[j] = job[j]
           \/ \E u \in Task : JobStep(j, u) /\ job'[j].task = u
<1> USE DEF queue, store
<1>1. CASE DeleteQueue \/ Tick
  BY <1>1 DEF DeleteQueue, Tick
<1>2. CASE UNCHANGED vars
  BY <1>2 DEF vars
<1>3. ASSUME NEW u \in Task, Script(u) PROVE job' = job
  BY <1>3 DEF Script, Enqueue, Pop, EnsureReads, EnsureWrites, Begin, LateReads,
     LateWrites, Settle, Crash, BackToReady, Purge, ClearTerminal, Lose, Expire, Replay
<1>4. ASSUME NEW i \in Jobs, Abandon(i) PROVE job'[j] = job[j]
  BY <1>4, LeaveFields DEF Abandon
<1>5. ASSUME NEW u \in Task, NEW i \in Jobs, JobStep(i, u)
      PROVE  job'[j] = job[j] \/ (JobStep(j, u) /\ job'[j].task = u)
  BY <1>5, JobAlone DEF Alone
<1> QED
  BY <1>1, <1>2, <1>3, <1>4, <1>5 DEF Next

\* How clean_expired and the archiver go from one container to the next.
LEMMA ScanMoves ==
    ASSUME TypeOK, NEW j \in Jobs \cap {"clean", "archive"}, NEW t \in Task,
           NEW k \in 1..4, Scan(j, t, k), job'[j].step # "idle"
    PROVE  /\ UNCHANGED <<queue, store>>
           /\ job[j].task = t /\ job'[j].read = job[j].read
           /\ job[j].step \in {"scan1", "scan2", "scan3", "scan4"}
           /\ \/ j = "clean" /\ job'[j].step = "flag"
              \/ job[j].step = "scan1" /\ job'[j].step = "scan2"
              \/ job[j].step = "scan2" /\ job'[j].step = "scan3" /\ place[t] # "dlq"
              \/ job[j].step = "scan3" /\ job'[j].step = "scan4"
              \/ /\ job[j].step = "scan4"
                 /\ job'[j].step = IF j = "clean" THEN "drop" ELSE "insert"
<1>1. /\ job[j].task = t /\ UNCHANGED <<queue, store>>
      /\ job[j].step = <<"scan1", "scan2", "scan3", "scan4">>[k]
  BY DEF Scan, At
<1>2. ~Leave(j)
  BY LeaveFields
<1>3. CASE place[t] = Order[k]
  <2>1. Found(j)
    BY <1>3 DEF Scan
  <2>2. j = "clean" /\ Stepped(j, "flag")
    BY <1>2, <2>1 DEF Found
  <2>3. job'[j].step = "flag" /\ job'[j].read = job[j].read
    BY <2>2, SteppedFields DEF Step
  <2>4. job[j].step \in {"scan1", "scan2", "scan3", "scan4"}
    <3>1. k = 1 \/ k = 2 \/ k = 3 \/ k = 4
      OBVIOUS
    <3> QED
      BY <1>1, <3>1
  <2> QED
    BY <1>1, <2>2, <2>3, <2>4
<1>4. CASE place[t] # Order[k] /\ k = 4
  <2>1. NotFound(j)
    BY <1>4 DEF Scan
  <2> DEFINE s == IF j = "clean" THEN "drop" ELSE "insert"
  <2>2. Stepped(j, s)
    BY <1>2, <2>1 DEF NotFound
  <2>3. job'[j].step = s /\ job'[j].read = job[j].read
    BY <2>2, SteppedFields DEF Step
  <2> QED
    BY <1>1, <1>4, <2>3
<1>5. CASE place[t] # Order[k] /\ k < 4
  <2>1. Stepped(j, <<"scan2", "scan3", "scan4">>[k])
    BY <1>5 DEF Scan
  <2>2. k = 1 \/ k = 2 \/ k = 3
    BY <1>5
  <2>3. <<"scan2", "scan3", "scan4">>[k] \in Step
    BY <2>2 DEF Step
  <2>4. /\ job'[j].step = <<"scan2", "scan3", "scan4">>[k]
        /\ job'[j].read = job[j].read
    BY <2>1, <2>3, SteppedFields
  <2>5. k = 2 => place[t] # "dlq"
    BY <1>5 DEF Order
  <2> QED
    BY <1>1, <2>2, <2>4, <2>5
<1> QED
  BY <1>3, <1>4, <1>5

\* How clean_expired and the archiver begin with what they read.
LEMMA ReadMoves ==
    ASSUME TypeOK, NEW j \in Jobs \cap {"clean", "archive"}, NEW t \in Task,
           Read(j, t), job'[j].step # "idle"
    PROVE  /\ UNCHANGED <<queue, store>>
           /\ \/ rec[t] = None /\ job'[j].step = "unindex"
              \/ /\ rec[t] # None /\ rec[t].outcome \in Terminal
                 /\ j = "archive" => ~rec[t].op
                 /\ job'[j].step = "scan1" /\ job'[j].read = rec[t]
<1>1. UNCHANGED <<queue, store>> /\ ~Leave(j)
  BY LeaveFields DEF Read
<1>2. CASE rec[t] = None
  <2>1. Stepped(j, "unindex")
    BY <1>2 DEF Read
  <2> QED
    BY <1>1, <1>2, <2>1, SteppedFields DEF Step
<1>3. CASE rec[t] # None
  <2>1. /\ rec[t].outcome \in Terminal
        /\ j = "archive" => ~rec[t].op
        /\ job' = [job EXCEPT ![j] = [@ EXCEPT !.step = "scan1", !.read = rec[t]]]
    BY <1>1, <1>3 DEF Read
  <2>2. job'[j].step = "scan1" /\ job'[j].read = rec[t]
    BY <2>1 DEF TypeOK
  <2> QED
    BY <1>1, <1>3, <2>1, <2>2
<1> QED
  BY <1>2, <1>3

LEMMA ArchiveMoves ==
    ASSUME TypeOK, "archive" \in Jobs, NEW t \in Task, JobStep("archive", t),
           job'["archive"].step # "idle"
    PROVE  \/ job'["archive"].step = "read"
           \/ Read("archive", t)
           \/ \E k \in 1..4 : Scan("archive", t, k)
           \/ /\ Insert(t) /\ UNCHANGED <<queue, store>>
              /\ job["archive"].task = t /\ job["archive"].step = "insert"
              /\ job'["archive"].step = "drop" /\ job'["archive"].read = job["archive"].read
<1>1. ~Leave("archive")
  BY LeaveFields
<1>2. CASE Take("archive", t)
  <2>1. job'["archive"].step = First("archive")
    BY <1>2, TakeFields
  <2> QED
    BY <2>1 DEF First
<1>3. CASE Insert(t)
  <2>1. Stepped("archive", "drop") /\ At("archive", t, "insert")
    BY <1>3 DEF Insert
  <2>2. job'["archive"].step = "drop" /\ job'["archive"].read = job["archive"].read
    BY <2>1, SteppedFields DEF Step
  <2> QED
    BY <1>3, <2>1, <2>2 DEF Insert, At
<1> QED
  BY <1>1, <1>2, <1>3 DEF JobStep, SetFlag, Unindex, ArchiveDrops

LEMMA CleanMoves ==
    ASSUME TypeOK, "clean" \in Jobs, NEW t \in Task, JobStep("clean", t),
           job'["clean"].step # "idle"
    PROVE  \/ job'["clean"].step = "read"
           \/ Read("clean", t)
           \/ \E k \in 1..4 : Scan("clean", t, k)
<1>1. ~Leave("clean")
  BY LeaveFields
<1>2. CASE Take("clean", t)
  <2>1. job'["clean"].step = First("clean")
    BY <1>2, TakeFields
  <2> QED
    BY <2>1 DEF First
<1> QED
  BY <1>1, <1>2 DEF JobStep, SetFlag, Unindex, CleanDrops

LEMMA DeleteMoves ==
    ASSUME TypeOK, "delete" \in Jobs, NEW t \in Task, JobStep("delete", t),
           job'["delete"].step # "idle"
    PROVE  \/ job'["delete"].step \in {"check", "purge1", "purge2", "purge3", "purge4",
                                       "recheck"}
           \/ /\ job'["delete"].step = "drop" /\ UNCHANGED <<queue, store>>
              /\ rec[t] = None \/ ~rec[t].op
           \/ /\ job'["delete"].step = "unindex" /\ UNCHANGED queue
              /\ DeleteDrops(t) /\ rec'[t] = None
              /\ job["delete"].step = "drop" /\ job["delete"].task = t
<1>1. ~Leave("delete")
  BY LeaveFields
<1>2. CASE Take("delete", t)
  <2>1. job'["delete"].step = First("delete")
    BY <1>2, TakeFields
  <2> QED
    BY <2>1 DEF First
<1>3. CASE Read("delete", t)
  BY <1>3 DEF Read
<1>4. CASE DeleteChecks(t)
  <2>1. Stepped("delete", "purge1")
    BY <1>1, <1>4 DEF DeleteChecks
  <2> QED
    BY <2>1, SteppedFields DEF Step
<1>5. CASE DeleteRechecks(t)
  <2>1. /\ Stepped("delete", "drop") /\ UNCHANGED <<queue, store>>
        /\ rec[t] = None \/ ~rec[t].op
    BY <1>1, <1>5 DEF DeleteRechecks
  <2> QED
    BY <2>1, SteppedFields DEF Step
<1>6. CASE DeleteDrops(t)
  <2>1. /\ Stepped("delete", "unindex") /\ UNCHANGED queue
        /\ job["delete"].step = "drop" /\ job["delete"].task = t
    BY <1>6 DEF DeleteDrops, At
  <2>2. rec'[t] = None
    BY <1>6 DEF DeleteDrops, TypeOK
  <2> QED
    BY <1>6, <2>1, <2>2, SteppedFields DEF Step
<1>7. CASE \E k \in 1..4 : DeletePurges(t, k)
  <2> PICK k \in 1..4 : DeletePurges(t, k)
    BY <1>7
  <2>1. Stepped("delete", <<"purge2", "purge3", "purge4", "recheck">>[k])
    BY <1>1 DEF DeletePurges
  <2>2. k = 1 \/ k = 2 \/ k = 3 \/ k = 4
    OBVIOUS
  <2>3. <<"purge2", "purge3", "purge4", "recheck">>[k] \in Step
    BY <2>2 DEF Step
  <2>4. job'["delete"].step = <<"purge2", "purge3", "purge4", "recheck">>[k]
    BY <2>1, <2>3, SteppedFields
  <2> QED
    BY <2>2, <2>4
<1> QED
  BY <1>1, <1>2, <1>3, <1>4, <1>5, <1>6, <1>7 DEF JobStep, SetFlag, Unindex

-----------------------------------------------------------------------------
(***************************************************************************)
(* Without repair a record whose task has a message says so and does not   *)
(* expire, whatever else Redis loses: only the flag that repair reads in   *)
(* one call and writes in another can be switched off under a message, and *)
(* only a replay then takes the task for one without a message.            *)
(***************************************************************************)

\* A task that was never enqueued has left no trace, and no job looks at it.
Uncreated(t) ==
    created[t] = None =>
        /\ place[t] = "none" /\ rec[t] = None /\ ttl[t] = None
        /\ hold[t] = "none" /\ ~Lagging(t)
        /\ \A j \in Jobs : job[j].step # "idle" => job[j].task # t

Covered(t) ==
    /\ rec[t] = None => ttl[t] = None
    /\ rec[t] # None /\ ttl[t] # None => rec[t].outcome \in Terminal
    /\ place[t] # "none" => ttl[t] = None
    /\ place[t] # "none" /\ rec[t] # None /\ "repair" \notin Jobs => rec[t].op

FlagJobs == \A j \in Jobs : job[j].step = "flag" => j \in {"clean", "repair"}

CoverInv == TypeOK /\ FlagJobs /\ \A t \in Task : Uncreated(t) /\ Covered(t)

LEMMA CoverInit == Init => CoverInv
<1> SUFFICES ASSUME Init PROVE CoverInv
  OBVIOUS
<1>1. \A j \in Jobs : job[j].step = "idle"
  BY DEF Init, Idle
<1>2. \A t \in Task : Uncreated(t) /\ Covered(t)
  BY <1>1 DEF Init, Uncreated, Covered, Lagging
<1> QED
  BY <1>1, <1>2, TypeInit DEF CoverInv, FlagJobs

LEMMA FlagStep ==
    ASSUME TypeOK, FlagJobs, [Next]_vars
    PROVE  FlagJobs'
<1> SUFFICES ASSUME NEW j \in Jobs, job'[j].step = "flag", j \in {"archive", "delete"}
             PROVE  FALSE
  BY BoundsAssumption DEF FlagJobs
<1>1. job'[j] # job[j]
  BY DEF FlagJobs
<1>2. PICK u \in Task : JobStep(j, u)
  BY <1>1, JobMoves
<1>3. CASE j = "archive"
  BY <1>2, <1>3, ArchiveMoves, ReadMoves, ScanMoves
<1>4. CASE j = "delete"
  BY <1>2, <1>4, DeleteMoves
<1> QED
  BY <1>3, <1>4

LEMMA JobOfCreated ==
    ASSUME TypeOK, NEW j \in Jobs, NEW t \in Task, JobStep(j, t)
    PROVE  created[t] # None \/ (job[j].task = t /\ job[j].step # "idle")
<1>1. ASSUME NEW s \in Step \ {"idle"}, At(j, t, s)
      PROVE  job[j].task = t /\ job[j].step # "idle"
  BY <1>1 DEF At
<1>2. CASE Take(j, t)
  BY <1>2 DEF Take
<1>3. CASE Read(j, t) \/ SetFlag(j, t) \/ Unindex(j, t)
  BY <1>3 DEF Read, SetFlag, Unindex, At
<1>4. CASE \E k \in 1..4 : Scan(j, t, k)
  <2> PICK k \in 1..4 : Scan(j, t, k)
    BY <1>4
  <2>1. k = 1 \/ k = 2 \/ k = 3 \/ k = 4
    OBVIOUS
  <2> QED
    BY <2>1 DEF Scan, At
<1>5. CASE j = "delete" /\ \E k \in 1..4 : DeletePurges(t, k)
  <2> PICK k \in 1..4 : DeletePurges(t, k)
    BY <1>5
  <2>1. k = 1 \/ k = 2 \/ k = 3 \/ k = 4
    OBVIOUS
  <2> QED
    BY <1>5, <2>1 DEF DeletePurges, At
<1>6. CASE \/ j = "repair" /\ ReadAfterScan(t)
           \/ j = "clean" /\ CleanDrops(t)
           \/ j = "archive" /\ (Insert(t) \/ ArchiveDrops(t))
           \/ j = "delete" /\ (DeleteChecks(t) \/ DeleteRechecks(t) \/ DeleteDrops(t))
  BY <1>6 DEF ReadAfterScan, CleanDrops, Insert, ArchiveDrops, DeleteChecks,
     DeleteRechecks, DeleteDrops, At
<1> QED
  BY <1>2, <1>3, <1>4, <1>5, <1>6 DEF JobStep

LEMMA WriterOfCreated ==
    ASSUME TypeOK, NEW j \in Jobs, NEW t \in Task, JobWrites(j, t)
    PROVE  job[j].task = t /\ job[j].step # "idle"
<1>1. CASE j = "delete" /\ \E k \in 1..4 : DeletePurges(t, k)
  <2> PICK k \in 1..4 : DeletePurges(t, k)
    BY <1>1
  <2>1. k = 1 \/ k = 2 \/ k = 3 \/ k = 4
    OBVIOUS
  <2> QED
    BY <1>1, <2>1 DEF DeletePurges, At
<1> QED
  BY <1>1 DEF JobWrites, SetFlag, CleanDrops, ArchiveDrops, DeleteDrops, At

LEMMA UncreatedStep ==
    ASSUME TypeOK, \A u \in Task : Uncreated(u), [Next]_vars, NEW t \in Task
    PROVE  Uncreated(t)'
<1> SUFFICES ASSUME created'[t] = None PROVE Uncreated(t)'
  BY DEF Uncreated
<1>1. now # None
  BY NoneDistinct DEF TypeOK, Time
<1>2. Same(t) \/ Changes(t)
  BY TaskSteps
<1>3. ASSUME NEW v \in Task, Replay(v, t) PROVE FALSE
  BY <1>1, <1>3 DEF Replay, TypeOK
<1>4. ASSUME NEW v \in Task, Replay(t, v) PROVE created'[t] = created[t]
  BY <1>4 DEF Replay, TypeOK
<1>5. created[t] = None
  <2>1. ~Enqueue(t)
    BY <1>1 DEF Enqueue, TypeOK
  <2>2. ASSUME Script(t) PROVE created'[t] = created[t]
    BY <1>4, <2>1, <2>2 DEF Script, Pop, EnsureReads, EnsureWrites, Begin, LateReads,
       LateWrites, Settle, Crash, BackToReady, Purge, ClearTerminal, Lose, Expire, store
  <2>3. ASSUME NEW j \in Jobs, JobWrites(j, t) PROVE created' = created
    BY <2>3 DEF JobWrites, SetFlag, CleanDrops, ArchiveDrops, DeleteDrops, DeletePurges
  <2>4. DeleteQueue => created' = created
    BY DEF DeleteQueue
  <2> QED
    BY <1>2, <1>3, <2>2, <2>3, <2>4 DEF Changes, Same
<1>6. /\ place[t] = "none" /\ rec[t] = None /\ ttl[t] = None
      /\ hold[t] = "none" /\ ~Lagging(t)
      /\ \A j \in Jobs : job[j].step # "idle" => job[j].task # t
  BY <1>5 DEF Uncreated
<1>7. /\ place'[t] = "none" /\ rec'[t] = None /\ ttl'[t] = None
      /\ hold'[t] = "none" /\ ~Lagging(t)'
  <2>1. CASE Same(t)
    BY <1>6, <2>1 DEF Same
  <2>2. CASE DeleteQueue
    BY <1>6, <2>2, TakenFields DEF DeleteQueue, TypeOK
  <2>3. CASE ClearTerminal(t)
    BY <1>6, <2>3 DEF ClearTerminal, TypeOK, queue, Lagging
  <2>4. ASSUME Script(t) PROVE ClearTerminal(t)
    <3>1. ~Enqueue(t) /\ ~(\E v \in Task : Replay(t, v))
      BY <1>1, <1>6 DEF Enqueue, Replay, TypeOK
    <3> QED
      BY <1>6, <2>4, <3>1 DEF Script, Pop, EnsureReads, EnsureWrites, Begin, LateReads,
         LateWrites, Lagging, Settle, Crash, BackToReady, Purge, Purged, Lose, Expire
  <2>5. ASSUME NEW j \in Jobs, JobWrites(j, t) PROVE FALSE
    BY <1>6, <2>5, WriterOfCreated
  <2> QED
    BY <1>2, <1>3, <2>1, <2>2, <2>3, <2>4, <2>5 DEF Changes
<1>8. ASSUME NEW j \in Jobs, job'[j].step # "idle", job'[j].task = t PROVE FALSE
  BY <1>5, <1>6, <1>8, JobMoves, JobOfCreated
<1> QED
  BY <1>7, <1>8 DEF Uncreated

\* A task that ends, in any of the three ways, and one that is purged.
LEMMA CoveredEnds ==
    ASSUME TypeOK, NEW t \in Task, NEW op \in BOOLEAN, NEW outcome \in Terminal,
           Ends(t, outcome, op), ttl[t] = None \/ ~op
    PROVE  Covered(t)'
<1>1. /\ rec'[t] # None /\ rec'[t].outcome = outcome /\ rec'[t].op = op
      /\ ttl'[t] = IF op THEN ttl[t] ELSE now + HistoryTtl
      /\ place'[t] = IF op THEN "dlq" ELSE "none"
  BY EndsFields
<1>2. CASE op
  BY <1>1, <1>2 DEF Covered
<1>3. CASE ~op
  BY <1>1, <1>3 DEF Covered
<1> QED
  BY <1>2, <1>3

LEMMA CoveredScript ==
    ASSUME "repair" \notin Jobs \/ "replay" \notin Ops, CoverInv, NEW t \in Task, Script(t)
    PROVE  Covered(t)'
<1>1. TypeOK /\ Uncreated(t) /\ Covered(t)
  BY DEF CoverInv
<1>2. Fresh.op /\ Fresh # None
  BY NoneDistinct DEF Fresh
<1>3. CASE Enqueue(t)
  BY <1>1, <1>2, <1>3 DEF Enqueue, TypeOK, Uncreated, Covered
<1>4. CASE Pop(t)
  BY <1>1, <1>4 DEF Pop, TypeOK, Covered, store
<1>5. CASE EnsureReads(t)
  BY <1>1, <1>5 DEF EnsureReads, Covered, store
<1>6. CASE EnsureWrites(t)
  BY <1>1, <1>2, <1>6 DEF EnsureWrites, TypeOK, Covered
<1>7. CASE Begin(t)
  <2>1. CASE Ends(t, "skipped", FALSE)
    BY <1>1, <2>1, CoveredEnds DEF Terminal
  <2>2. CASE UNCHANGED <<place, rec, ttl>>
    BY <1>1, <2>2 DEF Covered
  <2> QED
    BY <1>7, <2>1, <2>2 DEF Begin
<1>8. CASE Settle(t)
  <2>1. CASE UNCHANGED <<place, rec, ttl>>
    BY <1>1, <2>1 DEF Covered
  <2>2. CASE place[t] = "processing"
    <3>1. ttl[t] = None
      BY <1>1, <2>2 DEF Covered
    <3>2. CASE Ends(t, "completed", FALSE)
      BY <1>1, <3>1, <3>2, CoveredEnds DEF Terminal
    <3>3. CASE Ends(t, "failed", TRUE)
      BY <1>1, <3>1, <3>3, CoveredEnds DEF Terminal
    <3>4. CASE place' = [place EXCEPT ![t] = "delay"] /\ UNCHANGED <<rec, ttl>>
      BY <1>1, <2>2, <3>4 DEF TypeOK, Covered
    <3> QED
      BY <1>8, <2>1, <3>2, <3>3, <3>4 DEF Settle
  <2> QED
    BY <1>8, <2>1, <2>2 DEF Settle
<1>9. CASE BackToReady(t)
  BY <1>1, <1>9 DEF BackToReady, TypeOK, Covered, store
<1>10. CASE Purge(t)
  BY <1>1, <1>10, PurgedFields DEF Purge, Covered
<1>11. CASE ClearTerminal(t)
  BY <1>1, <1>11 DEF ClearTerminal, TypeOK, Covered, queue
<1>12. CASE Lose(t)
  BY <1>1, <1>12 DEF Lose, TypeOK, Covered, queue
<1>13. CASE Expire(t)
  BY <1>1, <1>13 DEF Expire, TypeOK, Covered, queue
<1>14. CASE \E u \in Task : Replay(t, u)
  <2> PICK u \in Task : Replay(t, u)
    BY <1>14
  <2>1. rec'[t].outcome = rec[t].outcome /\ rec[t] # None /\ rec'[t] # None
    BY <1>1, ReplayedFields, NoneDistinct
  <2>2. rec[t].outcome \in Terminal /\ u # t
    BY DEF Replay, Terminal
  <2>3. place'[t] = "none"
    <3>1. place'[t] = (IF rec[t].op THEN "none" ELSE place[t]) /\ "replay" \in Ops
      BY <1>1, <2>2 DEF Replay, TypeOK
    <3> QED
      BY <1>1, <2>1, <3>1 DEF Covered
  <2> QED
    BY <2>1, <2>2, <2>3 DEF Covered
<1>15. CASE Crash(t) \/ LateReads(t)
  BY <1>1, <1>15 DEF Crash, LateReads, Covered, store
<1>16. CASE LateWrites(t)
  BY <1>1, <1>2, <1>16 DEF LateWrites, TypeOK, Covered
<1> QED
  BY <1>3, <1>4, <1>5, <1>6, <1>7, <1>8, <1>9, <1>10, <1>11, <1>12, <1>13, <1>14,
     <1>15, <1>16 DEF Script

LEMMA CoveredStep ==
    ASSUME "repair" \notin Jobs \/ "replay" \notin Ops, CoverInv, [Next]_vars, NEW t \in Task
    PROVE  Covered(t)'
<1>1. TypeOK /\ Uncreated(t) /\ Covered(t)
  BY DEF CoverInv
<1>2. CASE Same(t)
  BY <1>1, <1>2 DEF Same, Covered
<1>3. CASE DeleteQueue
  <2>1. /\ place'[t] = "none"
        /\ (rec'[t] = None /\ ttl'[t] = None) \/ (rec'[t] = rec[t] /\ ttl'[t] = ttl[t])
    BY <1>3 DEF DeleteQueue
  <2> QED
    BY <1>1, <2>1 DEF Covered
<1>4. CASE Script(t)
  BY <1>4, CoveredScript
<1>5. ASSUME NEW v \in Task, Replay(v, t) PROVE Covered(t)'
  <2>1. rec'[t] = Fresh /\ Fresh # None /\ Fresh.op
    BY <1>1, <1>5, ReplayedFields, NoneDistinct DEF Fresh
  <2>2. ttl[t] = None
    BY <1>1, <1>5 DEF Replay, Uncreated
  <2>3. ttl'[t] = ttl[t]
    BY <1>1, <1>5 DEF Replay, TypeOK
  <2> QED
    BY <2>1, <2>2, <2>3 DEF Covered
<1>6. ASSUME NEW j \in Jobs, JobWrites(j, t) PROVE Covered(t)'
  <2>1. CASE SetFlag(j, t)
    <3> DEFINE op == j = "clean" \/ job[j].found
    <3>1. op \in BOOLEAN /\ ("repair" \notin Jobs => op)
      BY <1>1, <2>1 DEF TypeOK, SetFlag, At, CoverInv, FlagJobs
    <3>2. rec'[t] = Flagged(t, op)
      BY <1>1, <2>1 DEF SetFlag, TypeOK
    <3> HIDE DEF op
    <3>3. /\ rec'[t] # None /\ ("repair" \notin Jobs => rec'[t].op)
          /\ rec[t] # None => rec'[t].outcome = rec[t].outcome
      BY <1>1, <3>1, <3>2, FlaggedFields, NoneDistinct
    <3>4. place' = place /\ ttl' = ttl
      BY <2>1 DEF SetFlag, queue
    <3> QED
      BY <1>1, <3>3, <3>4 DEF Covered
  <2>2. CASE CleanDrops(t)
    <3>1. \/ rec'[t] = None /\ ttl'[t] = None /\ place' = place
          \/ UNCHANGED <<rec, ttl, place>>
      BY <1>1, <2>2 DEF CleanDrops, TypeOK, queue
    <3> QED
      BY <1>1, <3>1 DEF Covered
  <2>3. CASE ArchiveDrops(t)
    BY <1>1, <2>3 DEF ArchiveDrops, TypeOK, queue, Covered
  <2>4. CASE DeleteDrops(t)
    BY <1>1, <2>4 DEF DeleteDrops, TypeOK, queue, Covered
  <2>5. CASE Purged(t)
    BY <1>1, <2>5, PurgedFields DEF Covered
  <2> QED
    BY <1>6, <2>1, <2>2, <2>3, <2>4, <2>5 DEF JobWrites
<1> QED
  BY <1>1, <1>2, <1>3, <1>4, <1>5, <1>6, TaskSteps DEF Changes

LEMMA CoverStep ==
    ASSUME "repair" \notin Jobs \/ "replay" \notin Ops
    PROVE  CoverInv /\ [Next]_vars => CoverInv'
<1> SUFFICES ASSUME CoverInv, [Next]_vars PROVE CoverInv'
  OBVIOUS
<1>1. \A t \in Task : Uncreated(t)' /\ Covered(t)'
  BY UncreatedStep, CoveredStep DEF CoverInv
<1> QED
  BY <1>1, TypeStep, FlagStep DEF CoverInv

LEMMA CoverHolds ==
    ASSUME "repair" \notin Jobs \/ "replay" \notin Ops
    PROVE  Spec => []CoverInv
<1> QED
  BY CoverInit, CoverStep, PTL DEF Spec

\* Only the record of a task that has ended, and has no message, may expire or be
\* cleaned: whatever clean_expired, the archiver, delete_task and the operators do,
\* with workers that recover, are slow, or find their record lost.
THEOREM RetentionStartsAtEndHolds ==
    ASSUME "repair" \notin Jobs \/ "replay" \notin Ops
    PROVE  Spec => []RetentionStartsAtEnd
<1>1. CoverInv => RetentionStartsAtEnd
  BY DEF CoverInv, Covered, RetentionStartsAtEnd
<1> QED
  BY <1>1, CoverHolds, PTL

-----------------------------------------------------------------------------
(***************************************************************************)
(* If Redis loses no record either, a message never goes without: a job    *)
(* that deletes a record has seen that its task has no message, and a task *)
(* without a message does not get one again.                               *)
(***************************************************************************)

Kept(t) == place[t] # "none" => rec[t] # None

Scanning == {"scan1", "scan2", "scan3", "scan4", "insert", "drop"}

\* The archiver looks for the message of a task, and delete_task drops its
\* record, when it has none.
Gone(t) ==
    /\ "archive" \in Jobs /\ job["archive"].task = t /\ job["archive"].step \in Scanning =>
          place[t] = "none"
    /\ "delete" \in Jobs /\ job["delete"].task = t /\ job["delete"].step = "drop" =>
          place[t] = "none"

KeepInv == CoverInv /\ \A t \in Task : Kept(t) /\ Gone(t)

LEMMA KeepInit == Init => KeepInv
<1> SUFFICES ASSUME Init PROVE KeepInv
  OBVIOUS
<1>1. \A t \in Task : Kept(t) /\ Gone(t)
  BY DEF Init, Idle, Kept, Gone, Scanning
<1> QED
  BY <1>1, CoverInit DEF KeepInv

\* The message of a task that has been enqueued does not come back.
LEMMA PlaceStays ==
    ASSUME TypeOK, [Next]_vars, NEW t \in Task, created[t] # None, place[t] = "none"
    PROVE  place'[t] = "none"
<1>1. CASE Same(t)
  BY <1>1 DEF Same
<1>2. CASE DeleteQueue
  BY <1>2 DEF DeleteQueue
<1>3. CASE Script(t)
  <2>1. ~Enqueue(t) /\ ~Pop(t) /\ ~BackToReady(t) /\ ~Purge(t)
    BY DEF Enqueue, Pop, BackToReady, Purge, Purged
  <2>2. Begin(t) \/ Settle(t) => place' = place
    BY DEF Begin, Settle, MayBegin
  <2>3. ASSUME NEW u \in Task, Replay(t, u) PROVE place'[t] = "none"
    BY <2>3 DEF Replay, TypeOK
  <2> QED
    BY <1>3, <2>1, <2>2, <2>3 DEF Script, EnsureReads, EnsureWrites, LateReads,
       LateWrites, Crash, ClearTerminal, Lose, Expire, queue
<1>4. ASSUME NEW v \in Task, Replay(v, t) PROVE place'[t] = "none"
  BY <1>4 DEF Replay
<1>5. ASSUME NEW j \in Jobs, JobWrites(j, t) PROVE place'[t] = "none"
  BY <1>5, PurgedFields DEF JobWrites, SetFlag, CleanDrops, ArchiveDrops, DeleteDrops, queue
<1> QED
  BY <1>1, <1>2, <1>3, <1>4, <1>5, TaskSteps DEF Changes

LEMMA GoneStep ==
    ASSUME "repair" \notin Jobs, KeepInv, [Next]_vars, NEW t \in Task
    PROVE  Gone(t)'
<1>1. TypeOK /\ Kept(t) /\ Gone(t) /\ Covered(t) /\ Uncreated(t)
  BY DEF KeepInv, CoverInv
<1>2. ASSUME "archive" \in Jobs, job'["archive"].task = t,
             job'["archive"].step \in Scanning
      PROVE  place'[t] = "none"
  <2>1. job'["archive"].step # "idle"
    BY <1>2 DEF Scanning
  <2>2. CASE job'["archive"] = job["archive"]
    <3>1. place[t] = "none" /\ created[t] # None
      BY <1>1, <1>2, <2>1, <2>2 DEF Gone, Uncreated
    <3> QED
      BY <1>1, <3>1, PlaceStays
  <2>3. CASE JobStep("archive", t)
    <3>1. CASE Read("archive", t)
      <4>1. UNCHANGED queue /\ rec[t] # None /\ ~rec[t].op
        BY <1>1, <1>2, <2>1, <3>1, ReadMoves DEF Scanning
      <4> QED
        BY <1>1, <4>1 DEF Covered, queue
    <3>2. CASE \E k \in 1..4 : Scan("archive", t, k)
      <4>1. UNCHANGED queue /\ job["archive"].task = t /\ job["archive"].step \in Scanning
        BY <1>1, <1>2, <2>1, <3>2, ScanMoves DEF Scanning
      <4> QED
        BY <1>1, <1>2, <4>1 DEF Gone, queue
    <3>3. CASE /\ Insert(t) /\ UNCHANGED <<queue, store>>
               /\ job["archive"].task = t /\ job["archive"].step = "insert"
      BY <1>1, <1>2, <3>3 DEF Gone, queue, Scanning
    <3>4. job'["archive"].step # "read"
      BY <1>2 DEF Scanning
    <3> QED
      BY <1>1, <1>2, <2>1, <2>3, <3>1, <3>2, <3>3, <3>4, ArchiveMoves
  <2> QED
    BY <1>1, <1>2, <2>1, <2>2, <2>3, JobMoves
<1>3. ASSUME "delete" \in Jobs, job'["delete"].task = t, job'["delete"].step = "drop"
      PROVE  place'[t] = "none"
  <2>1. CASE job'["delete"] = job["delete"]
    <3>1. place[t] = "none" /\ created[t] # None
      BY <1>1, <1>3, <2>1 DEF Gone, Uncreated
    <3> QED
      BY <1>1, <3>1, PlaceStays
  <2>2. CASE JobStep("delete", t)
    <3>1. UNCHANGED queue /\ (rec[t] = None \/ ~rec[t].op)
      BY <1>1, <1>3, <2>2, DeleteMoves
    <3> QED
      BY <1>1, <3>1 DEF Kept, Covered, queue
  <2> QED
    BY <1>1, <1>3, <2>1, <2>2, JobMoves
<1> QED
  BY <1>2, <1>3 DEF Gone

LEMMA KeptScript ==
    ASSUME "repair" \notin Jobs, "lose" \notin Ops, KeepInv, NEW t \in Task, Script(t)
    PROVE  Kept(t)'
<1>1. TypeOK /\ Kept(t) /\ Covered(t) /\ Fresh # None
  BY NoneDistinct DEF KeepInv, CoverInv
<1>2. CASE Enqueue(t)
  BY <1>1, <1>2 DEF Enqueue, TypeOK, Kept
<1>3. CASE Pop(t) \/ EnsureReads(t)
  BY <1>1, <1>3 DEF Pop, EnsureReads, TypeOK, Kept, store
<1>4. CASE EnsureWrites(t) \/ LateWrites(t)
  BY <1>1, <1>4 DEF EnsureWrites, LateWrites, TypeOK, Kept
<1>5. CASE Begin(t)
  <2>1. CASE Ends(t, "skipped", FALSE)
    BY <1>1, <2>1, EndsFields DEF Terminal, Kept
  <2>2. CASE UNCHANGED <<place, rec, ttl>>
    BY <1>1, <2>2 DEF Kept
  <2> QED
    BY <1>5, <2>1, <2>2 DEF Begin
<1>6. CASE Settle(t)
  <2>1. CASE Ends(t, "completed", FALSE)
    BY <1>1, <2>1, EndsFields DEF Terminal, Kept
  <2>2. CASE Ends(t, "failed", TRUE)
    BY <1>1, <2>2, EndsFields DEF Terminal, Kept
  <2>3. CASE place[t] = "processing" /\ rec' = rec
    BY <1>1, <2>3 DEF Kept
  <2>4. CASE UNCHANGED <<place, rec, ttl>>
    BY <1>1, <2>4 DEF Kept
  <2> QED
    BY <1>6, <2>1, <2>2, <2>3, <2>4 DEF Settle
<1>7. CASE BackToReady(t)
  BY <1>1, <1>7 DEF BackToReady, TypeOK, Kept, store
<1>8. CASE Purge(t)
  BY <1>1, <1>8, PurgedFields DEF Purge, Kept
<1>9. CASE ClearTerminal(t)
  <2>1. place[t] = "none"
    BY <1>1, <1>9 DEF ClearTerminal, Archivable, Kept, Covered
  <2> QED
    BY <1>9, <2>1 DEF ClearTerminal, Kept, queue
<1>10. CASE Expire(t)
  <2>1. place[t] = "none"
    BY <1>1, <1>10 DEF Expire, Covered
  <2> QED
    BY <1>10, <2>1 DEF Expire, Kept, queue
<1>11. CASE \E u \in Task : Replay(t, u)
  BY <1>1, <1>11, ReplayedFields, NoneDistinct DEF Kept
<1>12. CASE Crash(t) \/ LateReads(t)
  BY <1>1, <1>12 DEF Crash, LateReads, Kept, store
<1> QED
  BY <1>2, <1>3, <1>4, <1>5, <1>6, <1>7, <1>8, <1>9, <1>10, <1>11, <1>12 DEF Script, Lose

LEMMA KeptStep ==
    ASSUME "repair" \notin Jobs, "lose" \notin Ops, KeepInv, [Next]_vars, NEW t \in Task
    PROVE  Kept(t)'
<1>1. TypeOK /\ Kept(t) /\ Covered(t) /\ Gone(t)
  BY DEF KeepInv, CoverInv
<1>2. CASE Same(t)
  BY <1>1, <1>2 DEF Same, Kept
<1>3. CASE DeleteQueue
  BY <1>3 DEF DeleteQueue, Kept
<1>4. CASE Script(t)
  BY <1>4, KeptScript
<1>5. ASSUME NEW v \in Task, Replay(v, t) PROVE Kept(t)'
  BY <1>1, <1>5, ReplayedFields, NoneDistinct DEF Kept
<1>6. ASSUME NEW j \in Jobs, JobWrites(j, t) PROVE Kept(t)'
  <2>1. CASE SetFlag(j, t)
    <3>1. (j = "clean" \/ job[j].found) \in BOOLEAN
      BY <1>1 DEF TypeOK
    <3>2. Flagged(t, j = "clean" \/ job[j].found) # None
      BY <1>1, <3>1, FlaggedFields, NoneDistinct
    <3>3. rec'[t] = Flagged(t, j = "clean" \/ job[j].found)
      BY <1>1, <2>1 DEF SetFlag, TypeOK
    <3> QED
      BY <3>2, <3>3 DEF Kept
  <2>2. CASE CleanDrops(t)
    <3>1. rec' = rec \/ place[t] = "none"
      BY <1>1, <2>2 DEF CleanDrops, Archivable, Kept, Covered
    <3> QED
      BY <1>1, <2>2, <3>1 DEF CleanDrops, Kept, queue
  <2>3. CASE j = "archive" /\ ArchiveDrops(t)
    BY <1>1, <2>3 DEF ArchiveDrops, At, Gone, Scanning, Kept, queue
  <2>4. CASE j = "delete" /\ DeleteDrops(t)
    BY <1>1, <2>4 DEF DeleteDrops, At, Gone, Kept, queue
  <2>5. CASE Purged(t)
    BY <1>1, <2>5, PurgedFields DEF Kept
  <2> QED
    BY <1>6, <2>1, <2>2, <2>3, <2>4, <2>5 DEF JobWrites
<1> QED
  BY <1>1, <1>2, <1>3, <1>4, <1>5, <1>6, TaskSteps DEF Changes

LEMMA KeepStep ==
    ASSUME "repair" \notin Jobs, "lose" \notin Ops
    PROVE  KeepInv /\ [Next]_vars => KeepInv'
<1> SUFFICES ASSUME KeepInv, [Next]_vars PROVE KeepInv'
  OBVIOUS
<1>1. \A t \in Task : Kept(t)' /\ Gone(t)'
  BY KeptStep, GoneStep
<1> QED
  BY <1>1, CoverStep DEF KeepInv

\* No message without its record: between the reads and the writes of
\* clean_expired, the archiver and delete_task the messages and records move,
\* and what they delete then is the record of a task without a message.
THEOREM RecordWhileMessageHolds ==
    ASSUME "repair" \notin Jobs, "lose" \notin Ops
    PROVE  Spec => []RecordWhileMessage
<1>1. KeepInv => RecordWhileMessage
  BY DEF KeepInv, Kept, RecordWhileMessage
<1> QED
  BY <1>1, KeepInit, KeepStep, PTL DEF Spec

-----------------------------------------------------------------------------
(***************************************************************************)
(* With the archiver and delete_task alone, and no worker that goes on     *)
(* with a message it has lost, a record is exact, and stays as it is once  *)
(* its task has ended and lost its message.                                *)
(***************************************************************************)

Exact(t) == rec[t] # None => /\ rec[t].op => place[t] # "none"
                             /\ ~rec[t].bare /\ t \in index

\* A worker that has popped a message finds its record.
Finds(t) ==
    /\ hold[t] # "absent" /\ (hold[t] = "popped" => place[t] = "processing")
    /\ ~Lagging(t)

\* The entry of a task is removed from the index when it has no record.
Forgotten(t) ==
    \A j \in Jobs \cap {"archive", "delete"} :
        job[j].task = t /\ job[j].step = "unindex" => rec[t] = None /\ place[t] = "none"

ExactInv == KeepInv /\ \A t \in Task : Exact(t) /\ Finds(t) /\ Forgotten(t)

Exactly ==
    /\ Jobs \cap {"clean", "repair"} = {}
    /\ Ops \cap {"lose", "slow"} = {}

LEMMA ExactInit == Init => ExactInv
<1> SUFFICES ASSUME Init PROVE ExactInv
  OBVIOUS
<1>1. \A t \in Task : Exact(t) /\ Finds(t) /\ Forgotten(t)
  BY DEF Init, Idle, Exact, Finds, Lagging, Forgotten, Scanning
<1> QED
  BY <1>1, KeepInit DEF ExactInv

LEMMA NoFlagWrites ==
    ASSUME Exactly, ExactInv, NEW j \in Jobs, NEW t \in Task, JobWrites(j, t)
    PROVE  ~SetFlag(j, t)
BY BoundsAssumption DEF Exactly, ExactInv, KeepInv, CoverInv, FlagJobs, SetFlag, At

\* The record of a task without a message is deleted, or stays as it is.
LEMMA RecordStays ==
    ASSUME Exactly, ExactInv, [Next]_vars, NEW t \in Task,
           created[t] # None, place[t] = "none"
    PROVE  rec'[t] = None \/ rec'[t] = rec[t]
<1>1. TypeOK /\ Exact(t) /\ Finds(t) /\ Covered(t)
  BY DEF ExactInv, KeepInv, CoverInv
<1>2. CASE Same(t)
  BY <1>2 DEF Same
<1>3. CASE DeleteQueue
  BY <1>3 DEF DeleteQueue
<1>4. CASE Script(t)
  <2>1. ~Enqueue(t) /\ ~EnsureWrites(t) /\ ~LateWrites(t) /\ ~Purge(t) /\ ~Lose(t)
    BY <1>1 DEF Enqueue, EnsureWrites, LateWrites, Lagging, Purge, Purged, Lose, Finds
  <2>2. Begin(t) \/ Settle(t) => rec' = rec
    BY DEF Begin, Settle, MayBegin
  <2>3. ASSUME NEW u \in Task, Replay(t, u) PROVE rec'[t] = rec[t]
    <3>1. ~rec[t].op
      BY <1>1, <2>3, ReplayedFields, NoneDistinct DEF Exact
    <3> QED
      BY <1>1, <2>3, <3>1, ReplayedFields
  <2>4. ClearTerminal(t) \/ Expire(t) => rec'[t] = None
    BY <1>1 DEF ClearTerminal, Expire, TypeOK
  <2> QED
    BY <1>4, <2>1, <2>2, <2>3, <2>4 DEF Script, Pop, EnsureReads, LateReads, Crash,
       BackToReady, store
<1>5. ASSUME NEW v \in Task, Replay(v, t) PROVE FALSE
  BY <1>5 DEF Replay
<1>6. ASSUME NEW j \in Jobs, JobWrites(j, t) PROVE rec'[t] = None \/ rec'[t] = rec[t]
  <2>1. CASE CleanDrops(t) \/ ArchiveDrops(t) \/ DeleteDrops(t)
    BY <1>1, <2>1 DEF CleanDrops, ArchiveDrops, DeleteDrops, TypeOK
  <2>2. ~Purged(t)
    BY DEF Purged
  <2> QED
    BY <1>6, <2>1, <2>2, NoFlagWrites DEF JobWrites
<1> QED
  BY <1>1, <1>2, <1>3, <1>4, <1>5, <1>6, TaskSteps DEF Changes

LEMMA ForgottenStep ==
    ASSUME Exactly, ExactInv, [Next]_vars, NEW t \in Task
    PROVE  Forgotten(t)'
<1>1. TypeOK /\ Forgotten(t) /\ Gone(t) /\ Uncreated(t) /\ Kept(t)
  BY DEF ExactInv, KeepInv, CoverInv
<1> SUFFICES ASSUME NEW j \in Jobs \cap {"archive", "delete"},
                    job'[j].task = t, job'[j].step = "unindex"
             PROVE  rec'[t] = None /\ place'[t] = "none"
  BY DEF Forgotten
<1>2. CASE job'[j] = job[j]
  <2>1. created[t] # None /\ rec[t] = None /\ place[t] = "none"
    BY <1>1, <1>2 DEF Uncreated, Forgotten
  <2> QED
    BY <1>1, <2>1, PlaceStays, RecordStays
<1>3. CASE j = "archive" /\ JobStep("archive", t)
  <2>1. Read("archive", t)
    BY <1>1, <1>3, ArchiveMoves, ScanMoves
  <2>2. UNCHANGED <<queue, store>> /\ rec[t] = None
    BY <1>1, <1>3, <2>1, ReadMoves
  <2> QED
    BY <1>1, <2>2 DEF queue, store, Kept
<1>4. CASE j = "delete" /\ JobStep("delete", t)
  <2>1. UNCHANGED queue /\ rec'[t] = None /\ place[t] = "none"
    BY <1>1, <1>4, DeleteMoves DEF Gone
  <2> QED
    BY <2>1 DEF queue
<1> QED
  BY <1>1, <1>2, <1>3, <1>4, JobMoves

LEMMA FindsStep ==
    ASSUME Exactly, ExactInv, [Next]_vars, NEW t \in Task
    PROVE  Finds(t)'
<1>1. TypeOK /\ Finds(t) /\ Uncreated(t) /\ Kept(t) /\ Covered(t)
  BY DEF ExactInv, KeepInv, CoverInv
<1>2. CASE Same(t)
  BY <1>1, <1>2 DEF Same, Finds
<1>3. Untended(t) => hold[t] = "none"
  BY DEF Untended, Exactly
<1>4. CASE DeleteQueue
  BY <1>1, <1>3, <1>4, TakenFields DEF DeleteQueue, Finds
<1>5. CASE Purged(t)
  BY <1>1, <1>3, <1>5, PurgedFields DEF Purged, Finds
<1>6. CASE Script(t)
  <2>1. CASE Enqueue(t)
    BY <1>1, <2>1 DEF Enqueue, Uncreated, Finds, Lagging
  <2>2. CASE Pop(t)
    BY <1>1, <2>2 DEF Pop, TypeOK, Finds, Lagging
  <2>3. CASE EnsureReads(t)
    <3>1. rec[t] # None
      BY <1>1, <2>3 DEF EnsureReads, Finds, Kept
    <3> QED
      BY <1>1, <2>3, <3>1 DEF EnsureReads, TypeOK, Finds, Lagging
  <2>4. CASE EnsureWrites(t)
    BY <1>1, <2>4 DEF EnsureWrites, Finds
  <2>5. CASE Begin(t) \/ Settle(t) \/ Crash(t)
    <3>1. hold'[t] \in {"none", "running"} /\ late' = late
      BY <1>1, <2>5 DEF Begin, Settle, Crash, TypeOK
    <3> QED
      BY <1>1, <3>1 DEF Finds, Lagging
  <2>6. CASE BackToReady(t)
    BY <1>1, <1>3, <2>6, TakenFields DEF BackToReady, Finds
  <2>7. CASE Purge(t)
    BY <1>5, <2>7 DEF Purge
  <2>8. CASE \E u \in Task : Replay(t, u)
    <3> PICK u \in Task : Replay(t, u)
      BY <2>8
    <3>1. UNCHANGED <<hold, late>> /\ place[t] # "processing"
      BY <1>1, ReplayedFields, NoneDistinct DEF Replay, Covered, Exactly
    <3> QED
      BY <1>1, <3>1 DEF Finds, Lagging
  <2>9. CASE ClearTerminal(t) \/ Lose(t) \/ Expire(t)
    BY <1>1, <2>9 DEF ClearTerminal, Lose, Expire, queue, Finds, Lagging
  <2>10. ~LateReads(t) /\ ~LateWrites(t)
    BY <1>1 DEF LateReads, LateWrites, Finds, Lagging
  <2> QED
    BY <1>6, <2>1, <2>2, <2>3, <2>4, <2>5, <2>6, <2>7, <2>8, <2>9, <2>10 DEF Script
<1>7. ASSUME NEW v \in Task, Replay(v, t) PROVE Finds(t)'
  BY <1>1, <1>7 DEF Replay, Uncreated, Finds, Lagging
<1>8. ASSUME NEW j \in Jobs, JobWrites(j, t) PROVE Finds(t)'
  <2>1. CASE CleanDrops(t) \/ ArchiveDrops(t) \/ DeleteDrops(t)
    BY <1>1, <2>1 DEF CleanDrops, ArchiveDrops, DeleteDrops, queue, Finds, Lagging
  <2> QED
    BY <1>5, <1>8, <2>1, NoFlagWrites DEF JobWrites
<1> QED
  BY <1>1, <1>2, <1>4, <1>6, <1>7, <1>8, TaskSteps DEF Changes

\* Who takes the entry of a task out of the index.
LEMMA IndexSteps ==
    ASSUME TypeOK, [Next]_vars, NEW t \in Task, t \in index, t \notin index'
    PROVE  \/ ClearTerminal(t) \/ DeleteQueue
           \/ \E j \in Jobs : Unindex(j, t) \/ JobWrites(j, t)
<1>1. ASSUME NEW u \in Task, Script(u) PROVE ClearTerminal(t)
  BY <1>1 DEF Script, Enqueue, Pop, EnsureReads, EnsureWrites, Begin, LateReads,
     LateWrites, Settle, Crash, BackToReady, Purge, ClearTerminal, Lose, Expire, Replay,
     store
<1>2. ASSUME NEW u \in Task, NEW j \in Jobs, JobStep(j, u)
      PROVE  Unindex(j, t) \/ JobWrites(j, t)
  <2>1. CASE \E k \in 1..4 : Scan(j, u, k) \/ DeletePurges(u, k)
    BY <2>1 DEF Scan, DeletePurges, store
  <2>2. CASE \/ Unindex(j, u)
             \/ j = "clean" /\ CleanDrops(u)
             \/ j = "archive" /\ ArchiveDrops(u)
    <3>1. u = t
      BY <2>2 DEF Unindex, CleanDrops, ArchiveDrops
    <3> QED
      BY <2>2, <3>1 DEF JobWrites
  <2> QED
    BY <1>2, <2>1, <2>2 DEF JobStep, Take, Read, SetFlag, ReadAfterScan, Insert,
       DeleteChecks, DeleteRechecks, DeleteDrops, store
<1> QED
  BY <1>1, <1>2 DEF Next, Tick, Abandon, vars, store

LEMMA ExactScript ==
    ASSUME Exactly, ExactInv, NEW t \in Task, Script(t)
    PROVE  Exact(t)'
<1>1. TypeOK /\ Exact(t) /\ Finds(t) /\ Uncreated(t) /\ Kept(t) /\ Covered(t)
  BY DEF ExactInv, KeepInv, CoverInv
<1>2. ASSUME NEW op \in BOOLEAN, NEW outcome \in Terminal, Ends(t, outcome, op),
             rec[t] # None, index' = index
      PROVE  Exact(t)'
  <2>1. /\ rec'[t].op = op /\ rec'[t].bare = (rec[t] = None \/ rec[t].bare)
        /\ place'[t] = IF op THEN "dlq" ELSE "none"
    BY <1>1, <1>2, EndsFields
  <2>2. ~rec'[t].bare
    BY <1>1, <1>2, <2>1 DEF Exact
  <2>3. rec'[t].op => place'[t] # "none"
    BY <2>1
  <2>4. t \in index'
    BY <1>1, <1>2 DEF Exact
  <2> QED
    BY <2>2, <2>3, <2>4 DEF Exact
<1>3. CASE Enqueue(t)
  BY <1>1, <1>3 DEF Enqueue, TypeOK, Exact, Fresh
<1>4. CASE Pop(t)
  BY <1>1, <1>4 DEF Pop, TypeOK, Exact, store
<1>5. CASE EnsureReads(t)
  BY <1>1, <1>5 DEF EnsureReads, TypeOK, Exact, store
<1>6. CASE EnsureWrites(t)
  BY <1>1, <1>6 DEF EnsureWrites, Finds
<1>7. CASE Begin(t)
  <2>1. CASE MayBegin(t) /\ Ends(t, "skipped", FALSE)
    BY <1>2, <1>7, <2>1 DEF Begin, MayBegin, MayEnd, Terminal
  <2>2. CASE UNCHANGED <<place, rec, ttl>>
    BY <1>1, <1>7, <2>2 DEF Begin, Exact
  <2> QED
    BY <1>7, <2>1, <2>2 DEF Begin
<1>8. CASE Settle(t)
  <2>1. CASE UNCHANGED <<place, rec, ttl>>
    BY <1>1, <1>8, <2>1 DEF Settle, Exact
  <2>2. CASE place[t] = "processing"
    <3>1. rec[t] # None /\ index' = index
      BY <1>1, <1>8, <2>2 DEF Settle, Kept
    <3>2. CASE Ends(t, "completed", FALSE)
      BY <1>2, <3>1, <3>2 DEF Terminal
    <3>3. CASE Ends(t, "failed", TRUE)
      BY <1>2, <3>1, <3>3 DEF Terminal
    <3>4. CASE place' = [place EXCEPT ![t] = "delay"] /\ UNCHANGED <<rec, ttl>>
      BY <1>1, <3>1, <3>4 DEF TypeOK, Exact
    <3> QED
      BY <1>8, <2>1, <3>2, <3>3, <3>4 DEF Settle
  <2> QED
    BY <1>8, <2>1, <2>2 DEF Settle
<1>9. CASE BackToReady(t)
  BY <1>1, <1>9 DEF BackToReady, TypeOK, Exact, store
<1>10. CASE Purge(t)
  <2>1. rec[t] # None /\ index' = index
    BY <1>1, <1>10 DEF Purge, Purged, Kept
  <2>2. ~rec'[t].op /\ rec'[t].bare = rec[t].bare
    BY <1>1, <1>10, <2>1, PurgedFields DEF Purge
  <2> QED
    BY <1>1, <2>1, <2>2 DEF Exact
<1>11. CASE ClearTerminal(t)
  BY <1>1, <1>11 DEF ClearTerminal, TypeOK, Exact
<1>12. CASE Lose(t) \/ Expire(t)
  BY <1>1, <1>12 DEF Lose, Expire, TypeOK, Exact
<1>13. CASE \E u \in Task : Replay(t, u)
  <2> PICK u \in Task : Replay(t, u)
    BY <1>13
  <2>1. rec[t] # None /\ index \subseteq index'
    BY DEF Replay
  <2>2. rec'[t].op = FALSE /\ rec'[t].bare = FALSE
    BY <1>1, ReplayedFields
  <2> QED
    BY <1>1, <2>1, <2>2 DEF Exact
<1>14. CASE Crash(t)
  BY <1>1, <1>14 DEF Crash, Exact, store
<1>15. ~LateReads(t) /\ ~LateWrites(t)
  BY <1>1 DEF LateReads, LateWrites, Finds, Lagging
<1> QED
  BY <1>3, <1>4, <1>5, <1>6, <1>7, <1>8, <1>9, <1>10, <1>11, <1>12, <1>13, <1>14, <1>15
     DEF Script

LEMMA ExactStep ==
    ASSUME Exactly, ExactInv, [Next]_vars, NEW t \in Task
    PROVE  Exact(t)'
<1>1. TypeOK /\ Exact(t) /\ Forgotten(t) /\ Kept(t) /\ Covered(t)
  BY DEF ExactInv, KeepInv, CoverInv
<1>2. CASE DeleteQueue
  <2>1. rec'[t] = None \/ (rec'[t] = rec[t] /\ place[t] = "none" /\ t \notin index)
    BY <1>2 DEF DeleteQueue
  <2> QED
    BY <1>1, <2>1 DEF Exact
<1>3. CASE Script(t)
  BY <1>3, ExactScript
<1>4. ASSUME NEW v \in Task, Replay(v, t) PROVE Exact(t)'
  <2>1. rec'[t] = Fresh /\ place'[t] = "ready" /\ t \in index'
    <3>1. v # t /\ t \in index'
      BY <1>4 DEF Replay
    <3> QED
      BY <1>1, <1>4, <3>1, ReplayedFields DEF Replay, TypeOK
  <2> QED
    BY <2>1 DEF Exact, Fresh
<1>5. ASSUME NEW j \in Jobs, JobWrites(j, t) PROVE Exact(t)'
  <2>1. CASE j # "clean" /\ (ArchiveDrops(t) \/ DeleteDrops(t))
    BY <1>1, <2>1 DEF ArchiveDrops, DeleteDrops, TypeOK, Exact
  <2>2. j # "clean"
    BY DEF Exactly
  <2>3. CASE Purged(t) /\ \E k \in 1..4 : DeletePurges(t, k)
    <3>1. rec[t] # None /\ index' = index
      BY <1>1, <2>3 DEF DeletePurges, Purged, Kept
    <3>2. ~rec'[t].op /\ rec'[t].bare = rec[t].bare
      BY <1>1, <2>3, <3>1, PurgedFields
    <3> QED
      BY <1>1, <3>1, <3>2 DEF Exact
  <2> QED
    BY <1>5, <2>1, <2>2, <2>3, NoFlagWrites DEF JobWrites
<1>6. CASE Same(t) /\ ~Changes(t)
  <2>1. CASE t \in index /\ t \notin index'
    <3>1. PICK j \in Jobs : Unindex(j, t)
      BY <1>1, <1>6, <2>1, IndexSteps DEF Changes, Script
    <3>2. rec[t] = None
      <4>1. job[j].step = "unindex" /\ job[j].task = t
        BY <3>1 DEF Unindex, At
      <4>2. j = "archive" \/ j = "delete"
        BY BoundsAssumption DEF Exactly
      <4> QED
        BY <1>1, <4>1, <4>2 DEF Forgotten
    <3> QED
      BY <1>6, <3>2 DEF Same, Exact
  <2>2. CASE t \notin index \/ t \in index'
    BY <1>1, <1>6, <2>2 DEF Same, Exact
  <2> QED
    BY <2>1, <2>2
<1> QED
  BY <1>1, <1>2, <1>3, <1>4, <1>5, <1>6, TaskSteps DEF Changes

LEMMA ExactKept ==
    ASSUME Exactly PROVE ExactInv /\ [Next]_vars => ExactInv'
<1> SUFFICES ASSUME ExactInv, [Next]_vars PROVE ExactInv'
  OBVIOUS
<1>1. \A t \in Task : Exact(t)' /\ Finds(t)' /\ Forgotten(t)'
  BY ExactStep, FindsStep, ForgottenStep
<1>2. KeepInv'
  BY KeepStep DEF Exactly, ExactInv
<1> QED
  BY <1>1, <1>2 DEF ExactInv

LEMMA ExactHolds ==
    ASSUME Exactly PROVE Spec => []ExactInv
<1> QED
  BY ExactInit, ExactKept, PTL DEF Spec

\* A record says that its task has a message exactly when it has one, is whole
\* and is in the index, while the archiver and delete_task are cut off anywhere.
\* clean_expired and repair are left out: their HSET of the flag may come after
\* the record is gone.
THEOREM RecordExactHolds ==
    ASSUME Jobs \cap {"clean", "repair"} = {}, Ops \cap {"lose", "slow"} = {}
    PROVE  Spec => []RecordExact
<1>1. Exactly
  BY DEF Exactly
<1>2. ExactInv => RecordExact
  <2> SUFFICES ASSUME ExactInv, NEW t \in Task, rec[t] # None
               PROVE  (rec[t].op <=> place[t] # "none") /\ ~rec[t].bare /\ t \in index
    BY DEF RecordExact
  <2>1. Exact(t) /\ Covered(t) /\ rec[t] \in Record
    BY DEF ExactInv, KeepInv, CoverInv, TypeOK
  <2> QED
    BY <2>1 DEF Exact, Covered, Record
<1> QED
  BY <1>1, <1>2, ExactHolds, PTL

-----------------------------------------------------------------------------
(***************************************************************************)
(* A lost record is back before the attempt begins: from then on nothing   *)
(* deletes it, except who deletes what has no record as if it had ended.   *)
(***************************************************************************)

Waiting == {"ready", "processing", "delay"}

Restored(t) ==
    /\ hold[t] # "none" => place[t] = "processing"
    /\ hold[t] \in {"begin", "running"} => rec[t] # None
    /\ place[t] \in {"delay", "dlq"} => rec[t] # None
    /\ place[t] # "none" => ttl[t] = None
    /\ place[t] \in Waiting /\ rec[t] # None => rec[t].outcome = "none"
    /\ place[t] = "dlq" /\ "repair" \notin Jobs => rec[t].op

\* The archiver and clean_expired look for the message of a task that has ended,
\* and go on past the DLQ when it is not there.
Ending(j, t) ==
    job[j].task = t =>
        /\ job[j].step \in Scanning => place[t] \notin Waiting
        /\ job[j].step \in {"scan3", "scan4", "insert", "drop"} => place[t] = "none"

RestoreInv ==
    /\ TypeOK /\ FlagJobs
    /\ \A t \in Task : Uncreated(t) /\ Restored(t)
    /\ \A j \in Jobs \cap {"clean", "archive"}, t \in Task : Ending(j, t)

\* Who deletes a task that has no record is left out, and so is a replay of what
\* repair took for a task without a message.
Sparing ==
    /\ "delete" \notin Jobs /\ Ops \cap {"purge", "clear"} = {}
    /\ "repair" \notin Jobs \/ "replay" \notin Ops

LEMMA RestoreInit == Init => RestoreInv
<1> SUFFICES ASSUME Init PROVE RestoreInv
  OBVIOUS
<1>1. \A j \in Jobs : job[j].step = "idle"
  BY DEF Init, Idle
<1>2. \A t \in Task : Restored(t)
  BY DEF Init, Restored, Waiting
<1>3. \A j \in Jobs \cap {"clean", "archive"}, t \in Task : Ending(j, t)
  BY <1>1 DEF Ending, Scanning
<1> QED
  BY <1>2, <1>3, CoverInit DEF RestoreInv, CoverInv

\* A message that has left the containers where it waits does not go back.
LEMMA EndedStays ==
    ASSUME TypeOK, [Next]_vars, NEW t \in Task, created[t] # None,
           place[t] \notin Waiting
    PROVE  place'[t] \notin Waiting
<1>1. CASE place[t] = "none"
  BY <1>1, PlaceStays DEF Waiting
<1>2. CASE place[t] = "dlq"
  <2>1. CASE Same(t)
    BY <1>2, <2>1 DEF Same, Waiting
  <2>2. CASE DeleteQueue
    BY <2>2 DEF DeleteQueue, Waiting
  <2>3. CASE Script(t)
    <3>1. ~Enqueue(t) /\ ~Pop(t) /\ ~BackToReady(t)
      BY <1>2 DEF Enqueue, Pop, BackToReady
    <3>2. Begin(t) \/ Settle(t) => place' = place
      BY <1>2 DEF Begin, Settle, MayBegin
    <3>3. ASSUME NEW u \in Task, Replay(t, u) PROVE place'[t] \in {"none", "dlq"}
      BY <1>2, <3>3 DEF Replay, TypeOK
    <3>4. Purge(t) => place'[t] = "none"
      BY PurgedFields DEF Purge
    <3> QED
      BY <1>2, <2>3, <3>1, <3>2, <3>3, <3>4 DEF Script, EnsureReads, EnsureWrites,
         LateReads, LateWrites, Crash, ClearTerminal, Lose, Expire, queue, Waiting
  <2>4. ASSUME NEW v \in Task, Replay(v, t) PROVE FALSE
    BY <2>4 DEF Replay
  <2>5. ASSUME NEW j \in Jobs, JobWrites(j, t) PROVE place'[t] \in {"none", "dlq"}
    BY <1>2, <2>5, PurgedFields DEF JobWrites, SetFlag, CleanDrops, ArchiveDrops,
       DeleteDrops, queue
  <2> QED
    BY <2>1, <2>2, <2>3, <2>4, <2>5, TaskSteps DEF Changes, Waiting
<1> QED
  BY <1>1, <1>2 DEF TypeOK, Waiting

LEMMA EndingStep ==
    ASSUME RestoreInv, [Next]_vars, NEW j \in Jobs \cap {"clean", "archive"}, NEW t \in Task
    PROVE  Ending(j, t)'
<1>1. TypeOK /\ Ending(j, t) /\ Restored(t) /\ Uncreated(t)
  BY DEF RestoreInv
<1> SUFFICES ASSUME job'[j].task = t, job'[j].step \in Scanning
             PROVE  /\ place'[t] \notin Waiting
                    /\ job'[j].step \in {"scan3", "scan4", "insert", "drop"} =>
                          place'[t] = "none"
  BY DEF Ending, Scanning
<1>2. job'[j].step \notin {"idle", "read", "flag", "unindex"}
  BY DEF Scanning
<1>3. CASE job'[j] = job[j]
  <2>1. created[t] # None /\ place[t] \notin Waiting
    BY <1>1, <1>2, <1>3 DEF Uncreated, Ending
  <2>2. place[t] = "none" => place'[t] = "none"
    BY <1>1, <2>1, PlaceStays
  <2> QED
    BY <1>1, <1>3, <2>1, <2>2, EndedStays DEF Ending
<1>4. CASE Read(j, t)
  <2>1. /\ UNCHANGED queue /\ rec[t] # None /\ rec[t].outcome \in Terminal
        /\ job'[j].step = "scan1"
    BY <1>1, <1>2, <1>4, ReadMoves
  <2>2. rec[t].outcome # "none"
    BY <2>1 DEF Terminal
  <2> QED
    BY <1>1, <2>1, <2>2 DEF Restored, queue
<1>5. CASE \E k \in 1..4 : Scan(j, t, k)
  <2> PICK k \in 1..4 : Scan(j, t, k)
    BY <1>5
  <2>1. /\ UNCHANGED queue /\ job[j].task = t
        /\ job[j].step \in Scanning /\ place[t] \notin Waiting
    BY <1>1, <1>2, ScanMoves DEF Ending, Scanning
  <2>2. CASE job'[j].step = "scan2"
    BY <2>1, <2>2 DEF queue
  <2>3. CASE place[t] # "dlq"
    BY <1>1, <2>1, <2>3 DEF queue, TypeOK, Waiting
  <2>4. CASE job[j].step \in {"scan3", "scan4"}
    BY <1>1, <2>1, <2>4 DEF queue, Ending
  <2> QED
    BY <1>1, <1>2, <2>2, <2>3, <2>4, ScanMoves
<1>6. CASE j = "archive" /\ Insert(t) /\ job["archive"].task = t /\ job["archive"].step = "insert"
  BY <1>1, <1>6 DEF Insert, queue, Ending, Scanning
<1>7. CASE JobStep(j, t)
  <2>1. CASE j = "archive"
    BY <1>1, <1>2, <1>4, <1>5, <1>6, <1>7, <2>1, ArchiveMoves
  <2>2. CASE j = "clean"
    BY <1>1, <1>2, <1>4, <1>5, <1>7, <2>2, CleanMoves
  <2> QED
    BY <2>1, <2>2
<1> QED
  BY <1>1, <1>2, <1>3, <1>7, JobMoves

LEMMA RestoredScript ==
    ASSUME Sparing, RestoreInv, NEW t \in Task, Script(t)
    PROVE  Restored(t)'
<1>1. TypeOK /\ Restored(t) /\ Uncreated(t) /\ Fresh # None
  BY NoneDistinct DEF RestoreInv
<1>2. CASE Enqueue(t)
  <2>1. /\ place'[t] = "ready" /\ rec'[t] = Fresh /\ ttl'[t] = None /\ hold'[t] = "none"
    BY <1>1, <1>2 DEF Enqueue, Uncreated, TypeOK
  <2> QED
    BY <1>1, <2>1 DEF Restored, Fresh
<1>3. CASE Pop(t)
  BY <1>1, <1>3 DEF Pop, TypeOK, store, Restored, Waiting
<1>4. CASE EnsureReads(t)
  BY <1>1, <1>4 DEF EnsureReads, TypeOK, store, Restored
<1>5. CASE EnsureWrites(t)
  <2>1. /\ rec'[t] = Fresh /\ ttl'[t] = None /\ hold'[t] = "begin"
        /\ place' = place /\ place[t] = "processing"
    BY <1>1, <1>5 DEF EnsureWrites, TypeOK, Restored
  <2> QED
    BY <1>1, <2>1 DEF Restored, Fresh
<1>6. ASSUME NEW op \in BOOLEAN, NEW outcome \in Terminal, Ends(t, outcome, op),
             place[t] = "processing", hold'[t] = "none"
      PROVE  Restored(t)'
  <2>1. /\ rec'[t] # None /\ rec'[t].op = op
        /\ place'[t] = IF op THEN "dlq" ELSE "none"
        /\ ttl'[t] = IF op THEN ttl[t] ELSE now + HistoryTtl
    BY <1>1, <1>6, EndsFields
  <2>2. ttl[t] = None
    BY <1>1, <1>6 DEF Restored
  <2>3. CASE op
    BY <1>6, <2>1, <2>2, <2>3 DEF Restored, Waiting
  <2>4. CASE ~op
    BY <1>6, <2>1, <2>4 DEF Restored, Waiting
  <2> QED
    BY <2>3, <2>4
<1>7. CASE Begin(t)
  <2>1. CASE MayBegin(t) /\ Ends(t, "skipped", FALSE) /\ hold'[t] = "none"
    BY <1>6, <2>1 DEF MayBegin, Terminal
  <2>2. CASE UNCHANGED <<place, rec, ttl>> /\ hold'[t] \in {"none", "running"}
    BY <1>1, <1>7, <2>2 DEF Begin, Restored
  <2> QED
    BY <1>1, <1>7, <2>1, <2>2 DEF Begin, TypeOK
<1>8. CASE Settle(t)
  <2>1. hold[t] = "running" /\ hold'[t] = "none"
    BY <1>1, <1>8 DEF Settle, TypeOK
  <2>2. CASE UNCHANGED <<place, rec, ttl>>
    BY <1>1, <2>1, <2>2 DEF Restored
  <2>3. CASE place[t] = "processing"
    <3>1. CASE Ends(t, "completed", FALSE)
      BY <1>6, <2>1, <2>3, <3>1 DEF Terminal
    <3>2. CASE Ends(t, "failed", TRUE)
      BY <1>6, <2>1, <2>3, <3>2 DEF Terminal
    <3>3. CASE place' = [place EXCEPT ![t] = "delay"] /\ UNCHANGED <<rec, ttl>>
      BY <1>1, <2>1, <2>3, <3>3 DEF TypeOK, Restored, Waiting
    <3> QED
      BY <1>8, <2>2, <3>1, <3>2, <3>3 DEF Settle
  <2> QED
    BY <1>8, <2>2, <2>3 DEF Settle
<1>9. CASE BackToReady(t)
  <2>1. place'[t] = "ready" /\ hold'[t] = "none"
    BY <1>1, <1>9, TakenFields DEF BackToReady, TypeOK
  <2> QED
    BY <1>1, <1>9, <2>1 DEF BackToReady, store, Restored, Waiting
<1>10. CASE Lose(t)
  <2>1. /\ place[t] = "ready" /\ hold[t] = "none" /\ UNCHANGED <<place, hold>>
        /\ rec'[t] = None /\ ttl'[t] = None
    BY <1>1, <1>10 DEF Lose, TypeOK, Restored, queue
  <2> QED
    BY <2>1 DEF Restored
<1>11. CASE Expire(t)
  <2>1. place[t] = "none" /\ hold[t] = "none" /\ UNCHANGED <<place, hold>>
    BY <1>1, <1>11 DEF Expire, Restored, queue
  <2> QED
    BY <2>1 DEF Restored, Waiting
<1>12. CASE \E u \in Task : Replay(t, u)
  <2> PICK u \in Task : Replay(t, u)
    BY <1>12
  <2>1. rec[t] # None /\ rec[t].outcome # "none" /\ u # t /\ "replay" \in Ops
    BY DEF Replay
  <2>2. place[t] \notin Waiting /\ hold[t] = "none"
    BY <1>1, <2>1 DEF Restored, Waiting
  <2>3. place[t] = "dlq" => rec[t].op
    BY <1>1, <2>1 DEF Restored, Sparing
  <2>4. place'[t] = IF rec[t].op THEN "none" ELSE place[t]
    BY <1>1, <2>1 DEF Replay, TypeOK
  <2>5. place'[t] = "none" /\ hold'[t] = "none"
    BY <1>1, <2>2, <2>3, <2>4 DEF Replay, TypeOK, Waiting
  <2> QED
    BY <2>5 DEF Restored, Waiting
<1>13. ~Purge(t) /\ ~ClearTerminal(t)
  BY DEF Sparing, Purge, ClearTerminal
<1>14. CASE Crash(t)
  <2>1. hold'[t] = "none" /\ UNCHANGED <<place, rec, ttl>>
    BY <1>1, <1>14 DEF Crash, TypeOK, store
  <2> QED
    BY <1>1, <2>1 DEF Restored
<1>15. CASE LateReads(t)
  BY <1>1, <1>15 DEF LateReads, store, Restored
<1>16. CASE LateWrites(t)
  <2>1. rec'[t] = Fresh /\ ttl'[t] = None /\ UNCHANGED <<place, hold>>
    BY <1>1, <1>16 DEF LateWrites, TypeOK
  <2> QED
    BY <1>1, <2>1 DEF Restored, Fresh
<1> QED
  BY <1>2, <1>3, <1>4, <1>5, <1>7, <1>8, <1>9, <1>10, <1>11, <1>12, <1>13, <1>14,
     <1>15, <1>16 DEF Script

LEMMA RestoredStep ==
    ASSUME Sparing, RestoreInv, [Next]_vars, NEW t \in Task
    PROVE  Restored(t)'
<1>1. TypeOK /\ Restored(t) /\ Uncreated(t) /\ Fresh # None
  BY NoneDistinct DEF RestoreInv
<1>2. CASE Same(t)
  BY <1>1, <1>2 DEF Same, Restored
<1>3. CASE DeleteQueue
  <2>1. hold'[t] = "none" /\ place'[t] = "none"
    BY <1>1, <1>3, TakenFields DEF DeleteQueue
  <2> QED
    BY <2>1 DEF Restored, Waiting
<1>4. CASE Script(t)
  BY <1>4, RestoredScript
<1>5. ASSUME NEW v \in Task, Replay(v, t) PROVE Restored(t)'
  <2>1. rec'[t] = Fresh
    BY <1>1, <1>5, ReplayedFields
  <2>2. place'[t] = "ready" /\ ttl'[t] = None /\ hold'[t] = "none"
    BY <1>1, <1>5 DEF Replay, TypeOK, Uncreated
  <2> QED
    BY <1>1, <2>1, <2>2 DEF Restored, Fresh
<1>6. ASSUME NEW j \in Jobs, JobWrites(j, t) PROVE Restored(t)'
  <2>1. CASE SetFlag(j, t)
    <3> DEFINE op == j = "clean" \/ job[j].found
    <3>1. op \in BOOLEAN /\ ("repair" \notin Jobs => op)
      BY <1>1, <2>1 DEF TypeOK, SetFlag, At, RestoreInv, FlagJobs
    <3>2. rec'[t] = Flagged(t, op) /\ place' = place /\ ttl' = ttl /\ hold' = hold
      BY <1>1, <2>1 DEF SetFlag, TypeOK, queue
    <3> HIDE DEF op
    <3>3. /\ rec'[t] # None /\ ("repair" \notin Jobs => rec'[t].op)
          /\ rec[t] # None => rec'[t].outcome = rec[t].outcome
          /\ rec[t] = None => rec'[t].outcome = "none"
      BY <1>1, <3>1, <3>2, FlaggedFields, NoneDistinct
    <3> QED
      BY <1>1, <3>2, <3>3 DEF Restored
  <2>2. CASE (j = "clean" /\ CleanDrops(t)) \/ (j = "archive" /\ ArchiveDrops(t))
    <3>1. job[j].task = t /\ job[j].step = "drop" /\ UNCHANGED queue
      BY <2>2 DEF CleanDrops, ArchiveDrops, At
    <3>2. Ending(j, t)
      BY <2>2 DEF RestoreInv
    <3>3. place[t] = "none" /\ hold[t] = "none"
      BY <1>1, <3>1, <3>2 DEF Ending, Restored
    <3> QED
      BY <3>1, <3>3 DEF Restored, Waiting, queue
  <2>3. j # "delete"
    BY DEF Sparing
  <2> QED
    BY <1>6, <2>1, <2>2, <2>3 DEF JobWrites
<1> QED
  BY <1>1, <1>2, <1>3, <1>4, <1>5, <1>6, TaskSteps DEF Changes

LEMMA RestoreStep ==
    ASSUME Sparing PROVE RestoreInv /\ [Next]_vars => RestoreInv'
<1> SUFFICES ASSUME RestoreInv, [Next]_vars PROVE RestoreInv'
  OBVIOUS
<1>1. \A t \in Task : Uncreated(t)' /\ Restored(t)'
  BY UncreatedStep, RestoredStep DEF RestoreInv
<1>2. \A j \in Jobs \cap {"clean", "archive"}, t \in Task : Ending(j, t)'
  BY EndingStep
<1> QED
  BY <1>1, <1>2, TypeStep, FlagStep DEF RestoreInv

\* A record that Redis loses under a waiting message is written again before the
\* attempt begins, and is there when the message reaches the delay set or the DLQ,
\* although the archiver, clean_expired and the repair of flags work on its task
\* and the worker may have lost the message.
THEOREM RecordRestoredHolds ==
    ASSUME "delete" \notin Jobs, Ops \cap {"purge", "clear"} = {},
           "repair" \notin Jobs \/ "replay" \notin Ops
    PROVE  Spec => []RecordRestored
<1>1. Sparing
  BY DEF Sparing
<1>2. RestoreInv => RecordRestored
  BY DEF RestoreInv, Restored, RecordRestored
<1> QED
  BY <1>1, <1>2, RestoreInit, RestoreStep, PTL DEF Spec

-----------------------------------------------------------------------------
(***************************************************************************)
(* The archiver and a task that has ended: with every job, and records     *)
(* lost, nobody writes its record again but a worker that goes on with a   *)
(* message it has lost before it looked for the record.                    *)
(***************************************************************************)

\* A message waits only for a task that has not ended, and who has popped it and
\* not found its record yet still has it.
Unended(t) ==
    /\ place[t] \in Waiting /\ rec[t] # None => rec[t].outcome = "none"
    /\ hold[t] \in {"popped", "absent"} => place[t] = "processing"
    /\ ~Lagging(t)

\* The record says how and when the task ended, as r does.
AsIn(r, t) ==
    /\ r.outcome \in Terminal
    /\ rec[t] # None /\ ~rec[t].bare =>
          rec[t].outcome = r.outcome /\ rec[t].finished = r.finished

AsRead(t) == AsIn(job["archive"].read, t)

Copied(t) ==
    "archive" \in Jobs /\ job["archive"].task = t =>
        /\ job["archive"].step \in Scanning =>
              place[t] \notin Waiting /\ AsRead(t)
        /\ job["archive"].step = "drop" => archive[t] = job["archive"].read

CopyInv == TypeOK /\ \A t \in Task : Uncreated(t) /\ Unended(t) /\ Copied(t)

LEMMA CopyInit == Init => CopyInv
<1> SUFFICES ASSUME Init PROVE CopyInv
  OBVIOUS
<1>1. \A j \in Jobs : job[j].step = "idle"
  BY DEF Init, Idle
<1>2. \A t \in Task : Unended(t) /\ Copied(t)
  BY <1>1 DEF Init, Unended, Lagging, Waiting, Copied, Scanning
<1> QED
  BY <1>2, CoverInit DEF CopyInv, CoverInv

\* Without slow workers a message is taken only from nobody's hand.
LEMMA UnendedTaken ==
    ASSUME "slow" \notin Ops, TypeOK, NEW t \in Task, Unended(t), Untended(t),
           NEW gone \in SUBSET Task, t \in gone, TakenFrom(gone)
    PROVE  hold'[t] = "none" /\ ~Lagging(t)'
BY TakenFields DEF Unended, Untended

LEMMA UnendedPurged ==
    ASSUME "slow" \notin Ops, TypeOK, NEW t \in Task, Unended(t), Purged(t)
    PROVE  Unended(t)'
<1>1. place'[t] = "none" /\ hold'[t] = "none" /\ ~Lagging(t)'
  <2>1. {t} \in SUBSET Task /\ t \in {t} /\ Untended(t) /\ TakenFrom({t})
    BY DEF Purged
  <2>2. hold'[t] = "none" /\ ~Lagging(t)'
    BY <2>1, UnendedTaken
  <2> QED
    BY <2>2, PurgedFields
<1> QED
  BY <1>1 DEF Unended, Waiting

LEMMA UnendedScript ==
    ASSUME "slow" \notin Ops, TypeOK, NEW t \in Task, Uncreated(t), Unended(t), Script(t)
    PROVE  Unended(t)'
<1> USE DEF Lagging
<1>1. CASE Enqueue(t)
  BY <1>1 DEF Enqueue, Uncreated, TypeOK, Unended, Fresh
<1>2. CASE Pop(t)
  BY <1>2 DEF Pop, TypeOK, store, Unended, Waiting
<1>3. CASE EnsureReads(t)
  BY <1>3 DEF EnsureReads, TypeOK, store, Unended
<1>4. CASE EnsureWrites(t)
  <2>1. rec'[t] = Fresh /\ hold'[t] = "begin" /\ late' = late
    BY <1>4 DEF EnsureWrites, TypeOK
  <2> QED
    BY <2>1 DEF Unended, Fresh
<1>5. ASSUME NEW op \in BOOLEAN, NEW outcome \in Terminal, Ends(t, outcome, op),
             hold'[t] = "none", late' = late
      PROVE  Unended(t)'
  <2>1. place'[t] \in {"none", "dlq"}
    BY <1>5, EndsFields
  <2> QED
    BY <1>5, <2>1 DEF Unended, Waiting
<1>6. CASE Begin(t)
  <2>1. hold'[t] \in {"none", "running"} /\ late' = late
    BY <1>6 DEF Begin, TypeOK
  <2>2. CASE Ends(t, "skipped", FALSE) /\ hold'[t] = "none"
    BY <1>5, <2>1, <2>2 DEF Terminal
  <2>3. CASE UNCHANGED <<place, rec, ttl>>
    BY <2>1, <2>3 DEF Unended
  <2> QED
    BY <1>6, <2>2, <2>3 DEF Begin, TypeOK
<1>7. CASE Settle(t)
  <2>1. hold'[t] = "none" /\ late' = late
    BY <1>7 DEF Settle, TypeOK
  <2>2. CASE UNCHANGED <<place, rec, ttl>>
    BY <2>1, <2>2 DEF Unended
  <2>3. CASE place[t] = "processing" /\ place' = [place EXCEPT ![t] = "delay"] /\ UNCHANGED <<rec, ttl>>
    BY <2>1, <2>3 DEF Unended, Waiting
  <2>4. CASE Ends(t, "completed", FALSE)
    BY <1>5, <2>1, <2>4 DEF Terminal
  <2>5. CASE Ends(t, "failed", TRUE)
    BY <1>5, <2>1, <2>5 DEF Terminal
  <2> QED
    BY <1>7, <2>2, <2>3, <2>4, <2>5 DEF Settle
<1>8. CASE BackToReady(t)
  <2>1. TakenFrom({t}) /\ Untended(t) /\ place[t] \in Waiting /\ rec' = rec
    BY <1>8 DEF BackToReady, store, Waiting
  <2>2. hold'[t] = "none" /\ ~Lagging(t)'
    BY <2>1, UnendedTaken
  <2> QED
    BY <2>1, <2>2 DEF Unended
<1>9. CASE Purge(t)
  BY <1>9, UnendedPurged DEF Purge
<1>10. CASE ClearTerminal(t) \/ Lose(t) \/ Expire(t)
  <2>1. rec'[t] = None /\ UNCHANGED <<place, hold, late>>
    BY <1>10 DEF ClearTerminal, Lose, Expire, queue, TypeOK
  <2> QED
    BY <2>1 DEF Unended
<1>11. CASE \E u \in Task : Replay(t, u)
  <2> PICK u \in Task : Replay(t, u)
    BY <1>11
  <2>1. place[t] \notin Waiting
    BY DEF Replay, Unended
  <2>2. place'[t] \notin Waiting /\ UNCHANGED <<hold, late>>
    BY <2>1 DEF Replay, TypeOK, Waiting
  <2> QED
    BY <2>1, <2>2 DEF Unended, Waiting
<1>12. CASE Crash(t)
  <2>1. hold'[t] = "none" /\ UNCHANGED <<place, late, rec>>
    BY <1>12 DEF Crash, TypeOK, store
  <2> QED
    BY <2>1 DEF Unended
<1>13. ~LateReads(t) /\ ~LateWrites(t)
  BY DEF LateReads, LateWrites, Unended
<1> QED
  BY <1>1, <1>2, <1>3, <1>4, <1>6, <1>7, <1>8, <1>9, <1>10, <1>11, <1>12, <1>13 DEF Script

LEMMA UnendedStep ==
    ASSUME "slow" \notin Ops, CopyInv, [Next]_vars, NEW t \in Task
    PROVE  Unended(t)'
<1>1. TypeOK /\ Uncreated(t) /\ Unended(t)
  BY DEF CopyInv
<1>2. CASE Same(t)
  BY <1>1, <1>2 DEF Same, Unended
<1>3. CASE DeleteQueue
  <2>1. place'[t] = "none" /\ Untended(t) /\ TakenFrom(Task)
    BY <1>3 DEF DeleteQueue
  <2>2. hold'[t] = "none" /\ ~Lagging(t)'
    BY <1>1, <2>1, UnendedTaken
  <2> QED
    BY <2>1, <2>2 DEF Unended, Waiting
<1>4. CASE Script(t)
  BY <1>1, <1>4, UnendedScript
<1>5. ASSUME NEW v \in Task, Replay(v, t) PROVE Unended(t)'
  <2>1. rec'[t] = Fresh /\ hold'[t] = "none" /\ late' = late
    BY <1>1, <1>5, ReplayedFields DEF Replay, Uncreated
  <2> QED
    BY <1>1, <2>1 DEF Unended, Lagging, Fresh
<1>6. ASSUME NEW j \in Jobs, JobWrites(j, t) PROVE Unended(t)'
  <2>1. CASE SetFlag(j, t)
    <3> DEFINE op == j = "clean" \/ job[j].found
    <3>1. op \in BOOLEAN
      BY <1>1, <2>1 DEF TypeOK, SetFlag, At
    <3>2. rec'[t] = Flagged(t, op) /\ UNCHANGED <<place, hold, late>>
      BY <1>1, <2>1 DEF SetFlag, TypeOK, queue
    <3> HIDE DEF op
    <3>3. /\ rec[t] # None => rec'[t].outcome = rec[t].outcome
          /\ rec[t] = None => rec'[t].outcome = "none"
      BY <1>1, <3>1, <3>2, FlaggedFields
    <3> QED
      BY <1>1, <3>2, <3>3 DEF Unended, Lagging
  <2>2. CASE CleanDrops(t) \/ ArchiveDrops(t) \/ DeleteDrops(t)
    <3>1. (rec'[t] = None \/ rec'[t] = rec[t]) /\ UNCHANGED <<place, hold, late>>
      BY <1>1, <2>2 DEF CleanDrops, ArchiveDrops, DeleteDrops, TypeOK, queue
    <3> QED
      BY <1>1, <3>1 DEF Unended, Lagging
  <2>3. CASE Purged(t)
    BY <1>1, <2>3, UnendedPurged
  <2> QED
    BY <1>6, <2>1, <2>2, <2>3 DEF JobWrites
<1> QED
  BY <1>1, <1>2, <1>3, <1>4, <1>5, <1>6, TaskSteps DEF Changes

\* How a task ended stays in its record for as long as there is one.
LEMMA EndRemains ==
    ASSUME CopyInv, [Next]_vars, NEW t \in Task, NEW r, created[t] # None,
           place[t] \notin Waiting, AsIn(r, t)
    PROVE  AsIn(r, t)'
<1>1. TypeOK /\ Unended(t)
  BY DEF CopyInv
<1>2. CASE Same(t)
  BY <1>2 DEF Same, AsIn
<1>3. CASE DeleteQueue
  BY <1>3 DEF DeleteQueue, AsIn
<1>4. CASE Purged(t)
  <2>1. /\ rec[t] = None => rec'[t] = None
        /\ rec[t] # None => rec'[t].bare = rec[t].bare
        /\ rec[t] # None /\ rec[t].outcome \in Terminal =>
              rec'[t].outcome = rec[t].outcome /\ rec'[t].finished = rec[t].finished
    BY <1>1, <1>4, PurgedFields
  <2> QED
    BY <2>1 DEF AsIn
<1>5. CASE Script(t)
  <2>1. ~Enqueue(t) /\ ~EnsureWrites(t) /\ ~LateWrites(t) /\ ~Pop(t) /\ ~BackToReady(t)
    BY <1>1 DEF Enqueue, EnsureWrites, LateWrites, Lagging, Pop, BackToReady, Unended,
       Waiting
  <2>2. Begin(t) \/ Settle(t) => rec' = rec
    BY DEF Begin, Settle, MayBegin, Waiting
  <2>3. ASSUME NEW u \in Task, Replay(t, u)
        PROVE  /\ rec[t] # None /\ ~rec[t].bare
               /\ rec'[t].outcome = rec[t].outcome /\ rec'[t].finished = rec[t].finished
    BY <1>1, <2>3, ReplayedFields DEF Replay
  <2>4. CASE \E u \in Task : Replay(t, u)
    BY <2>3, <2>4 DEF AsIn
  <2>5. ClearTerminal(t) \/ Lose(t) \/ Expire(t) => rec'[t] = None
    BY <1>1 DEF ClearTerminal, Lose, Expire, TypeOK
  <2> QED
    BY <1>4, <1>5, <2>1, <2>2, <2>4, <2>5 DEF Script, EnsureReads, LateReads, Crash,
       Purge, store, AsIn
<1>6. ASSUME NEW v \in Task, Replay(v, t) PROVE FALSE
  BY <1>6 DEF Replay
<1>7. ASSUME NEW j \in Jobs, JobWrites(j, t) PROVE AsIn(r, t)'
  <2>1. CASE SetFlag(j, t)
    <3> DEFINE op == j = "clean" \/ job[j].found
    <3>1. op \in BOOLEAN
      BY <1>1, <2>1 DEF TypeOK, SetFlag, At
    <3>2. rec'[t] = Flagged(t, op)
      BY <1>1, <2>1 DEF SetFlag, TypeOK
    <3> HIDE DEF op
    <3>3. /\ rec[t] = None => rec'[t].bare
          /\ rec[t] # None =>
                /\ rec'[t].outcome = rec[t].outcome /\ rec'[t].finished = rec[t].finished
                /\ rec'[t].bare = rec[t].bare
      BY <1>1, <3>1, <3>2, FlaggedFields
    <3> QED
      BY <3>3 DEF AsIn
  <2>2. CASE CleanDrops(t) \/ ArchiveDrops(t) \/ DeleteDrops(t)
    <3>1. rec'[t] = None \/ rec'[t] = rec[t]
      BY <1>1, <2>2 DEF CleanDrops, ArchiveDrops, DeleteDrops, TypeOK
    <3> QED
      BY <3>1 DEF AsIn
  <2> QED
    BY <1>4, <1>7, <2>1, <2>2 DEF JobWrites
<1> QED
  BY <1>1, <1>2, <1>3, <1>5, <1>6, <1>7, TaskSteps DEF Changes

LEMMA ArchiveSame ==
    ASSUME TypeOK, [Next]_vars, "archive" \in Jobs, job["archive"].step = "drop"
    PROVE  archive' = archive
<1>1. ASSUME NEW u \in Task, NEW j \in Jobs, JobStep(j, u) PROVE archive' = archive
  <2>1. ~Insert(u)
    BY DEF Insert, At
  <2>2. CASE \E k \in 1..4 : Scan(j, u, k) \/ DeletePurges(u, k)
    BY <2>2 DEF Scan, DeletePurges
  <2> QED
    BY <1>1, <2>1, <2>2 DEF JobStep, Take, Read, SetFlag, Unindex, ReadAfterScan,
       CleanDrops, ArchiveDrops, DeleteChecks, DeleteRechecks, DeleteDrops
<1>2. ASSUME NEW u \in Task, Script(u) PROVE archive' = archive
  BY <1>2 DEF Script, Enqueue, Pop, EnsureReads, EnsureWrites, Begin, LateReads,
     LateWrites, Settle, Crash, BackToReady, Purge, ClearTerminal, Lose, Expire, Replay
<1> QED
  BY <1>1, <1>2 DEF Next, Tick, DeleteQueue, Abandon, vars

LEMMA CopiedStep ==
    ASSUME "archive" \in Jobs, CopyInv, [Next]_vars, NEW t \in Task
    PROVE  Copied(t)'
<1>1. TypeOK /\ Uncreated(t) /\ Unended(t) /\ Copied(t)
  BY DEF CopyInv
<1> SUFFICES ASSUME job'["archive"].task = t, job'["archive"].step \in Scanning
             PROVE  /\ place'[t] \notin Waiting /\ AsRead(t)'
                    /\ job'["archive"].step = "drop" => archive'[t] = job'["archive"].read
  BY DEF Copied, Scanning
<1>2. job'["archive"].step \notin {"idle", "read", "unindex", "flag"}
  BY DEF Scanning
<1>3. CASE job'["archive"] = job["archive"]
  <2>1. created[t] # None
    BY <1>1, <1>2, <1>3 DEF Uncreated
  <2> PICK r : r = job["archive"].read
    OBVIOUS
  <2>2. /\ place[t] \notin Waiting /\ AsIn(r, t)
        /\ job["archive"].step = "drop" => archive[t] = job["archive"].read
    BY <1>1, <1>3 DEF Copied, AsRead
  <2>3. place'[t] \notin Waiting
    BY <1>1, <2>1, <2>2, EndedStays
  <2>4. AsIn(r, t)'
    BY <1>1, <2>1, <2>2, EndRemains
  <2>5. job["archive"].step = "drop" => archive' = archive
    BY <1>1, ArchiveSame
  <2> QED
    BY <1>3, <2>2, <2>3, <2>4, <2>5 DEF AsRead, AsIn
<1>4. CASE JobStep("archive", t)
  <2>1. CASE Read("archive", t)
    <3>1. /\ UNCHANGED <<queue, store>> /\ rec[t] # None
          /\ rec[t].outcome \in Terminal
          /\ job'["archive"].step = "scan1" /\ job'["archive"].read = rec[t]
      BY <1>1, <1>2, <2>1, ReadMoves
    <3>2. place[t] \notin Waiting
      BY <1>1, <3>1 DEF Unended, Terminal
    <3> QED
      BY <3>1, <3>2 DEF AsRead, AsIn, queue, store
  <2>2. CASE \E k \in 1..4 : Scan("archive", t, k)
    <3>1. /\ UNCHANGED <<queue, store>> /\ job'["archive"].read = job["archive"].read
          /\ job["archive"].task = t /\ job["archive"].step \in Scanning
          /\ job'["archive"].step # "drop"
      BY <1>1, <1>2, <2>2, ScanMoves DEF Scanning
    <3> QED
      BY <1>1, <3>1 DEF Copied, AsRead, AsIn, queue, store
  <2>3. CASE /\ Insert(t) /\ UNCHANGED <<queue, store>>
             /\ job["archive"].task = t /\ job["archive"].step = "insert"
             /\ job'["archive"].step = "drop"
             /\ job'["archive"].read = job["archive"].read
    <3>1. archive'[t] = job["archive"].read
      BY <1>1, <2>3 DEF Insert, TypeOK
    <3> QED
      BY <1>1, <2>3, <3>1 DEF Copied, AsRead, AsIn, Scanning, queue, store
  <2> QED
    BY <1>1, <1>2, <1>4, <2>1, <2>2, <2>3, ArchiveMoves
<1> QED
  BY <1>1, <1>2, <1>3, <1>4, JobMoves

LEMMA CopyStep ==
    ASSUME "archive" \in Jobs, "slow" \notin Ops
    PROVE  CopyInv /\ [Next]_vars => CopyInv'
<1> SUFFICES ASSUME CopyInv, [Next]_vars PROVE CopyInv'
  OBVIOUS
<1>1. \A t \in Task : Uncreated(t)' /\ Unended(t)' /\ Copied(t)'
  BY UncreatedStep, UnendedStep, CopiedStep DEF CopyInv
<1> QED
  BY <1>1, TypeStep DEF CopyInv

\* The archiver deletes a record only when SQLite has the outcome and the time at
\* which the task ended, however much later than its INSERT it does so, whatever
\* the other jobs delete or flag and Redis loses meanwhile.
THEOREM ArchivedBeforeDroppedHolds ==
    ASSUME "archive" \in Jobs, "slow" \notin Ops
    PROVE  Spec => ArchivedBeforeDropped
<1>1. ASSUME CopyInv, NEW t \in Task, ArchiveDrops(t), rec[t] # None, ~rec[t].bare
      PROVE  archive[t] # None /\ archive[t].outcome = rec[t].outcome
                               /\ archive[t].finished = rec[t].finished
  <2>1. job["archive"].task = t /\ job["archive"].step = "drop"
    BY <1>1 DEF ArchiveDrops, At
  <2>2. TypeOK /\ Copied(t)
    BY <1>1 DEF CopyInv
  <2>3. archive[t] = job["archive"].read /\ AsRead(t)
    BY <2>1, <2>2 DEF Copied, Scanning
  <2>4. job["archive"].read # None
    BY <2>1, <2>2 DEF TypeOK
  <2> QED
    BY <1>1, <2>3, <2>4 DEF AsRead, AsIn
<1>2. CopyInv /\ [Next]_vars =>
          [\A t \in Task : ArchiveDrops(t) /\ rec[t] # None /\ ~rec[t].bare =>
              archive[t] # None /\ archive[t].outcome = rec[t].outcome
                                /\ archive[t].finished = rec[t].finished]_vars
  BY <1>1
<1> QED
  BY <1>2, CopyInit, CopyStep, PTL DEF Spec, ArchivedBeforeDropped
=============================================================================
