------------------------- MODULE TaskIndexesProofs -------------------------
(***************************************************************************)
(* What is kept beside the messages and must agree with them: the          *)
(* operational_message flag, the start-deadline index and the retry_wait   *)
(* gauge.  Each script is first reduced to the record it writes; a step of *)
(* the queue is one of these scripts, or leaves what Redis holds alone.    *)
(***************************************************************************)
EXTENDS TaskQueueProofs

\* BRPOPLPUSH into the list of w.
Takes(w, m) ==
    /\ box' = Moved("ready", m, w, m)
    /\ UNCHANGED <<rec, owner, latest, lease, deadlines, retryWait>>

\* The scripts a worker runs on the message in its hand.
BeginStep(w, m) ==
    /\ pc[w] = "popped" /\ pc'[w] # "popped"
    /\ \/ BeginEnds(w, m) \/ BeginFailsBudget(w, m) \/ BeginDefers(w, m)
       \/ \E tok \in Token : Fresh(tok) /\ BeginStarts(w, m, tok)

SettleStep(w, m) ==
    \/ /\ pc[w] \in {"claimed", "running"}
       /\ \/ FailTask(w, m)
          \/ \E runAt \in Time : RetrySkips(w, m, runAt) \/ RetrySchedules(w, m, runAt)
    \/ pc[w] = "running" /\ CompleteTask(w, m)
    \/ /\ pc[w] = "claimed" /\ pc'[w] # "claimed" /\ w \in stop
       /\ ReturnUnstartedClaim(w, m)

\* Every change of what Redis holds about tasks.
TaskStep ==
    \/ \E t \in Task, s \in Submitted, allowNew \in BOOLEAN : EnqueueV2(t, s, allowNew)
    \/ \E w \in Worker : /\ pc[w] = "pop" /\ pc'[w] # "pop"
                          /\ \E m \in box["ready"] : Takes(w, m)
    \/ \E w \in Worker : \E m \in hand[w] : BeginStep(w, m) \/ SettleStep(w, m)
    \/ \E w \in Worker : pc[w] = "recover" /\ \E m \in box[w] : RecoverAbandonedClaim(w, m)
    \/ \E v \in Worker : \E m \in box[v] : MoveToReady(v, m)
    \/ MoveDueDelay
    \/ \E m \in box["delay"] : MoveDelayMessage(m)
    \/ \E p \in Place, release \in BOOLEAN : \E m \in box[p] : CancelOrPurge(p, m, release)
    \/ \E t, u \in Task, d \in Time \cup {None} : Replay(t, u, d)
    \/ "requeue" \in Admin /\ \E t \in Task : RequeueUpdate(t)
    \/ \E k \in Key : OwnerExpires(k)
    \/ \E c \in Conc : LeaseExpires(c)

-----------------------------------------------------------------------------
\* No handler, thread or operator writes to Redis by other means.

LEMMA FailStep ==
    ASSUME NEW w \in Worker, NEW m \in hand[w], NEW permanent \in BOOLEAN,
           pc[w] \in {"claimed", "running"}, Fail(w, m, permanent)
    PROVE  SettleStep(w, m) \/ UNCHANGED taskVars
BY DEF Fail, SettleStep, NotOwned

LEMMA ClaimStep ==
    ASSUME LocalTypes, NEW w \in Worker,
           \/ PayloadFails(w) \/ PayloadFailLost(w) \/ ReturnUnstarted(w)
           \/ Finish(w) \/ FinishLost(w)
    PROVE  (\E m \in hand[w] : SettleStep(w, m)) \/ UNCHANGED taskVars
<1>1. CASE PayloadFails(w)
  BY <1>1, FailStep DEF PayloadFails
<1>2. CASE PayloadFailLost(w)
  BY <1>2, FailStep DEF PayloadFailLost
<1>3. CASE ReturnUnstarted(w)
  BY <1>3 DEF ReturnUnstarted, SettleStep, BackToPoll, Goto, LocalTypes
<1>4. CASE Finish(w) \/ FinishLost(w)
  <2>1. pc[w] = "running" /\ Settle(w)
    BY <1>4 DEF Finish, FinishLost
  <2>2. PICK m \in hand[w] :
           CompleteTask(w, m) \/ \E permanent \in BOOLEAN : Fail(w, m, permanent)
    BY <2>1 DEF Settle
  <2>3. CompleteTask(w, m) => SettleStep(w, m)
    BY <2>1 DEF SettleStep
  <2> QED
    BY <2>1, <2>2, <2>3, FailStep
<1> QED
  BY <1>1, <1>2, <1>3, <1>4

LEMMA WorkerTaskStep ==
    ASSUME LocalTypes, NEW w \in Worker, WorkerStep(w)
    PROVE  TaskStep \/ UNCHANGED taskVars
<1>1. CASE \/ Start(w) \/ Ready(w) \/ HeartbeatLoop(w) \/ Stop(w) \/ Exit(w)
           \/ Poll(w) \/ PopNone(w) \/ PollRaises(w) \/ Admit(w)
           \/ ReturnRaises(w) \/ FinishAbandoned(w)
  <2>1. UNCHANGED taskVars
    BY <1>1 DEF Start, Ready, HeartbeatLoop, Stop, Exit, Poll, PopNone, PollRaises,
       Admit, ReturnRaises, FinishAbandoned
  <2> QED
    BY <2>1
<1>2. CASE Pop(w) \/ PopLost(w)
  <2>1. pc[w] = "pop" /\ pc'[w] # "pop" /\ \E m \in box["ready"] : Takes(w, m)
    BY <1>2 DEF Pop, PopLost, Takes, BackToPoll, Goto, LocalTypes
  <2> QED
    BY <2>1 DEF TaskStep
<1>3. CASE BeginOther(w) \/ Begin(w) \/ BeginLost(w)
  <2>1. pc[w] = "popped" /\ pc'[w] # "popped"
    BY <1>3 DEF BeginOther, Begin, BeginLost, BackToPoll, Goto, LocalTypes
  <2>2. PICK m \in hand[w] :
           \/ BeginEnds(w, m) \/ BeginFailsBudget(w, m) \/ BeginDefers(w, m)
           \/ BeginIgnores(w, m)
           \/ \E tok \in Token : Fresh(tok) /\ BeginStarts(w, m, tok)
    BY <1>3 DEF BeginOther, Begin, BeginLost
  <2>3. BeginStep(w, m) \/ UNCHANGED taskVars
    BY <2>1, <2>2 DEF BeginStep, BeginIgnores
  <2> QED
    BY <2>3 DEF TaskStep
<1>4. CASE \/ PayloadFails(w) \/ PayloadFailLost(w) \/ ReturnUnstarted(w)
           \/ Finish(w) \/ FinishLost(w)
  BY <1>4, ClaimStep DEF TaskStep
<1>5. CASE RecoverAbandoned(w)
  BY <1>5 DEF RecoverAbandoned, TaskStep
<1>6. CASE MoveRetry(w)
  BY <1>6 DEF MoveRetry, TaskStep
<1>7. CASE \E v \in Worker : RecoverStale(w, v)
  BY <1>7 DEF RecoverStale, TaskStep
<1> QED
  BY <1>1, <1>2, <1>3, <1>4, <1>5, <1>6, <1>7 DEF WorkerStep, Progress, Upset

\* Only an operator who requeues sets the flag by hand.
NoOddUpdate == "requeue" \notin Admin => requeueing = {}

LEMMA EveryStep ==
    ASSUME LocalTypes, NoOddUpdate, [Next]_vars
    PROVE  TaskStep \/ UNCHANGED taskVars
<1>1. CASE Producer
  BY <1>1 DEF Producer, Enqueue, TaskStep
<1>2. CASE \E w \in Worker : WorkerStep(w)
  BY <1>2, WorkerTaskStep
<1>3. CASE AdminStep
  <2>1. CASE \E p \in Place, release \in BOOLEAN : Purge(p, release)
    BY <2>1 DEF Purge, TaskStep
  <2>2. CASE \E t, u \in Task, d \in Time \cup {None} : Replay(t, u, d)
    BY <2>2 DEF TaskStep
  <2>3. CASE \E v \in Worker : ForceRecover(v)
    BY <2>3 DEF ForceRecover, TaskStep
  <2>4. CASE Requeue
    BY <2>4 DEF Requeue, TaskStep
  <2>5. CASE \E t \in Task : RequeueUpdate(t)
    BY <2>5 DEF RequeueUpdate, NoOddUpdate, TaskStep
  <2>6. CASE \E w \in Worker : Prune(w)
    BY <2>6 DEF Prune
  <2> QED
    BY <1>3, <2>1, <2>2, <2>3, <2>4, <2>5, <2>6 DEF AdminStep
<1>4. CASE Environment
  <2>1. CASE Tick \/ \E w \in Worker : HeartbeatExpires(w) \/ Crash(w)
    BY <2>1 DEF Tick, HeartbeatExpires, Crash
  <2>2. CASE (\E k \in Key : OwnerExpires(k)) \/ \E c \in Conc : LeaseExpires(c)
    BY <2>2 DEF TaskStep
  <2> QED
    BY <1>4, <2>1, <2>2 DEF Environment
<1>5. CASE UNCHANGED vars
  BY <1>5 DEF vars
<1> QED
  BY <1>1, <1>2, <1>3, <1>4, <1>5 DEF Next

-----------------------------------------------------------------------------
\* The record each script writes.

\* The record of t is rewritten, but for its spec and its override.
Writes(t, outcome, location, op, attempt, claim) ==
    /\ \A u \in Task \ {t} : rec'[u] = rec[u]
    /\ rec'[t].spec = rec[t].spec /\ rec'[t].override = rec[t].override
    /\ rec'[t].outcome = outcome /\ rec'[t].location = location
    /\ rec'[t].op = op
    /\ rec'[t].attempt = attempt /\ rec'[t].claim = claim

LEMMA EndedWrites ==
    ASSUME TaskTypes, NEW t \in Task, NEW outcome, NEW op \in BOOLEAN,
           rec' = Ended(t, outcome, op)
    PROVE  Writes(t, outcome, IF op THEN "dlq" ELSE "history", op,
                  rec[t].attempt, rec[t].claim)
<1> DEFINE new == [rec[t] EXCEPT !.outcome = outcome, !.op = op,
                                !.location = IF op THEN "dlq" ELSE "history"]
<1>1. rec[t] \in Record
  BY DEF TaskTypes
<1>2. /\ new.spec = rec[t].spec
      /\ new.outcome = outcome
      /\ new.attempt = rec[t].attempt
      /\ new.location = IF op THEN "dlq" ELSE "history"
      /\ new.op = op
      /\ new.claim = rec[t].claim
      /\ new.override = rec[t].override
  BY <1>1 DEF Record
<1>3. rec' = [rec EXCEPT ![t] = new]
  BY DEF Ended
<1> HIDE DEF new
<1> QED
  BY <1>2, <1>3 DEF TaskTypes, Writes

LEMMA RelocatedWrites ==
    ASSUME TaskTypes, NEW t \in Task, NEW location, rec' = Relocated(t, location)
    PROVE  Writes(t, rec[t].outcome, location, rec[t].op, rec[t].attempt, rec[t].claim)
<1> DEFINE new == [rec[t] EXCEPT !.location = location]
<1>1. rec[t] \in Record
  BY DEF TaskTypes
<1>2. /\ new.spec = rec[t].spec
      /\ new.outcome = rec[t].outcome
      /\ new.attempt = rec[t].attempt
      /\ new.location = location
      /\ new.op = rec[t].op
      /\ new.claim = rec[t].claim
      /\ new.override = rec[t].override
  BY <1>1 DEF Record
<1>3. rec' = [rec EXCEPT ![t] = new]
  BY DEF Relocated
<1> HIDE DEF new
<1> QED
  BY <1>2, <1>3 DEF TaskTypes, Writes

LEMMA StartsWrites ==
    ASSUME TaskTypes, NEW w \in Worker, NEW m, m.task \in Task, NEW tok,
           BeginStarts(w, m, tok)
    PROVE  Writes(m.task, rec[m.task].outcome, "processing", rec[m.task].op,
                  rec[m.task].attempt + 1, tok)
<1> DEFINE t == m.task
           new == [rec[t] EXCEPT !.attempt = rec[t].attempt + 1, !.claim = tok,
                                 !.location = "processing"]
<1>1. rec[t] \in Record
  BY DEF TaskTypes
<1>2. /\ new.spec = rec[t].spec
      /\ new.outcome = rec[t].outcome
      /\ new.attempt = rec[t].attempt + 1
      /\ new.location = "processing"
      /\ new.op = rec[t].op
      /\ new.claim = tok
      /\ new.override = rec[t].override
  BY <1>1 DEF Record
<1>3. rec' = [rec EXCEPT ![t] = new]
  BY DEF BeginStarts
<1> HIDE DEF new
<1> QED
  BY <1>2, <1>3 DEF TaskTypes, Writes

LEMMA SchedulesWrites ==
    ASSUME TaskTypes, NEW w \in Worker, NEW m, m.task \in Task, NEW runAt,
           RetrySchedules(w, m, runAt)
    PROVE  Writes(m.task, rec[m.task].outcome, "delay", TRUE,
                  rec[m.task].attempt, rec[m.task].claim)
<1> DEFINE t == m.task
           new == [rec[t] EXCEPT !.location = "delay", !.op = TRUE]
<1>1. rec[t] \in Record
  BY DEF TaskTypes
<1>2. /\ new.spec = rec[t].spec
      /\ new.outcome = rec[t].outcome
      /\ new.attempt = rec[t].attempt
      /\ new.location = "delay"
      /\ new.op = TRUE
      /\ new.claim = rec[t].claim
      /\ new.override = rec[t].override
  BY <1>1 DEF Record
<1>3. rec' = [rec EXCEPT ![t] = new]
  BY DEF RetrySchedules
<1> HIDE DEF new
<1> QED
  BY <1>2, <1>3 DEF TaskTypes, Writes

LEMMA ReturnsWrites ==
    ASSUME TaskTypes, NEW w \in Worker, NEW m, m.task \in Task,
           ReturnUnstartedClaim(w, m)
    PROVE  Writes(m.task, rec[m.task].outcome, "ready", rec[m.task].op,
                  rec[m.task].attempt - 1, rec[m.task].claim)
<1> DEFINE t == m.task
           new == [rec[t] EXCEPT !.attempt = m.attempt - 1, !.location = "ready"]
<1>1. rec[t] \in Record /\ rec[t].attempt = m.attempt
  BY DEF TaskTypes, ReturnUnstartedClaim, Returnable
<1>2. /\ new.spec = rec[t].spec
      /\ new.outcome = rec[t].outcome
      /\ new.attempt = rec[t].attempt - 1
      /\ new.location = "ready"
      /\ new.op = rec[t].op
      /\ new.claim = rec[t].claim
      /\ new.override = rec[t].override
  BY <1>1 DEF Record
<1>3. rec' = [rec EXCEPT ![t] = new]
  BY DEF ReturnUnstartedClaim
<1> HIDE DEF new
<1> QED
  BY <1>2, <1>3 DEF TaskTypes, Writes

LEMMA RecoversWrites ==
    ASSUME TaskTypes, NEW w \in Worker, NEW m, m.task \in Task, Live(m.task),
           RecoverAbandonedClaim(w, m)
    PROVE  Writes(m.task, "live", "ready", rec[m.task].op,
                  rec[m.task].attempt - (IF Refundable(w, m) THEN 1 ELSE 0),
                  rec[m.task].claim)
<1> DEFINE t == m.task
           given == IF Refundable(w, m) THEN 1 ELSE 0
           new == [rec[t] EXCEPT !.location = "ready", !.attempt = rec[t].attempt - given]
<1>1. rec[t] \in Record /\ rec[t].outcome = "live"
  BY DEF TaskTypes, Live
<1>2. rec' = [rec EXCEPT ![t] = new]
  BY <1>1 DEF RecoverAbandonedClaim
<1> HIDE DEF given
<1>3. /\ new.spec = rec[t].spec
      /\ new.outcome = "live"
      /\ new.attempt = rec[t].attempt - given
      /\ new.location = "ready"
      /\ new.op = rec[t].op
      /\ new.claim = rec[t].claim
      /\ new.override = rec[t].override
  BY <1>1 DEF Record
<1> HIDE DEF new
<1>4. Writes(t, "live", "ready", rec[t].op, rec[t].attempt - given, rec[t].claim)
  BY <1>2, <1>3 DEF TaskTypes, Writes
<1> QED
  BY <1>4 DEF given

-----------------------------------------------------------------------------
\* Which tasks have a message, and how many retries wait, after one message
\* has been moved, removed or added.

HasMessage(t) == \E p \in Place : \E m \in box[p] : m.task = t

Retries == {m \in box["delay"] : m.reason = "retry"}

Waits(p, m) == p = "delay" /\ m.reason = "retry"

Counted(p, m) == IF Waits(p, m) THEN 1 ELSE 0

LEMMA DelayPlace == "delay" \in Place /\ "ready" \in Place /\ "dlq" \in Place
BY DEF Place, Container

LEMMA MovedHolds ==
    ASSUME TaskInv,
           NEW p \in Place, NEW q \in Place, NEW m \in box[p], NEW n,
           n.task = m.task, box' = Moved(p, m, q, n)
    PROVE  /\ n \in box'[q]
           /\ \A r \in Place : \A x \in box[r] : x.task # m.task => x \in box'[r]
           /\ \A r \in Place : \A x \in box'[r] :
                 (x = n /\ r = q) \/ (x \in box[r] /\ x.task # m.task)
           /\ \A t \in Task : HasMessage(t)' <=> HasMessage(t)
<1>1. n \in box'[q]
  BY DEF TaskInv, TaskTypes, Moved
<1>2. \A r \in Place : \A x \in box[r] : x.task # m.task => x \in box'[r]
  BY DEF TaskInv, TaskTypes, Moved
<1>3. \A r \in Place : \A x \in box'[r] :
         (x = n /\ r = q) \/ (x \in box[r] /\ x.task # m.task)
  <2>1. \A r \in Place : \A x \in box'[r] :
           (x = n /\ r = q) \/ (x \in box[r] /\ ~(r = p /\ x = m))
    BY DEF TaskInv, TaskTypes, Moved
  <2> QED
    BY <2>1 DEF TaskInv, OneMessage
<1>4. \A t \in Task : HasMessage(t)' <=> HasMessage(t)
  BY <1>1, <1>2, <1>3 DEF HasMessage
<1> QED
  BY <1>1, <1>2, <1>3, <1>4

LEMMA RemovedHolds ==
    ASSUME TaskInv, NEW p \in Place, NEW m \in box[p], box' = Removed(p, m)
    PROVE  /\ \A r \in Place : \A x \in box[r] : x.task # m.task => x \in box'[r]
           /\ \A r \in Place : \A x \in box'[r] : x \in box[r] /\ x.task # m.task
           /\ \A t \in Task : HasMessage(t)' <=> HasMessage(t) /\ t # m.task
<1>1. \A r \in Place : \A x \in box[r] : x.task # m.task => x \in box'[r]
  BY DEF TaskInv, TaskTypes, Removed
<1>2. \A r \in Place : \A x \in box'[r] : x \in box[r] /\ x.task # m.task
  <2>1. \A r \in Place : \A x \in box'[r] : x \in box[r] /\ ~(r = p /\ x = m)
    BY DEF TaskInv, TaskTypes, Removed
  <2> QED
    BY <2>1 DEF TaskInv, OneMessage
<1>3. \A t \in Task : HasMessage(t)' <=> HasMessage(t) /\ t # m.task
  BY <1>1, <1>2 DEF HasMessage
<1> QED
  BY <1>1, <1>2, <1>3

LEMMA RetriesFinite ==
    ASSUME TaskInv
    PROVE  IsFiniteSet(Retries) /\ Cardinality(Retries) \in Nat
<1>1. IsFiniteSet(Retries)
  BY DelayPlace, FS_Subset DEF TaskInv, BoxFinite, Retries
<1> QED
  BY <1>1, FS_CardinalityType

LEMMA RemovedRetries ==
    ASSUME TaskInv, NEW p \in Place, NEW m \in box[p], box' = Removed(p, m)
    PROVE  /\ Cardinality(Retries') = Cardinality(Retries) - Counted(p, m)
           /\ Cardinality(Retries) >= Counted(p, m)
<1>1. CASE Waits(p, m)
  <2>1. Retries' = Retries \ {m} /\ m \in Retries
    BY <1>1, DelayPlace DEF TaskInv, TaskTypes, Removed, Retries, Waits
  <2>2. Cardinality(Retries \ {m}) = Cardinality(Retries) - 1
        /\ IsFiniteSet(Retries \ {m})
    BY <2>1, RetriesFinite, FS_RemoveElement
  <2>3. Cardinality(Retries \ {m}) \in Nat
    BY <2>2, FS_CardinalityType
  <2> QED
    BY <1>1, <2>1, <2>2, <2>3, RetriesFinite DEF Counted
<1>2. CASE ~Waits(p, m)
  <2>1. Retries' = Retries
    BY <1>2, DelayPlace DEF TaskInv, TaskTypes, Removed, Retries, Waits
  <2> QED
    BY <1>2, <2>1, RetriesFinite DEF Counted
<1> QED
  BY <1>1, <1>2

LEMMA MovedRetries ==
    ASSUME TaskInv,
           NEW p \in Place, NEW q \in Place, NEW m \in box[p], NEW n,
           n.task = m.task, p # q, box' = Moved(p, m, q, n)
    PROVE  /\ Cardinality(Retries') = Cardinality(Retries) - Counted(p, m) + Counted(q, n)
           /\ Cardinality(Retries) >= Counted(p, m)
<1>1. CASE Waits(p, m)
  <2>1. Retries' = Retries \ {m} /\ m \in Retries /\ ~Waits(q, n)
    BY <1>1, DelayPlace DEF TaskInv, TaskTypes, Moved, Retries, Waits
  <2>2. Cardinality(Retries \ {m}) = Cardinality(Retries) - 1
        /\ IsFiniteSet(Retries \ {m})
    BY <2>1, RetriesFinite, FS_RemoveElement
  <2>3. Cardinality(Retries \ {m}) \in Nat
    BY <2>2, FS_CardinalityType
  <2> QED
    BY <1>1, <2>1, <2>2, <2>3, RetriesFinite DEF Counted
<1>2. CASE ~Waits(p, m) /\ Waits(q, n)
  <2>1. Retries' = Retries \cup {n}
    BY <1>2, DelayPlace DEF TaskInv, TaskTypes, Moved, Retries, Waits
  <2>2. n \notin Retries
    BY <1>2, DelayPlace DEF TaskInv, OneMessage, Retries, Waits
  <2>3. Cardinality(Retries \cup {n}) = Cardinality(Retries) + 1
    BY <2>2, RetriesFinite, FS_AddElement
  <2> QED
    BY <1>2, <2>1, <2>3, RetriesFinite DEF Counted
<1>3. CASE ~Waits(p, m) /\ ~Waits(q, n)
  <2>1. Retries' = Retries
    BY <1>3, DelayPlace DEF TaskInv, TaskTypes, Moved, Retries, Waits
  <2> QED
    BY <1>3, <2>1, RetriesFinite DEF Counted
<1> QED
  BY <1>1, <1>2, <1>3

-----------------------------------------------------------------------------
\* Where the record says that the task is.

\* A message that waits belongs to a task that is not said to be processed ...
Waiting ==
    \A m \in box["ready"] \cup box["delay"] : rec[m.task].location # "processing"

\* ... and so does one that has been popped and not begun.
PoppedWaits ==
    \A w \in Worker : pc[w] = "popped" =>
        \A m \in hand[w] \cap box[w] : rec[m.task].location # "processing"

LEMMA MovedWaiting ==
    ASSUME TaskInv, Waiting,
           NEW p \in Place, NEW q \in Place, NEW m \in box[p], NEW n,
           n.task = m.task, box' = Moved(p, m, q, n),
           \A u \in Task \ {m.task} : rec'[u].location = rec[u].location,
           q \in {"ready", "delay"} => rec'[m.task].location # "processing"
    PROVE  Waiting'
<1>1. \A r \in Place : \A x \in box'[r] :
         (x = n /\ r = q) \/ (x \in box[r] /\ x.task # m.task)
  BY MovedHolds
<1>2. \A r \in Place : \A x \in box[r] : x.task \in Task
  BY MessageTask
<1> QED
  BY <1>1, <1>2, DelayPlace DEF Waiting

LEMMA RemovedWaiting ==
    ASSUME TaskInv, Waiting,
           NEW p \in Place, NEW m \in box[p], box' = Removed(p, m),
           \A u \in Task \ {m.task} : rec'[u].location = rec[u].location
    PROVE  Waiting'
<1>1. \A r \in Place : \A x \in box'[r] : x \in box[r] /\ x.task # m.task
  BY RemovedHolds
<1>2. \A r \in Place : \A x \in box[r] : x.task \in Task
  BY MessageTask
<1> QED
  BY <1>1, <1>2, DelayPlace DEF Waiting

LEMMA OneIndexed ==
    ASSUME DeadlineIndexExact, NEW t \in Task,
           \A u \in Task \ {t} : rec'[u] = rec[u],
           deadlines' \subseteq Task,
           \A u \in Task \ {t} : u \in deadlines' <=> u \in deadlines,
           t \in deadlines' <=> /\ rec'[t].outcome = "live"
                                /\ rec'[t].spec.deadline # None
                                /\ rec'[t].location # "processing"
    PROVE  DeadlineIndexExact'
BY DEF DeadlineIndexExact, Live

\* A task that ends leaves the index.
LEMMA EndedIndexed ==
    ASSUME TaskTypes, DeadlineIndexExact, NEW t \in Task,
           NEW outcome \in Terminal, NEW location, NEW op, NEW attempt, NEW claim,
           Writes(t, outcome, location, op, attempt, claim),
           deadlines' = deadlines \ {t}
    PROVE  DeadlineIndexExact'
<1>1. rec'[t].outcome # "live"
  BY DEF Writes, Terminal
<1> QED
  BY <1>1, OneIndexed DEF Writes, TaskTypes

\* A task that waits again is put back.
LEMMA WaitingIndexed ==
    ASSUME TaskTypes, DeadlineIndexExact, NEW t \in Task,
           NEW location \in {"ready", "delay"}, NEW op, NEW attempt, NEW claim,
           Writes(t, "live", location, op, attempt, claim),
           deadlines' = Indexed(t)
    PROVE  DeadlineIndexExact'
<1>1. t \in deadlines' <=> rec[t].spec.deadline # None \/ t \in deadlines
  BY DEF Indexed
<1>2. t \in deadlines => rec[t].spec.deadline # None
  BY DEF DeadlineIndexExact
<1>3. deadlines' \subseteq Task /\ \A u \in Task \ {t} : u \in deadlines' <=> u \in deadlines
  BY DEF Indexed, TaskTypes
<1> QED
  BY <1>1, <1>2, <1>3, OneIndexed DEF Writes

\* A task that waited before stays as it was.
LEMMA StillIndexed ==
    ASSUME TaskTypes, DeadlineIndexExact, NEW t \in Task, Live(t),
           rec[t].location # "processing",
           NEW location \in {"ready", "delay"}, NEW op, NEW attempt, NEW claim,
           Writes(t, "live", location, op, attempt, claim),
           deadlines' = deadlines
    PROVE  DeadlineIndexExact'
<1>1. t \in deadlines' <=> rec[t].spec.deadline # None
  BY DEF DeadlineIndexExact
<1> QED
  BY <1>1, OneIndexed DEF Writes, TaskTypes

-----------------------------------------------------------------------------
\* Who owns the message a script is called with.

LEMMA BeginOwned ==
    ASSUME NEW w, NEW m, BeginCode(w, m) # "ignored"
    PROVE  Owned(w, m)
BY DEF BeginCode

LEMMA HandOwned ==
    ASSUME NEW w \in Worker, NEW m, BeginStep(w, m) \/ SettleStep(w, m)
    PROVE  Owned(w, m) /\ m \in box[w] /\ Live(m.task)
<1>1. CASE BeginStep(w, m)
  <2>1. BeginCode(w, m) # "ignored"
    BY <1>1 DEF BeginStep, BeginEnds, BeginFailsBudget, BeginDefers, BeginStarts
  <2> QED
    BY <2>1, BeginOwned DEF Owned
<1>2. CASE SettleStep(w, m)
  BY <1>2 DEF SettleStep, FailTask, RetrySkips, RetrySchedules, CompleteTask,
     ReturnUnstartedClaim, Returnable, Owned
<1> QED
  BY <1>1, <1>2

-----------------------------------------------------------------------------
\* The start-deadline index after each script.

LEMMA BeginIndexed ==
    ASSUME TaskInv, Waiting, PoppedWaits, DeadlineIndexExact,
           NEW w \in Worker, NEW m \in hand[w], BeginStep(w, m)
    PROVE  Waiting' /\ DeadlineIndexExact'
<1> DEFINE t == m.task
<1>1. m \in box[w] /\ Live(t) /\ w \in Place /\ w \notin {"dlq", "ready", "delay"}
  BY HandOwned, WorkerPlace
<1>2. t \in Task
  BY <1>1, MessageTask
<1>3. TaskTypes
  BY DEF TaskInv
<1>4. CASE BeginEnds(w, m)
  <2>1. BeginCode(w, m) \in Terminal
    BY <1>4 DEF BeginEnds, Terminal
  <2>2. Writes(t, BeginCode(w, m), "history", FALSE, rec[t].attempt, rec[t].claim)
    BY <1>2, <1>3, <1>4, EndedWrites DEF BeginEnds
  <2>3. Waiting'
    BY <1>1, <1>4, <2>2, RemovedWaiting DEF BeginEnds, Writes
  <2> QED
    BY <1>2, <1>3, <1>4, <2>1, <2>2, <2>3, EndedIndexed DEF BeginEnds
<1>5. CASE BeginFailsBudget(w, m)
  <2>1. Writes(t, "failed", "dlq", TRUE, rec[t].attempt, rec[t].claim)
    BY <1>2, <1>3, <1>5, EndedWrites DEF BeginFailsBudget
  <2>2. Waiting'
    BY <1>1, <1>5, <2>1, DelayPlace, MovedWaiting DEF BeginFailsBudget, Writes
  <2> QED
    BY <1>2, <1>3, <1>5, <2>1, <2>2, EndedIndexed DEF BeginFailsBudget, Terminal
<1>6. CASE BeginDefers(w, m)
  <2>1. Writes(t, "live", "delay", rec[t].op, rec[t].attempt, rec[t].claim)
    BY <1>1, <1>2, <1>3, <1>6, RelocatedWrites DEF BeginDefers, Live
  <2>2. Deferred(m).task = t
    BY <1>1, MessageTask DEF Deferred, Message
  <2>3. Waiting'
    BY <1>1, <1>6, <2>1, <2>2, DelayPlace, MovedWaiting DEF BeginDefers, Writes
  <2>4. rec[t].location # "processing"
    BY <1>1 DEF BeginStep, PoppedWaits
  <2> QED
    BY <1>1, <1>2, <1>3, <1>6, <2>1, <2>3, <2>4, StillIndexed DEF BeginDefers
<1>7. CASE \E tok \in Token : Fresh(tok) /\ BeginStarts(w, m, tok)
  <2>1. PICK tok \in Token : BeginStarts(w, m, tok)
    BY <1>7
  <2>2. Writes(t, rec[t].outcome, "processing", rec[t].op, rec[t].attempt + 1, tok)
    BY <1>2, <1>3, <2>1, StartsWrites
  <2>3. Started(m, tok).task = t
    BY <2>1, StartedType DEF BeginStarts
  <2>4. Waiting'
    BY <1>1, <2>1, <2>2, <2>3, MovedWaiting DEF BeginStarts, Writes
  <2>5. deadlines' = deadlines \ {t}
    BY <2>1 DEF BeginStarts
  <2>6. DeadlineIndexExact'
    BY <1>2, <1>3, <2>2, <2>5, OneIndexed DEF Writes, TaskTypes
  <2> QED
    BY <2>4, <2>6
<1> QED
  BY <1>4, <1>5, <1>6, <1>7 DEF BeginStep

LEMMA SettleIndexed ==
    ASSUME TaskInv, Waiting, DeadlineIndexExact,
           NEW w \in Worker, NEW m \in hand[w], SettleStep(w, m)
    PROVE  Waiting' /\ DeadlineIndexExact'
<1> DEFINE t == m.task
<1>1. m \in box[w] /\ Live(t) /\ w \in Place /\ w \notin {"dlq", "ready", "delay"}
  BY HandOwned, WorkerPlace
<1>2. t \in Task
  BY <1>1, MessageTask
<1>3. TaskTypes
  BY DEF TaskInv
<1>4. CASE CompleteTask(w, m)
  <2>1. Writes(t, "completed", "history", FALSE, rec[t].attempt, rec[t].claim)
    BY <1>2, <1>3, <1>4, EndedWrites DEF CompleteTask
  <2>2. Waiting'
    BY <1>1, <1>4, <2>1, RemovedWaiting DEF CompleteTask, Writes
  <2> QED
    BY <1>2, <1>3, <1>4, <2>1, <2>2, EndedIndexed DEF CompleteTask, Terminal
<1>5. CASE FailTask(w, m)
  <2>1. Writes(t, "failed", "dlq", TRUE, rec[t].attempt, rec[t].claim)
    BY <1>2, <1>3, <1>5, EndedWrites DEF FailTask
  <2>2. Waiting'
    BY <1>1, <1>5, <2>1, DelayPlace, MovedWaiting DEF FailTask, Writes
  <2> QED
    BY <1>2, <1>3, <1>5, <2>1, <2>2, EndedIndexed DEF FailTask, Terminal
<1>6. ASSUME NEW runAt \in Time, RetrySkips(w, m, runAt)
      PROVE  Waiting' /\ DeadlineIndexExact'
  <2>1. Writes(t, "skipped", "history", FALSE, rec[t].attempt, rec[t].claim)
    BY <1>2, <1>3, <1>6, EndedWrites DEF RetrySkips
  <2>2. Waiting'
    BY <1>1, <1>6, <2>1, RemovedWaiting DEF RetrySkips, Writes
  <2> QED
    BY <1>2, <1>3, <1>6, <2>1, <2>2, EndedIndexed DEF RetrySkips, Terminal
<1>7. ASSUME NEW runAt \in Time, RetrySchedules(w, m, runAt)
      PROVE  Waiting' /\ DeadlineIndexExact'
  <2>1. Writes(t, "live", "delay", TRUE, rec[t].attempt, rec[t].claim)
    BY <1>1, <1>2, <1>3, <1>7, SchedulesWrites DEF Live
  <2>2. Retried(m, runAt).task = t
    BY <1>1, MessageTask DEF Retried, Message
  <2>3. Waiting'
    BY <1>1, <1>7, <2>1, <2>2, DelayPlace, MovedWaiting DEF RetrySchedules, Writes
  <2> QED
    BY <1>2, <1>3, <1>7, <2>1, <2>3, WaitingIndexed DEF RetrySchedules
<1>8. CASE ReturnUnstartedClaim(w, m)
  <2>1. Writes(t, "live", "ready", rec[t].op, rec[t].attempt - 1, rec[t].claim)
    BY <1>1, <1>2, <1>3, <1>8, ReturnsWrites DEF Live
  <2>2. Waiting'
    BY <1>1, <1>8, <2>1, DelayPlace, MovedWaiting DEF ReturnUnstartedClaim, Writes
  <2> QED
    BY <1>2, <1>3, <1>8, <2>1, <2>2, WaitingIndexed DEF ReturnUnstartedClaim
<1> QED
  BY <1>4, <1>5, <1>6, <1>7, <1>8 DEF SettleStep

LEMMA RecoveredIndexed ==
    ASSUME TaskInv, Waiting, DeadlineIndexExact,
           NEW w \in Worker, NEW m \in box[w],
           RecoverAbandonedClaim(w, m) \/ MoveToReady(w, m)
    PROVE  Waiting' /\ DeadlineIndexExact'
<1> DEFINE t == m.task
<1>1. t \in Task /\ Live(t) /\ w \in Place
  BY MessageTask, WorkerPlace
<1>2. TaskTypes
  BY DEF TaskInv
<1>3. box' = Moved(w, m, "ready", m) /\ deadlines' = Indexed(t)
  BY <1>1 DEF RecoverAbandonedClaim, MoveToReady, Live
<1>4. \E attempt : Writes(t, "live", "ready", rec[t].op, attempt, rec[t].claim)
  BY <1>1, <1>2, RecoversWrites, RelocatedWrites DEF MoveToReady, Live
<1>5. PICK attempt : Writes(t, "live", "ready", rec[t].op, attempt, rec[t].claim)
  BY <1>4
<1>6. Waiting'
  BY <1>1, <1>3, <1>5, DelayPlace, MovedWaiting DEF Writes
<1> QED
  BY <1>1, <1>2, <1>3, <1>5, <1>6, WaitingIndexed

LEMMA PromotedIndexed ==
    ASSUME TaskInv, Waiting, DeadlineIndexExact,
           NEW m \in box["delay"], MoveDelayMessage(m)
    PROVE  Waiting' /\ DeadlineIndexExact'
<1> DEFINE t == m.task
<1>1. t \in Task /\ Live(t) /\ rec[t].location # "processing"
  BY MessageTask, DelayPlace DEF Waiting
<1>2. TaskTypes
  BY DEF TaskInv
<1>3. Writes(t, "live", "ready", rec[t].op, rec[t].attempt, rec[t].claim)
  BY <1>1, <1>2, RelocatedWrites DEF MoveDelayMessage, Live
<1>4. Waiting'
  BY <1>3, DelayPlace, MovedWaiting DEF MoveDelayMessage, Writes
<1> QED
  BY <1>1, <1>2, <1>3, <1>4, StillIndexed DEF MoveDelayMessage

LEMMA PurgedIndexed ==
    ASSUME TaskInv, Waiting, DeadlineIndexExact,
           NEW p \in Place, NEW m \in box[p], NEW release \in BOOLEAN,
           CancelOrPurge(p, m, release)
    PROVE  Waiting' /\ DeadlineIndexExact'
<1> DEFINE t == m.task
<1>1. t \in Task
  BY MessageTask
<1>2. TaskTypes
  BY DEF TaskInv
<1>3. PurgedOutcome(t) \in Terminal
  BY MessageTask DEF PurgedOutcome, Live, Exists, TaskInv, TaskTypes, Record,
     Outcome, Terminal
<1>4. Writes(t, PurgedOutcome(t), "history", FALSE, rec[t].attempt, rec[t].claim)
  BY <1>1, <1>2, EndedWrites DEF CancelOrPurge
<1>5. Waiting'
  BY <1>4, RemovedWaiting DEF CancelOrPurge, Writes
<1> QED
  BY <1>1, <1>2, <1>3, <1>4, <1>5, EndedIndexed DEF CancelOrPurge

-----------------------------------------------------------------------------
\* The scripts that write more than one record, or a new one.

\* A batch leaves delay: records keep all but their location.
LEMMA BatchWrites ==
    ASSUME TaskInv, MoveDueDelay
    PROVE  \E D \in SUBSET box["delay"] :
              /\ box' = [box EXCEPT !["delay"] = @ \ D, !["ready"] = @ \cup D]
              /\ retryWait' = Decremented(Cardinality({m \in D : m.reason = "retry"}))
              /\ \A t \in Task :
                    /\ rec'[t].spec = rec[t].spec /\ rec'[t].outcome = rec[t].outcome
                    /\ rec'[t].op = rec[t].op /\ rec'[t].attempt = rec[t].attempt
                    /\ rec'[t].claim = rec[t].claim
                    /\ rec'[t].override = rec[t].override
                    /\ rec'[t].location =
                          IF \E m \in D : m.task = t THEN "ready" ELSE rec[t].location
<1>1. PICK D \in SUBSET Due :
         /\ box' = [box EXCEPT !["delay"] = @ \ D, !["ready"] = @ \cup D]
         /\ rec' = [t \in Task |-> IF \E m \in D : m.task = t
                                   THEN [rec[t] EXCEPT !.location = "ready"]
                                   ELSE rec[t]]
         /\ retryWait' = Decremented(Cardinality({m \in D : m.reason = "retry"}))
  BY DEF MoveDueDelay
<1>2. D \in SUBSET box["delay"]
  BY DEF Due
<1>3. ASSUME NEW t \in Task
      PROVE  /\ rec'[t].spec = rec[t].spec /\ rec'[t].outcome = rec[t].outcome
             /\ rec'[t].op = rec[t].op /\ rec'[t].attempt = rec[t].attempt
             /\ rec'[t].claim = rec[t].claim
             /\ rec'[t].override = rec[t].override
             /\ rec'[t].location =
                   IF \E m \in D : m.task = t THEN "ready" ELSE rec[t].location
  <2>1. rec[t] \in Record
    BY DEF TaskInv, TaskTypes
  <2>2. CASE \E m \in D : m.task = t
    <3>1. rec'[t] = [rec[t] EXCEPT !.location = "ready"]
      BY <1>1, <2>2
    <3> QED
      BY <2>1, <2>2, <3>1 DEF Record
  <2>3. CASE ~\E m \in D : m.task = t
    <3>1. rec'[t] = rec[t]
      BY <1>1, <2>3
    <3> QED
      BY <2>3, <3>1
  <2> QED
    BY <2>2, <2>3
<1> QED
  BY <1>1, <1>2, <1>3

LEMMA BatchHolds ==
    ASSUME TaskInv, NEW D \in SUBSET box["delay"],
           box' = [box EXCEPT !["delay"] = @ \ D, !["ready"] = @ \cup D]
    PROVE  /\ \A r \in Place : \A x \in box'[r] :
                 \/ x \in box[r] /\ (r = "delay" => x \notin D)
                 \/ r = "ready" /\ x \in D
           /\ \A w \in Worker : box'[w] = box[w]
           /\ \A t \in Task : HasMessage(t)' <=> HasMessage(t)
<1>1. /\ box'["delay"] = box["delay"] \ D
      /\ box'["ready"] = box["ready"] \cup D
      /\ \A r \in Place \ {"delay", "ready"} : box'[r] = box[r]
  BY DelayPlace DEF TaskInv, TaskTypes
<1>2. \A w \in Worker : box'[w] = box[w]
  BY <1>1, WorkerPlace
<1>3. \A r \in Place : \A x \in box'[r] :
         \/ x \in box[r] /\ (r = "delay" => x \notin D)
         \/ r = "ready" /\ x \in D
  BY <1>1
<1>4. \A t \in Task : HasMessage(t)' <=> HasMessage(t)
  <2>1. \A r \in Place : \A x \in box[r] : \E q \in Place : x \in box'[q]
    BY <1>1, DelayPlace
  <2>2. \A r \in Place : \A x \in box'[r] : \E q \in Place : x \in box[q]
    BY <1>3, DelayPlace
  <2> QED
    BY <2>1, <2>2 DEF HasMessage
<1> QED
  BY <1>2, <1>3, <1>4

LEMMA BatchIndexed ==
    ASSUME TaskInv, Waiting, DeadlineIndexExact, MoveDueDelay
    PROVE  Waiting' /\ DeadlineIndexExact'
<1>1. PICK D \in SUBSET box["delay"] :
         /\ box' = [box EXCEPT !["delay"] = @ \ D, !["ready"] = @ \cup D]
         /\ \A t \in Task :
               /\ rec'[t].spec = rec[t].spec /\ rec'[t].outcome = rec[t].outcome
               /\ rec'[t].location =
                     IF \E m \in D : m.task = t THEN "ready" ELSE rec[t].location
  BY BatchWrites
<1>2. \A r \in Place : \A x \in box[r] : x.task \in Task
  BY MessageTask
<1>3. \A t \in Task : rec'[t].location # "processing" <=> rec[t].location # "processing"
  BY <1>1 DEF Waiting
<1>4. Waiting'
  BY <1>1, <1>2, <1>3, BatchHolds, DelayPlace DEF Waiting
<1>5. DeadlineIndexExact'
  <2>1. deadlines' = deadlines
    BY DEF MoveDueDelay
  <2> QED
    BY <1>1, <1>3, <2>1 DEF DeadlineIndexExact, Live
<1> QED
  BY <1>4, <1>5

LEMMA EnqueueWrites ==
    ASSUME TaskInv, NEW t \in Task, NEW s \in Submitted, NEW allowNew \in BOOLEAN,
           EnqueueV2(t, s, allowNew)
    PROVE  /\ ~Exists(t) /\ s \in TaskSpec
           /\ \A u \in Task \ {t} : rec'[u] = rec[u]
           /\ rec'[t] = NewRecord(s, CurrentOwner(s))
           /\ Destination(s) \in {"ready", "delay"}
           /\ box' = [box EXCEPT ![Destination(s)] = box[Destination(s)]
                                                     \cup {NewMessage(t, s)}]
           /\ deadlines' = NewDeadlines(t, s)
BY DomainAssumption DEF EnqueueV2, Destination, TaskInv, TaskTypes

LEMMA ReplayWrites ==
    ASSUME TaskInv, NEW t \in Task, NEW u \in Task, NEW d \in Time \cup {None},
           Replay(t, u, d)
    PROVE  /\ t # u /\ ~Exists(u) /\ Exists(t) /\ ~Live(t)
           /\ ReplaySpec(t, d) \in TaskSpec
           /\ \A v \in Task \ {t, u} : rec'[v] = rec[v]
           /\ rec'[t].spec = rec[t].spec /\ rec'[t].outcome = rec[t].outcome
           /\ rec'[t].attempt = rec[t].attempt /\ rec'[t].claim = rec[t].claim
           /\ rec'[t].override = rec[t].override
           /\ rec'[t].op = FALSE /\ rec'[t].location = "history"
           /\ rec'[u] = NewRecord(ReplaySpec(t, d), None)
           /\ deadlines' = NewDeadlines(u, ReplaySpec(t, d))
           /\ owner' = NewOwner(u, ReplaySpec(t, d))
           /\ latest' = NewLatest(ReplaySpec(t, d))
           /\ CurrentOwner(ReplaySpec(t, d)) \in {None, t}
           /\ UNCHANGED <<lease, retryWait>>
           /\ LET taken == IF rec[t].op THEN {m \in box["dlq"] : m.task = t} ELSE {}
              IN  /\ box'["dlq"] = box["dlq"] \ taken
                  /\ box'["ready"] = box["ready"] \cup {NewMessage(u, ReplaySpec(t, d))}
                  /\ \A p \in Place \ {"dlq", "ready"} : box'[p] = box[p]
<1> DEFINE s == ReplaySpec(t, d)
           source == {m \in box["dlq"] : m.task = t}
           taken == IF rec[t].op THEN source ELSE {}
           old == [rec[t] EXCEPT !.op = FALSE, !.location = "history"]
<1>1. ReplayTask(t, u, s, taken) /\ rec[t].spec # None
  BY DEF Replay
<1>2. s \in TaskSpec
  BY <1>1, ReplaySpecType DEF TaskInv
<1> HIDE DEF s, taken
<1>3. ~Exists(u) /\ Exists(t) /\ ~Live(t) /\ t # u
  BY <1>1 DEF ReplayTask, Exists, Live
<1>4. /\ old.spec = rec[t].spec /\ old.outcome = rec[t].outcome
      /\ old.attempt = rec[t].attempt /\ old.claim = rec[t].claim
      /\ old.override = rec[t].override /\ old.op = FALSE /\ old.location = "history"
  <2>1. rec[t] \in Record
    BY DEF TaskInv, TaskTypes
  <2> QED
    BY <2>1 DEF Record
<1>5. rec' = [rec EXCEPT ![t] = old, ![u] = NewRecord(s, None)]
  BY <1>1 DEF ReplayTask
<1> HIDE DEF old
<1>6. /\ rec'[t] = old /\ rec'[u] = NewRecord(s, None)
      /\ \A v \in Task \ {t, u} : rec'[v] = rec[v]
  BY <1>3, <1>5 DEF TaskInv, TaskTypes
<1>7. box' = [box EXCEPT !["dlq"] = @ \ taken, !["ready"] = @ \cup {NewMessage(u, s)}]
  BY <1>1 DEF ReplayTask
<1>8. /\ box'["dlq"] = box["dlq"] \ taken
      /\ box'["ready"] = box["ready"] \cup {NewMessage(u, s)}
      /\ \A p \in Place \ {"dlq", "ready"} : box'[p] = box[p]
  BY <1>7, DelayPlace DEF TaskInv, TaskTypes
<1>9. /\ deadlines' = NewDeadlines(u, s) /\ owner' = NewOwner(u, s)
      /\ latest' = NewLatest(s) /\ CurrentOwner(s) \in {None, t}
      /\ UNCHANGED <<lease, retryWait>>
  BY <1>1 DEF ReplayTask
<1> QED
  BY <1>2, <1>3, <1>4, <1>6, <1>8, <1>9 DEF s, taken

LEMMA NewTaskIndexed ==
    ASSUME TaskTypes, DeadlineIndexExact,
           NEW t \in Task, NEW s \in TaskSpec, NEW o, ~Exists(t),
           \A u \in Task \ {t} : /\ rec'[u].spec = rec[u].spec
                                 /\ Live(u) <=> rec'[u].outcome = "live"
                                 /\ Live(u) => rec'[u].location = rec[u].location,
           rec'[t] = NewRecord(s, o),
           deadlines' = NewDeadlines(t, s)
    PROVE  DeadlineIndexExact'
<1>1. /\ rec'[t].outcome = "live" /\ rec'[t].spec = s
      /\ rec'[t].location \in {"ready", "delay"}
  BY DEF NewRecord, Destination
<1>2. t \notin deadlines
  BY DEF DeadlineIndexExact, Live, Exists
<1>3. deadlines' = IF s.deadline # None THEN deadlines \cup {t} ELSE deadlines
  BY DEF NewDeadlines
<1> QED
  BY <1>1, <1>2, <1>3 DEF DeadlineIndexExact, Live

LEMMA EnqueueIndexed ==
    ASSUME TaskInv, Waiting, DeadlineIndexExact,
           NEW t \in Task, NEW s \in Submitted, NEW allowNew \in BOOLEAN,
           EnqueueV2(t, s, allowNew)
    PROVE  Waiting' /\ DeadlineIndexExact'
<1>1. /\ ~Exists(t) /\ s \in TaskSpec
      /\ \A u \in Task \ {t} : rec'[u] = rec[u]
      /\ rec'[t] = NewRecord(s, CurrentOwner(s))
      /\ Destination(s) \in {"ready", "delay"}
      /\ box' = [box EXCEPT ![Destination(s)] = box[Destination(s)] \cup {NewMessage(t, s)}]
      /\ deadlines' = NewDeadlines(t, s)
  BY EnqueueWrites
<1>2. DeadlineIndexExact'
  <2>1. TaskTypes
    BY DEF TaskInv
  <2> QED
    BY <1>1, <2>1, NewTaskIndexed DEF Live
<1>3. Waiting'
  <2>1. \A r \in Place : \A x \in box'[r] : x = NewMessage(t, s) \/ x \in box[r]
    BY <1>1, DelayPlace DEF TaskInv, TaskTypes
  <2>2. NewMessage(t, s).task = t /\ rec'[t].location # "processing"
    BY <1>1, NewMessageType DEF NewRecord
  <2>3. \A r \in Place : \A x \in box[r] : x.task \in Task /\ x.task # t
    BY <1>1, MessageTask
  <2> QED
    BY <1>1, <2>1, <2>2, <2>3, DelayPlace DEF Waiting
<1> QED
  BY <1>2, <1>3

LEMMA ReplayIndexed ==
    ASSUME TaskInv, Waiting, DeadlineIndexExact,
           NEW t \in Task, NEW u \in Task, NEW d \in Time \cup {None},
           Replay(t, u, d)
    PROVE  Waiting' /\ DeadlineIndexExact'
<1> DEFINE s == ReplaySpec(t, d)
<1>1. /\ t # u /\ ~Exists(u) /\ ~Live(t) /\ s \in TaskSpec
      /\ \A v \in Task \ {t, u} : rec'[v] = rec[v]
      /\ rec'[t].spec = rec[t].spec /\ rec'[t].outcome = rec[t].outcome
      /\ rec'[t].location = "history"
      /\ rec'[u] = NewRecord(s, None)
      /\ deadlines' = NewDeadlines(u, s)
  BY ReplayWrites
<1>4. \A p \in Place : \A x \in box'[p] :
         x \in box[p] \/ (p = "ready" /\ x = NewMessage(u, s))
  <2>1. /\ \E taken : box'["dlq"] = box["dlq"] \ taken
        /\ box'["ready"] = box["ready"] \cup {NewMessage(u, s)}
        /\ \A p \in Place \ {"dlq", "ready"} : box'[p] = box[p]
    BY ReplayWrites
  <2> QED
    BY <2>1
<1> HIDE DEF s
<1>2. DeadlineIndexExact'
  <2>1. TaskTypes
    BY DEF TaskInv
  <2>2. \A v \in Task \ {u} : /\ rec'[v].spec = rec[v].spec
                              /\ Live(v) <=> rec'[v].outcome = "live"
                              /\ Live(v) => rec'[v].location = rec[v].location
    BY <1>1 DEF Live
  <2> QED
    BY <1>1, <2>1, <2>2, NewTaskIndexed
<1>3. Waiting'
  <2>1. NewMessage(u, s).task = u /\ rec'[u].location # "processing"
    BY <1>1, NewMessageType DEF NewRecord, Destination
  <2>2. \A r \in Place \ {"dlq"} : \A x \in box[r] : x.task \in Task /\ x.task \notin {t, u}
    BY <1>1, MessageTask
  <2> QED
    BY <1>1, <1>4, <2>1, <2>2, DelayPlace DEF Waiting
<1> QED
  BY <1>2, <1>3

LEMMA SameIndexed ==
    ASSUME TaskInv, Waiting, DeadlineIndexExact,
           box' = box, deadlines' = deadlines,
           \A t \in Task : /\ rec'[t].spec = rec[t].spec
                           /\ rec'[t].outcome = rec[t].outcome
                           /\ rec'[t].location = rec[t].location
    PROVE  Waiting' /\ DeadlineIndexExact'
<1>1. \A p \in Place : \A m \in box[p] : m.task \in Task
  BY MessageTask
<1> QED
  BY <1>1, DelayPlace DEF Waiting, DeadlineIndexExact, Live

LEMMA UpdateWrites ==
    ASSUME TaskTypes, NEW t \in Task, RequeueUpdate(t)
    PROVE  /\ Writes(t, rec[t].outcome, rec[t].location, TRUE, rec[t].attempt, rec[t].claim)
           /\ UNCHANGED <<box, owner, latest, lease, deadlines, retryWait>>
<1> DEFINE new == [rec[t] EXCEPT !.op = TRUE]
<1>1. rec[t] \in Record
  BY DEF TaskTypes
<1>2. /\ new.spec = rec[t].spec /\ new.outcome = rec[t].outcome
      /\ new.attempt = rec[t].attempt /\ new.location = rec[t].location
      /\ new.op = TRUE /\ new.claim = rec[t].claim /\ new.override = rec[t].override
  BY <1>1 DEF Record
<1>3. rec' = [rec EXCEPT ![t] = new] /\ UNCHANGED <<box, owner, latest, lease, deadlines, retryWait>>
  BY DEF RequeueUpdate
<1> HIDE DEF new
<1> QED
  BY <1>2, <1>3 DEF TaskTypes, Writes

LEMMA TaskStepIndexed ==
    ASSUME TaskInv, Waiting, PoppedWaits, DeadlineIndexExact, TaskStep
    PROVE  Waiting' /\ DeadlineIndexExact'
<1>1. CASE \E t \in Task, s \in Submitted, allowNew \in BOOLEAN : EnqueueV2(t, s, allowNew)
  BY <1>1, EnqueueIndexed
<1>2. CASE \E w \in Worker : \E m \in box["ready"] : Takes(w, m)
  <2>1. PICK w \in Worker, m \in box["ready"] : Takes(w, m)
    BY <1>2
  <2>2. w \in Place /\ w \notin {"dlq", "ready", "delay"}
    BY WorkerPlace
  <2>3. Waiting'
    BY <2>1, <2>2, DelayPlace, MovedWaiting DEF Takes
  <2> QED
    BY <2>1, <2>3 DEF Takes, DeadlineIndexExact, Live
<1>3. CASE \E w \in Worker : \E m \in hand[w] : BeginStep(w, m) \/ SettleStep(w, m)
  BY <1>3, BeginIndexed, SettleIndexed
<1>4. CASE \E w \in Worker : \E m \in box[w] : RecoverAbandonedClaim(w, m) \/ MoveToReady(w, m)
  BY <1>4, RecoveredIndexed
<1>5. CASE MoveDueDelay
  BY <1>5, BatchIndexed
<1>6. CASE \E m \in box["delay"] : MoveDelayMessage(m)
  BY <1>6, PromotedIndexed
<1>7. CASE \E p \in Place, release \in BOOLEAN : \E m \in box[p] : CancelOrPurge(p, m, release)
  BY <1>7, PurgedIndexed
<1>8. CASE \E t, u \in Task, d \in Time \cup {None} : Replay(t, u, d)
  BY <1>8, ReplayIndexed
<1>9. CASE \E t \in Task : RequeueUpdate(t)
  BY <1>9, UpdateWrites, SameIndexed DEF Writes, TaskInv
<1>10. CASE (\E k \in Key : OwnerExpires(k)) \/ \E c \in Conc : LeaseExpires(c)
  BY <1>10, SameIndexed DEF OwnerExpires, LeaseExpires
<1> QED
  BY <1>1, <1>2, <1>3, <1>4, <1>5, <1>6, <1>7, <1>8, <1>9, <1>10 DEF TaskStep

-----------------------------------------------------------------------------
\* What a step does to a worker that does not take it, and to its list.

LEMMA OtherWorker ==
    ASSUME LocalTypes, NEW v \in Worker, NEW w \in Worker \ {v}, WorkerStep(v)
    PROVE  /\ pc'[w] = pc[w] /\ hand'[w] = hand[w] /\ spent'[w] = spent[w]
           /\ w \in stop' <=> w \in stop
           /\ w \in late' <=> w \in late
           /\ w \in heartbeat' <=> w \in heartbeat
           /\ w \in registry' <=> w \in registry
<1> USE DEF Goto, Holds, BackToPoll, localVars, liveVars, ghostVars, LocalTypes
<1>1. CASE \/ Start(v) \/ Ready(v) \/ HeartbeatLoop(v) \/ Stop(v) \/ Exit(v) \/ Poll(v)
  BY <1>1 DEF Start, Ready, HeartbeatLoop, Stop, Exit, Poll
<1>2. CASE \/ PopNone(v) \/ PollRaises(v) \/ Admit(v) \/ ReturnRaises(v)
           \/ FinishAbandoned(v)
  BY <1>2 DEF PopNone, PollRaises, Admit, ReturnRaises, FinishAbandoned
<1>3. CASE \/ Pop(v) \/ PopLost(v) \/ RecoverAbandoned(v) \/ MoveRetry(v)
           \/ \E u \in Worker : RecoverStale(v, u)
  BY <1>3 DEF Pop, PopLost, RecoverAbandoned, MoveRetry, RecoverStale
<1>4. CASE BeginOther(v) \/ Begin(v) \/ BeginLost(v)
  BY <1>4 DEF BeginOther, Begin, BeginLost
<1>5. CASE \/ PayloadFails(v) \/ PayloadFailLost(v) \/ ReturnUnstarted(v)
           \/ Finish(v) \/ FinishLost(v)
  BY <1>5 DEF PayloadFails, PayloadFailLost, ReturnUnstarted, Finish, FinishLost
<1> QED
  BY <1>1, <1>2, <1>3, <1>4, <1>5 DEF WorkerStep, Progress, Upset

\* Steps of nobody's main thread.
LEMMA OutsideStep ==
    ASSUME LocalTypes,
           \/ Producer \/ AdminStep \/ UNCHANGED vars
           \/ Environment /\ ~\E w \in Worker : Crash(w)
    PROVE  UNCHANGED <<localVars, runs>>
<1>1. CASE Producer \/ UNCHANGED vars
  BY <1>1 DEF Producer, Enqueue, vars, ghostVars
<1>2. CASE AdminStep
  BY <1>2 DEF AdminStep, Purge, Replay, ForceRecover, Requeue, RequeueUpdate, Prune, ghostVars
<1>3. CASE Environment /\ ~\E w \in Worker : Crash(w)
  BY <1>3 DEF Environment, Tick, OwnerExpires, LeaseExpires, HeartbeatExpires, ghostVars
<1> QED
  BY <1>1, <1>2, <1>3

\* Only a pop brings a message to a thread that has yet to begin it.
LEMMA PoppedBefore ==
    ASSUME LocalTypes, [Next]_vars, NEW w \in Worker, pc'[w] = "popped"
    PROVE  Pop(w) \/ (pc[w] = "popped" /\ hand'[w] = hand[w])
<1>1. CASE \E v \in Worker \ {w} : WorkerStep(v)
  BY <1>1, OtherWorker
<1>2. CASE WorkerStep(w)
  <2> USE DEF Goto, Holds, BackToPoll, localVars, LocalTypes
  <2>1. CASE \/ Start(w) \/ Ready(w) \/ HeartbeatLoop(w) \/ Stop(w) \/ Exit(w) \/ Poll(w)
    BY <2>1 DEF Start, Ready, HeartbeatLoop, Stop, Exit, Poll
  <2>2. CASE \/ PopNone(w) \/ PollRaises(w) \/ Admit(w) \/ ReturnRaises(w)
             \/ FinishAbandoned(w)
    BY <2>2 DEF PopNone, PollRaises, Admit, ReturnRaises, FinishAbandoned
  <2>3. CASE \/ PopLost(w) \/ RecoverAbandoned(w) \/ MoveRetry(w)
             \/ \E u \in Worker : RecoverStale(w, u)
    BY <2>3 DEF PopLost, RecoverAbandoned, MoveRetry, RecoverStale
  <2>4. CASE BeginOther(w) \/ Begin(w) \/ BeginLost(w)
    BY <2>4 DEF BeginOther, Begin, BeginLost
  <2>5. CASE \/ PayloadFails(w) \/ PayloadFailLost(w) \/ ReturnUnstarted(w)
             \/ Finish(w) \/ FinishLost(w)
    BY <2>5 DEF PayloadFails, PayloadFailLost, ReturnUnstarted, Finish, FinishLost
  <2> QED
    BY <1>2, <2>1, <2>2, <2>3, <2>4, <2>5 DEF WorkerStep, Progress, Upset
<1>3. CASE \E v \in Worker : Crash(v)
  BY <1>3 DEF Crash, Goto, Holds, LocalTypes
<1>4. CASE ~(\E v \in Worker : WorkerStep(v)) /\ ~\E v \in Worker : Crash(v)
  BY <1>4, OutsideStep DEF Next, localVars
<1> QED
  BY <1>1, <1>2, <1>3, <1>4

\* What the record of t says but for its flag.
SameRecord(t) ==
    /\ rec'[t].spec = rec[t].spec /\ rec'[t].outcome = rec[t].outcome
    /\ rec'[t].location = rec[t].location /\ rec'[t].attempt = rec[t].attempt
    /\ rec'[t].claim = rec[t].claim

\* A processing list grows by a pop, its messages change by a begin: both are
\* steps of its own worker.  Of what else stays in it, the record stays.
LEMMA ListStep ==
    ASSUME TaskInv, TaskStep, NEW w \in Worker
    PROVE  \/ pc[w] = "pop" /\ pc'[w] # "pop" /\ \E m \in box["ready"] : Takes(w, m)
           \/ /\ pc[w] = "popped" /\ pc'[w] # "popped"
              /\ \E m \in hand[w], tok \in Token : Fresh(tok) /\ BeginStarts(w, m, tok)
           \/ \A m \in box'[w] : m \in box[w] /\ SameRecord(m.task)
<1>0. /\ w \in Place /\ w \notin {"dlq", "ready", "delay"}
      /\ \A p \in Place : \A x \in box[p] : x.task \in Task
  BY WorkerPlace, MessageTask
<1> TaskTypes
  BY DEF TaskInv
<1> DEFINE Stays == \A m \in box'[w] : m \in box[w] /\ SameRecord(m.task)
<1>a. ASSUME NEW p \in Place, NEW q \in Place \ {w}, NEW m \in box[p], NEW n,
             n.task = m.task, box' = Moved(p, m, q, n) \/ box' = Removed(p, m),
             \A u \in Task \ {m.task} : rec'[u] = rec[u]
      PROVE  Stays
  BY <1>0, <1>a, MovedHolds, RemovedHolds DEF SameRecord
<1>1. CASE \E t \in Task, s \in Submitted, allowNew \in BOOLEAN : EnqueueV2(t, s, allowNew)
  <2>1. PICK t \in Task, s \in Submitted, allowNew \in BOOLEAN : EnqueueV2(t, s, allowNew)
    BY <1>1
  <2>2. /\ ~Exists(t)
        /\ \A u \in Task \ {t} : rec'[u] = rec[u]
        /\ Destination(s) \in {"ready", "delay"}
        /\ box' = [box EXCEPT ![Destination(s)] = box[Destination(s)] \cup {NewMessage(t, s)}]
    BY <2>1, EnqueueWrites
  <2>3. box'[w] = box[w]
    BY <1>0, <2>2 DEF TaskTypes
  <2> QED
    BY <1>0, <2>2, <2>3, MessageTask DEF SameRecord
<1>2. CASE \E v \in Worker : /\ pc[v] = "pop" /\ pc'[v] # "pop"
                              /\ \E m \in box["ready"] : Takes(v, m)
  <2>1. PICK v \in Worker, m \in box["ready"] :
           pc[v] = "pop" /\ pc'[v] # "pop" /\ Takes(v, m)
    BY <1>2
  <2>2. v # w => Stays
    BY <1>a, <2>1, DelayPlace, WorkerPlace DEF Takes
  <2> QED
    BY <2>1, <2>2
<1>3. CASE \E v \in Worker : \E m \in hand[v] : BeginStep(v, m) \/ SettleStep(v, m)
  <2>0. PICK v \in Worker : \E m \in hand[v] : BeginStep(v, m) \/ SettleStep(v, m)
    BY <1>3
  <2>1. PICK m \in hand[v] : BeginStep(v, m) \/ SettleStep(v, m)
    BY <2>0
  <2>2. m \in box[v] /\ Live(m.task) /\ v \in Place /\ m.task \in Task
    BY <1>0, <2>1, HandOwned, WorkerPlace
  <2>3. CASE BeginEnds(v, m)
    BY <1>a, <1>0, <2>2, <2>3, DelayPlace, EndedWrites DEF BeginEnds, Writes
  <2>4. CASE BeginFailsBudget(v, m)
    BY <1>a, <1>0, <2>2, <2>4, DelayPlace, EndedWrites DEF BeginFailsBudget, Writes
  <2>5. CASE BeginDefers(v, m)
    <3>1. Deferred(m).task = m.task
      BY <2>2, MessageTask, WorkerPlace DEF Deferred, Message
    <3> QED
      BY <1>a, <1>0, <2>2, <2>5, <3>1, DelayPlace, RelocatedWrites DEF BeginDefers, Writes
  <2>6. ASSUME NEW tok \in Token, BeginStarts(v, m, tok), v # w
        PROVE  Stays
    <3>1. Started(m, tok).task = m.task
      BY <2>6, StartedType DEF BeginStarts
    <3>2. box' = Moved(v, m, v, Started(m, tok))
      BY <2>6 DEF BeginStarts
    <3>3. \A u \in Task \ {m.task} : rec'[u] = rec[u]
      BY <2>2, <2>6, StartsWrites DEF Writes
    <3>4. v \in Place \ {w} /\ m \in box[v]
      BY <2>2, <2>6
    <3> HIDE DEF Stays
    <3> QED
      BY <1>a, <3>1, <3>2, <3>3, <3>4
  <2>7. CASE CompleteTask(v, m)
    BY <1>a, <1>0, <2>2, <2>7, DelayPlace, EndedWrites DEF CompleteTask, Writes
  <2>8. CASE FailTask(v, m)
    BY <1>a, <1>0, <2>2, <2>8, DelayPlace, EndedWrites DEF FailTask, Writes
  <2>9. CASE \E runAt \in Time : RetrySkips(v, m, runAt)
    BY <1>a, <1>0, <2>2, <2>9, DelayPlace, EndedWrites DEF RetrySkips, Writes
  <2>10. ASSUME NEW runAt \in Time, RetrySchedules(v, m, runAt)
         PROVE  Stays
    <3>1. Retried(m, runAt).task = m.task
      BY <2>2, MessageTask, WorkerPlace DEF Retried, Message
    <3> QED
      BY <1>a, <1>0, <2>2, <2>10, <3>1, DelayPlace, SchedulesWrites DEF RetrySchedules, Writes
  <2>11. CASE ReturnUnstartedClaim(v, m)
    BY <1>a, <1>0, <2>2, <2>11, DelayPlace, ReturnsWrites DEF ReturnUnstartedClaim, Writes
  <2> QED
    BY <2>1, <2>3, <2>4, <2>5, <2>6, <2>7, <2>8, <2>9, <2>10, <2>11 DEF BeginStep, SettleStep
<1>4. CASE \E v \in Worker : \E m \in box[v] : RecoverAbandonedClaim(v, m) \/ MoveToReady(v, m)
  <2>0. PICK v \in Worker :
           \E m \in box[v] : RecoverAbandonedClaim(v, m) \/ MoveToReady(v, m)
    BY <1>4
  <2>1. PICK m \in box[v] : RecoverAbandonedClaim(v, m) \/ MoveToReady(v, m)
    BY <2>0
  <2>2. v \in Place /\ m.task \in Task /\ Live(m.task)
    BY <2>1, MessageTask, WorkerPlace
  <2>3. box' = Moved(v, m, "ready", m)
    BY <2>1, <2>2 DEF RecoverAbandonedClaim, MoveToReady, Live
  <2>4. \A u \in Task \ {m.task} : rec'[u] = rec[u]
    BY <2>1, <2>2, RecoversWrites, RelocatedWrites DEF MoveToReady, Writes
  <2> QED
    BY <1>a, <1>0, <2>2, <2>3, <2>4, DelayPlace
<1>5. CASE MoveDueDelay
  <2>1. PICK D \in SUBSET box["delay"] :
           /\ box' = [box EXCEPT !["delay"] = @ \ D, !["ready"] = @ \cup D]
           /\ \A t \in Task :
                 /\ rec'[t].spec = rec[t].spec /\ rec'[t].outcome = rec[t].outcome
                 /\ rec'[t].attempt = rec[t].attempt /\ rec'[t].claim = rec[t].claim
                 /\ rec'[t].location =
                       IF \E m \in D : m.task = t THEN "ready" ELSE rec[t].location
    BY <1>5, BatchWrites
  <2>2. box'[w] = box[w]
    BY <2>1, BatchHolds
  <2>3. \A m \in box[w] : \A n \in D : n.task # m.task
    BY <1>0, DelayPlace DEF TaskInv, OneMessage
  <2> QED
    BY <1>0, <2>1, <2>2, <2>3 DEF SameRecord
<1>6. CASE \E m \in box["delay"] : MoveDelayMessage(m)
  BY <1>a, <1>0, <1>6, DelayPlace, RelocatedWrites DEF MoveDelayMessage, Writes
<1>7. CASE \E p \in Place, release \in BOOLEAN : \E m \in box[p] : CancelOrPurge(p, m, release)
  <2>0. PICK p \in Place, release \in BOOLEAN : \E m \in box[p] : CancelOrPurge(p, m, release)
    BY <1>7
  <2>1. PICK m \in box[p] : CancelOrPurge(p, m, release)
    BY <2>0
  <2>2. box' = Removed(p, m) /\ rec' = Ended(m.task, PurgedOutcome(m.task), FALSE)
    BY <2>1 DEF CancelOrPurge
  <2>3. \A u \in Task \ {m.task} : rec'[u] = rec[u]
    BY <1>0, <2>2, EndedWrites DEF Writes
  <2>4. \E q : q \in Place \ {w}
    BY <1>0, DelayPlace
  <2> QED
    BY <1>a, <2>2, <2>3, <2>4
<1>8. CASE \E t, u \in Task, d \in Time \cup {None} : Replay(t, u, d)
  <2>1. PICK t \in Task, u \in Task, d \in Time \cup {None} : Replay(t, u, d)
    BY <1>8
  <2>2. /\ ~Exists(u) /\ ~Live(t)
        /\ \A v \in Task \ {t, u} : rec'[v] = rec[v]
        /\ \A p \in Place \ {"dlq", "ready"} : box'[p] = box[p]
    BY <2>1, ReplayWrites
  <2>3. \A m \in box[w] : m.task \in Task \ {t, u}
    BY <1>0, <2>2, MessageTask
  <2> QED
    BY <1>0, <2>2, <2>3 DEF SameRecord
<1>9. CASE \E t \in Task : RequeueUpdate(t)
  BY <1>0, <1>9, UpdateWrites DEF Writes, SameRecord
<1>10. CASE (\E k \in Key : OwnerExpires(k)) \/ \E c \in Conc : LeaseExpires(c)
  BY <1>10 DEF OwnerExpires, LeaseExpires, SameRecord
<1> QED
  BY <1>1, <1>2, <1>3, <1>4, <1>5, <1>6, <1>7, <1>8, <1>9, <1>10 DEF TaskStep

-----------------------------------------------------------------------------
\* A popped message is still one that waits when its attempt is begun.

LEMMA PoppedWaitsKept ==
    ASSUME TaskInv, LocalTypes, NoOddUpdate, Waiting, PoppedWaits, [Next]_vars
    PROVE  PoppedWaits'
<1> SUFFICES ASSUME NEW w \in Worker, pc'[w] = "popped",
                    NEW m \in hand'[w] \cap box'[w]
             PROVE  rec'[m.task].location # "processing"
  BY DEF PoppedWaits
<1>1. CASE Pop(w)
  <2>1. PICK x \in box["ready"] : Holds(w, {x})
    BY <1>1 DEF Pop
  <2>2. m \in box["ready"] /\ rec' = rec
    BY <1>1, <2>1 DEF Pop, Holds, LocalTypes
  <2> QED
    BY <2>2 DEF Waiting
<1>2. CASE pc[w] = "popped" /\ hand'[w] = hand[w]
  <2>1. CASE TaskStep
    <3>1. m \in box[w] /\ SameRecord(m.task)
      BY <1>2, <2>1, ListStep
    <3> QED
      BY <1>2, <3>1 DEF PoppedWaits, SameRecord
  <2>2. CASE UNCHANGED taskVars
    BY <1>2, <2>2 DEF PoppedWaits, taskVars
  <2> QED
    BY <2>1, <2>2, EveryStep
<1> QED
  BY <1>1, <1>2, PoppedBefore

-----------------------------------------------------------------------------
\* The operational_message flag.

LEMMA MovedFlag ==
    ASSUME TaskInv, OperationalFlagExact,
           NEW p \in Place, NEW q \in Place, NEW m \in box[p], NEW n,
           n.task = m.task, box' = Moved(p, m, q, n),
           NEW op, op = rec[m.task].op \/ op = TRUE, rec'[m.task].op = op,
           \A u \in Task \ {m.task} : rec'[u] = rec[u]
    PROVE  OperationalFlagExact'
<1>1. m.task \in Task /\ HasMessage(m.task) /\ rec[m.task].op
  BY MessageTask DEF HasMessage, OperationalFlagExact
<1>2. \A t \in Task : HasMessage(t)' <=> HasMessage(t)
  BY MovedHolds
<1>3. \A t \in Task : rec[t].op <=> HasMessage(t)
  BY DEF OperationalFlagExact, HasMessage
<1>4. \A t \in Task : rec'[t].op <=> HasMessage(t)'
  BY <1>1, <1>2, <1>3
<1> QED
  BY <1>4 DEF OperationalFlagExact, HasMessage

LEMMA RemovedFlag ==
    ASSUME TaskInv, OperationalFlagExact,
           NEW p \in Place, NEW m \in box[p], box' = Removed(p, m),
           rec'[m.task].op = FALSE, \A u \in Task \ {m.task} : rec'[u] = rec[u]
    PROVE  OperationalFlagExact'
<1>1. \A t \in Task : HasMessage(t)' <=> HasMessage(t) /\ t # m.task
  BY RemovedHolds
<1>2. \A t \in Task : rec[t].op <=> HasMessage(t)
  BY DEF OperationalFlagExact, HasMessage
<1>3. \A t \in Task : rec'[t].op <=> HasMessage(t)'
  BY <1>1, <1>2
<1> QED
  BY <1>3 DEF OperationalFlagExact, HasMessage

LEMMA HandFlag ==
    ASSUME TaskInv, OperationalFlagExact,
           NEW w \in Worker, NEW m \in hand[w], BeginStep(w, m) \/ SettleStep(w, m)
    PROVE  OperationalFlagExact'
<1>1. m \in box[w] /\ Live(m.task) /\ w \in Place /\ m.task \in Task /\ m \in Message
  BY HandOwned, WorkerPlace, MessageTask
<1>2. TaskTypes
  BY DEF TaskInv
<1>3. CASE BeginEnds(w, m) \/ CompleteTask(w, m) \/ \E runAt \in Time : RetrySkips(w, m, runAt)
  <2>1. box' = Removed(w, m) /\ \E outcome : rec' = Ended(m.task, outcome, FALSE)
    BY <1>3 DEF BeginEnds, CompleteTask, RetrySkips
  <2>2. rec'[m.task].op = FALSE /\ \A u \in Task \ {m.task} : rec'[u] = rec[u]
    BY <1>1, <1>2, <2>1, EndedWrites DEF Writes
  <2> QED
    BY <1>1, <2>1, <2>2, RemovedFlag
<1>4. CASE BeginFailsBudget(w, m) \/ FailTask(w, m)
  <2>1. box' = Moved(w, m, "dlq", m) /\ rec' = Ended(m.task, "failed", TRUE)
    BY <1>4 DEF BeginFailsBudget, FailTask
  <2>2. rec'[m.task].op = TRUE /\ \A u \in Task \ {m.task} : rec'[u] = rec[u]
    BY <1>1, <1>2, <2>1, EndedWrites DEF Writes
  <2> QED
    BY <1>1, <2>1, <2>2, DelayPlace, MovedFlag
<1>5. CASE BeginDefers(w, m)
  <2>1. box' = Moved(w, m, "delay", Deferred(m)) /\ rec' = Relocated(m.task, "delay")
    BY <1>5 DEF BeginDefers
  <2>2. /\ rec'[m.task].op = rec[m.task].op
        /\ \A u \in Task \ {m.task} : rec'[u] = rec[u]
    BY <1>1, <1>2, <2>1, RelocatedWrites DEF Writes
  <2>3. Deferred(m).task = m.task
    BY <1>1 DEF Deferred, Message
  <2> QED
    BY <1>1, <2>1, <2>2, <2>3, DelayPlace, MovedFlag
<1>6. ASSUME NEW tok \in Token, BeginStarts(w, m, tok)
      PROVE  OperationalFlagExact'
  <2>1. box' = Moved(w, m, w, Started(m, tok)) /\ Started(m, tok).task = m.task
    BY <1>6, StartedType DEF BeginStarts
  <2>2. /\ rec'[m.task].op = rec[m.task].op
        /\ \A u \in Task \ {m.task} : rec'[u] = rec[u]
    BY <1>1, <1>2, <1>6, StartsWrites DEF Writes
  <2> QED
    BY <1>1, <2>1, <2>2, MovedFlag
<1>7. ASSUME NEW runAt \in Time, RetrySchedules(w, m, runAt)
      PROVE  OperationalFlagExact'
  <2>1. box' = Moved(w, m, "delay", Retried(m, runAt)) /\ Retried(m, runAt).task = m.task
    BY <1>1, <1>7 DEF RetrySchedules, Retried, Message
  <2>2. rec'[m.task].op = TRUE /\ \A u \in Task \ {m.task} : rec'[u] = rec[u]
    BY <1>1, <1>2, <1>7, SchedulesWrites DEF Writes
  <2> QED
    BY <1>1, <2>1, <2>2, DelayPlace, MovedFlag
<1>8. CASE ReturnUnstartedClaim(w, m)
  <2>1. box' = Moved(w, m, "ready", m)
    BY <1>8 DEF ReturnUnstartedClaim
  <2>2. /\ rec'[m.task].op = rec[m.task].op
        /\ \A u \in Task \ {m.task} : rec'[u] = rec[u]
    BY <1>1, <1>2, <1>8, ReturnsWrites DEF Writes
  <2> QED
    BY <1>1, <2>1, <2>2, DelayPlace, MovedFlag
<1> QED
  BY <1>3, <1>4, <1>5, <1>6, <1>7, <1>8 DEF BeginStep, SettleStep

LEMMA ReplayFlag ==
    ASSUME TaskInv, OperationalFlagExact,
           NEW t \in Task, NEW u \in Task, NEW d \in Time \cup {None}, Replay(t, u, d)
    PROVE  OperationalFlagExact'
<1> DEFINE taken == IF rec[t].op THEN {m \in box["dlq"] : m.task = t} ELSE {}
           fresh == NewMessage(u, ReplaySpec(t, d))
<1>1. /\ t # u /\ ~Exists(u) /\ ~Live(t) /\ ReplaySpec(t, d) \in TaskSpec
      /\ \A v \in Task \ {t, u} : rec'[v] = rec[v]
      /\ rec'[t].op = FALSE /\ rec'[u] = NewRecord(ReplaySpec(t, d), None)
      /\ box'["dlq"] = box["dlq"] \ taken
      /\ box'["ready"] = box["ready"] \cup {fresh}
      /\ \A p \in Place \ {"dlq", "ready"} : box'[p] = box[p]
  BY ReplayWrites
<1>2. \A v \in Task : rec[v].op <=> HasMessage(v)
  BY DEF OperationalFlagExact, HasMessage
<1>3. fresh.task = u
  BY <1>1, NewMessageType
<1>4. rec'[u].op = TRUE
  BY <1>1 DEF NewRecord
<1> HIDE DEF fresh
<1>5. \A m \in box["dlq"] : m.task = t => m \in taken
  BY <1>2, DelayPlace DEF HasMessage
<1>6. \A m \in taken : m.task = t
  OBVIOUS
<1> HIDE DEF taken
<1>7. \A p \in Place : \A m \in box[p] : m.task # u /\ (m.task = t => p = "dlq")
  BY <1>1, MessageTask
<1>8. ~HasMessage(t)'
  BY <1>1, <1>3, <1>5, <1>7, DelayPlace DEF HasMessage
<1>9. HasMessage(u)'
  BY <1>1, <1>3, DelayPlace DEF HasMessage
<1>10. \A v \in Task \ {t, u} : HasMessage(v)' <=> HasMessage(v)
  <2>1. ASSUME NEW v \in Task \ {t, u}, NEW p \in Place, NEW m \in box[p], m.task = v
        PROVE  m \in box'[p]
    BY <1>1, <1>6, <2>1
  <2>2. ASSUME NEW v \in Task \ {t, u}, NEW p \in Place, NEW m \in box'[p], m.task = v
        PROVE  m \in box[p]
    BY <1>1, <1>3, <2>2
  <2> QED
    BY <2>1, <2>2 DEF HasMessage
<1>11. \A v \in Task : rec'[v].op <=> HasMessage(v)'
  BY <1>1, <1>2, <1>4, <1>8, <1>9, <1>10
<1> QED
  BY <1>11 DEF OperationalFlagExact, HasMessage

LEMMA EnqueueFlag ==
    ASSUME TaskInv, OperationalFlagExact,
           NEW t \in Task, NEW s \in Submitted, NEW allowNew \in BOOLEAN,
           EnqueueV2(t, s, allowNew)
    PROVE  OperationalFlagExact'
<1> DEFINE fresh == NewMessage(t, s)
<1>1. /\ ~Exists(t) /\ s \in TaskSpec
      /\ \A u \in Task \ {t} : rec'[u] = rec[u]
      /\ rec'[t] = NewRecord(s, CurrentOwner(s))
      /\ Destination(s) \in {"ready", "delay"}
      /\ box' = [box EXCEPT ![Destination(s)] = box[Destination(s)] \cup {fresh}]
  BY EnqueueWrites
<1>2. fresh.task = t
  BY <1>1, NewMessageType
<1>3. rec'[t].op = TRUE
  BY <1>1 DEF NewRecord
<1>4. Destination(s) \in Place
  BY <1>1, DelayPlace
<1> HIDE DEF fresh
<1>5. /\ fresh \in box'[Destination(s)]
      /\ \A p \in Place : box[p] \subseteq box'[p] /\ \A m \in box'[p] : m \in box[p] \/ m = fresh
  BY <1>1, <1>4 DEF TaskInv, TaskTypes
<1>6. HasMessage(t)' /\ \A u \in Task \ {t} : HasMessage(u)' <=> HasMessage(u)
  BY <1>2, <1>4, <1>5 DEF HasMessage
<1>7. \A u \in Task : rec[u].op <=> HasMessage(u)
  BY DEF OperationalFlagExact, HasMessage
<1>8. \A u \in Task : rec'[u].op <=> HasMessage(u)'
  BY <1>1, <1>3, <1>6, <1>7
<1> QED
  BY <1>8 DEF OperationalFlagExact, HasMessage

LEMMA BatchFlag ==
    ASSUME TaskInv, OperationalFlagExact, MoveDueDelay
    PROVE  OperationalFlagExact'
<1>1. PICK D \in SUBSET box["delay"] :
         /\ box' = [box EXCEPT !["delay"] = @ \ D, !["ready"] = @ \cup D]
         /\ \A t \in Task : rec'[t].op = rec[t].op
  BY BatchWrites
<1>2. \A t \in Task : HasMessage(t)' <=> HasMessage(t)
  BY <1>1, BatchHolds
<1>3. \A t \in Task : rec[t].op <=> HasMessage(t)
  BY DEF OperationalFlagExact, HasMessage
<1>4. \A t \in Task : rec'[t].op <=> HasMessage(t)'
  BY <1>1, <1>2, <1>3
<1> QED
  BY <1>4 DEF OperationalFlagExact, HasMessage

LEMMA TaskStepFlag ==
    ASSUME TaskInv, OperationalFlagExact, "requeue" \notin Admin, TaskStep
    PROVE  OperationalFlagExact'
<1>0. TaskTypes
  BY DEF TaskInv
<1>1. CASE \E t \in Task, s \in Submitted, allowNew \in BOOLEAN : EnqueueV2(t, s, allowNew)
  BY <1>1, EnqueueFlag
<1>2. CASE \E w \in Worker : \E m \in box["ready"] : Takes(w, m)
  <2>1. PICK w \in Worker, m \in box["ready"] : Takes(w, m)
    BY <1>2
  <2>2. box' = Moved("ready", m, w, m) /\ rec' = rec /\ w \in Place
    BY <2>1, WorkerPlace DEF Takes
  <2> QED
    BY <2>2, DelayPlace, MovedFlag
<1>3. CASE \E w \in Worker : \E m \in hand[w] : BeginStep(w, m) \/ SettleStep(w, m)
  BY <1>3, HandFlag
<1>4. CASE \E w \in Worker : \E m \in box[w] : RecoverAbandonedClaim(w, m) \/ MoveToReady(w, m)
  <2>1. PICK w \in Worker : \E m \in box[w] : RecoverAbandonedClaim(w, m) \/ MoveToReady(w, m)
    BY <1>4
  <2>2. PICK m \in box[w] : RecoverAbandonedClaim(w, m) \/ MoveToReady(w, m)
    BY <2>1
  <2>3. w \in Place /\ m.task \in Task /\ Live(m.task)
    BY MessageTask, WorkerPlace
  <2>4. box' = Moved(w, m, "ready", m)
    BY <2>2, <2>3 DEF RecoverAbandonedClaim, MoveToReady, Live
  <2>5. /\ rec'[m.task].op = rec[m.task].op
        /\ \A u \in Task \ {m.task} : rec'[u] = rec[u]
    BY <1>0, <2>2, <2>3, RecoversWrites, RelocatedWrites DEF MoveToReady, Writes
  <2> QED
    BY <2>3, <2>4, <2>5, DelayPlace, MovedFlag
<1>5. CASE MoveDueDelay
  BY <1>5, BatchFlag
<1>6. CASE \E m \in box["delay"] : MoveDelayMessage(m)
  <2>1. PICK m \in box["delay"] : MoveDelayMessage(m)
    BY <1>6
  <2>2. box' = Moved("delay", m, "ready", m) /\ rec' = Relocated(m.task, "ready")
    BY <2>1 DEF MoveDelayMessage
  <2>3. /\ rec'[m.task].op = rec[m.task].op
        /\ \A u \in Task \ {m.task} : rec'[u] = rec[u]
    BY <1>0, <2>2, DelayPlace, MessageTask, RelocatedWrites DEF Writes
  <2> QED
    BY <2>2, <2>3, DelayPlace, MovedFlag
<1>7. CASE \E p \in Place, release \in BOOLEAN : \E m \in box[p] : CancelOrPurge(p, m, release)
  <2>0. PICK p \in Place, release \in BOOLEAN : \E m \in box[p] : CancelOrPurge(p, m, release)
    BY <1>7
  <2>1. PICK m \in box[p] : CancelOrPurge(p, m, release)
    BY <2>0
  <2>2. box' = Removed(p, m) /\ rec' = Ended(m.task, PurgedOutcome(m.task), FALSE)
    BY <2>1 DEF CancelOrPurge
  <2>3. rec'[m.task].op = FALSE /\ \A u \in Task \ {m.task} : rec'[u] = rec[u]
    BY <1>0, <2>2, MessageTask, EndedWrites DEF Writes
  <2> QED
    BY <2>2, <2>3, RemovedFlag
<1>8. CASE \E t, u \in Task, d \in Time \cup {None} : Replay(t, u, d)
  BY <1>8, ReplayFlag
<1>9. CASE (\E k \in Key : OwnerExpires(k)) \/ \E c \in Conc : LeaseExpires(c)
  BY <1>9 DEF OwnerExpires, LeaseExpires, OperationalFlagExact
<1> QED
  BY <1>1, <1>2, <1>3, <1>4, <1>5, <1>6, <1>7, <1>8, <1>9 DEF TaskStep

-----------------------------------------------------------------------------
\* The retry_wait gauge.

LEMMA SameGauge ==
    ASSUME TaskInv, RetryWaitExact, Retries' = Retries, retryWait' = retryWait
    PROVE  RetryWaitExact'
BY DEF RetryWaitExact, Retries

\* A message that was not waiting goes where it does not count as a retry.
LEMMA UncountedGauge ==
    ASSUME TaskInv, RetryWaitExact, retryWait' = retryWait,
           NEW p \in Place \ {"delay"}, NEW m \in box[p],
           \/ box' = Removed(p, m)
           \/ \E q \in Place \ {"delay"} : \E n : n.task = m.task /\ box' = Moved(p, m, q, n)
           \/ \E n : /\ n.task = m.task /\ n.reason # "retry"
                     /\ box' = Moved(p, m, "delay", n)
    PROVE  RetryWaitExact'
<1>1. Retries' = Retries
  BY DelayPlace DEF TaskInv, TaskTypes, Moved, Removed, Retries
<1> QED
  BY <1>1, SameGauge

LEMMA HandGauge ==
    ASSUME TaskInv, RetryWaitExact,
           NEW w \in Worker, NEW m \in hand[w], BeginStep(w, m) \/ SettleStep(w, m)
    PROVE  RetryWaitExact'
<1>1. m \in box[w] /\ w \in Place \ {"delay"} /\ m \in Message
  BY HandOwned, WorkerPlace, MessageTask
<1>2. CASE BeginEnds(w, m) \/ CompleteTask(w, m) \/ \E runAt \in Time : RetrySkips(w, m, runAt)
  <2>1. box' = Removed(w, m) /\ retryWait' = retryWait
    BY <1>2 DEF BeginEnds, CompleteTask, RetrySkips
  <2> QED
    BY <1>1, <2>1, UncountedGauge
<1>3. CASE BeginFailsBudget(w, m) \/ FailTask(w, m) \/ ReturnUnstartedClaim(w, m)
  <2>1. /\ box' = Moved(w, m, "dlq", m) \/ box' = Moved(w, m, "ready", m)
        /\ retryWait' = retryWait
    BY <1>3 DEF BeginFailsBudget, FailTask, ReturnUnstartedClaim
  <2> QED
    BY <1>1, <2>1, DelayPlace, UncountedGauge
<1>4. CASE BeginDefers(w, m)
  <2>1. /\ box' = Moved(w, m, "delay", Deferred(m)) /\ retryWait' = retryWait
        /\ Deferred(m).task = m.task /\ Deferred(m).reason # "retry"
    BY <1>1, <1>4 DEF BeginDefers, Deferred, Message
  <2> QED
    BY <1>1, <2>1, UncountedGauge
<1>5. ASSUME NEW tok \in Token, BeginStarts(w, m, tok)
      PROVE  RetryWaitExact'
  <2>1. /\ box' = Moved(w, m, w, Started(m, tok)) /\ retryWait' = retryWait
        /\ Started(m, tok).task = m.task
    BY <1>5, StartedType DEF BeginStarts
  <2> QED
    BY <1>1, <2>1, UncountedGauge
<1>6. ASSUME NEW runAt \in Time, RetrySchedules(w, m, runAt)
      PROVE  RetryWaitExact'
  <2> DEFINE n == Retried(m, runAt)
  <2>1. box' = Moved(w, m, "delay", n) /\ retryWait' = retryWait + 1
    BY <1>6 DEF RetrySchedules
  <2>2. n.task = m.task /\ Counted("delay", n) = 1 /\ Counted(w, m) = 0
    BY <1>1 DEF Retried, Message, Counted, Waits
  <2> HIDE DEF n
  <2>3. Cardinality(Retries') = Cardinality(Retries) - 0 + 1
    BY <1>1, <2>1, <2>2, DelayPlace, MovedRetries
  <2> QED
    BY <2>1, <2>3, RetriesFinite DEF RetryWaitExact, Retries
<1> QED
  BY <1>2, <1>3, <1>4, <1>5, <1>6 DEF BeginStep, SettleStep

LEMMA BatchGauge ==
    ASSUME TaskInv, RetryWaitExact, MoveDueDelay
    PROVE  RetryWaitExact'
<1>1. PICK D \in SUBSET box["delay"] :
         /\ box' = [box EXCEPT !["delay"] = @ \ D, !["ready"] = @ \cup D]
         /\ retryWait' = Decremented(Cardinality({m \in D : m.reason = "retry"}))
  BY BatchWrites
<1> DEFINE R == {m \in D : m.reason = "retry"}
<1>2. box'["delay"] = box["delay"] \ D
  BY <1>1, DelayPlace DEF TaskInv, TaskTypes
<1>3. R \subseteq Retries /\ Retries' = Retries \ R
  BY <1>2 DEF Retries
<1>4. retryWait' = Decremented(Cardinality(R))
  BY <1>1
<1> HIDE DEF R
<1>5. IsFiniteSet(R) /\ IsFiniteSet(Retries \ R)
  BY <1>3, RetriesFinite, FS_Subset
<1>6. /\ R \cup (Retries \ R) = Retries /\ R \cap (Retries \ R) = {}
      /\ Cardinality({}) = 0
  BY <1>3, FS_EmptySet
<1>7. Cardinality(Retries) = Cardinality(R) + Cardinality(Retries \ R) - Cardinality({})
  BY <1>5, <1>6, FS_Union
<1>8. Cardinality(R) \in Nat /\ Cardinality(Retries \ R) \in Nat
  BY <1>5, FS_CardinalityType
<1>9. retryWait = Cardinality(Retries)
  BY DEF RetryWaitExact, Retries
<1>10. retryWait' = Cardinality(Retries \ R)
  BY <1>4, <1>6, <1>7, <1>8, <1>9 DEF Decremented
<1> QED
  BY <1>3, <1>10 DEF RetryWaitExact, Retries

LEMMA TaskStepGauge ==
    ASSUME TaskInv, RetryWaitExact, TaskStep
    PROVE  RetryWaitExact'
<1>0. retryWait = Cardinality(Retries)
  BY DEF RetryWaitExact, Retries
<1>1. CASE \E t \in Task, s \in Submitted, allowNew \in BOOLEAN : EnqueueV2(t, s, allowNew)
  <2>1. PICK t \in Task, s \in Submitted, allowNew \in BOOLEAN : EnqueueV2(t, s, allowNew)
    BY <1>1
  <2>2. /\ Destination(s) \in {"ready", "delay"}
        /\ box' = [box EXCEPT ![Destination(s)] = box[Destination(s)] \cup {NewMessage(t, s)}]
    BY <2>1, EnqueueWrites
  <2>3. NewMessage(t, s).reason # "retry" /\ retryWait' = retryWait
    BY <2>1 DEF NewMessage, EnqueueV2
  <2>4. Retries' = Retries
    BY <2>2, <2>3, DelayPlace DEF TaskInv, TaskTypes, Retries
  <2> QED
    BY <2>3, <2>4, SameGauge
<1>2. CASE \E w \in Worker : \E m \in box["ready"] : Takes(w, m)
  <2>1. PICK w \in Worker, m \in box["ready"] : Takes(w, m)
    BY <1>2
  <2>2. box' = Moved("ready", m, w, m) /\ retryWait' = retryWait /\ w \in Place \ {"delay"}
    BY <2>1, WorkerPlace DEF Takes
  <2> QED
    BY <2>2, DelayPlace, UncountedGauge
<1>3. CASE \E w \in Worker : \E m \in hand[w] : BeginStep(w, m) \/ SettleStep(w, m)
  BY <1>3, HandGauge
<1>4. CASE \E w \in Worker : \E m \in box[w] : RecoverAbandonedClaim(w, m) \/ MoveToReady(w, m)
  <2>1. PICK w \in Worker : \E m \in box[w] : RecoverAbandonedClaim(w, m) \/ MoveToReady(w, m)
    BY <1>4
  <2>2. PICK m \in box[w] : RecoverAbandonedClaim(w, m) \/ MoveToReady(w, m)
    BY <2>1
  <2>3. w \in Place \ {"delay"} /\ Live(m.task)
    BY MessageTask, WorkerPlace
  <2>4. box' = Moved(w, m, "ready", m) /\ retryWait' = retryWait
    BY <2>2, <2>3 DEF RecoverAbandonedClaim, MoveToReady, Live
  <2> QED
    BY <2>3, <2>4, DelayPlace, UncountedGauge
<1>5. CASE MoveDueDelay
  BY <1>5, BatchGauge
<1>6. CASE \E m \in box["delay"] : MoveDelayMessage(m)
  <2>1. PICK m \in box["delay"] : MoveDelayMessage(m)
    BY <1>6
  <2>2. box' = Moved("delay", m, "ready", m) /\ retryWait' = Decremented(Counted("delay", m))
    BY <2>1 DEF MoveDelayMessage, Counted, Waits
  <2>3. /\ Cardinality(Retries') = Cardinality(Retries) - Counted("delay", m) + Counted("ready", m)
        /\ Cardinality(Retries) >= Counted("delay", m)
    BY <2>2, DelayPlace, MovedRetries
  <2>4. Counted("ready", m) = 0 /\ Counted("delay", m) \in {0, 1}
    BY DEF Counted, Waits
  <2>5. retryWait' = Cardinality(Retries')
    BY <1>0, <2>2, <2>3, <2>4, RetriesFinite DEF Decremented
  <2> QED
    BY <2>5 DEF RetryWaitExact, Retries
<1>7. CASE \E p \in Place, release \in BOOLEAN : \E m \in box[p] : CancelOrPurge(p, m, release)
  <2>0. PICK p \in Place, release \in BOOLEAN : \E m \in box[p] : CancelOrPurge(p, m, release)
    BY <1>7
  <2>1. PICK m \in box[p] : CancelOrPurge(p, m, release)
    BY <2>0
  <2>2. box' = Removed(p, m) /\ retryWait' = Decremented(Counted(p, m))
    BY <2>1 DEF CancelOrPurge, Counted, Waits
  <2>3. /\ Cardinality(Retries') = Cardinality(Retries) - Counted(p, m)
        /\ Cardinality(Retries) >= Counted(p, m)
    BY <2>2, RemovedRetries
  <2>4. Counted(p, m) \in {0, 1}
    BY DEF Counted
  <2>5. retryWait' = Cardinality(Retries')
    BY <1>0, <2>2, <2>3, <2>4, RetriesFinite DEF Decremented
  <2> QED
    BY <2>5 DEF RetryWaitExact, Retries
<1>8. CASE \E t, u \in Task, d \in Time \cup {None} : Replay(t, u, d)
  <2>1. PICK t \in Task, u \in Task, d \in Time \cup {None} : Replay(t, u, d)
    BY <1>8
  <2>2. box'["delay"] = box["delay"] /\ retryWait' = retryWait
    BY <2>1, DelayPlace, ReplayWrites
  <2> QED
    BY <2>2, SameGauge DEF Retries
<1>9. CASE \/ \E t \in Task : RequeueUpdate(t)
           \/ \E k \in Key : OwnerExpires(k)
           \/ \E c \in Conc : LeaseExpires(c)
  BY <1>9 DEF RequeueUpdate, OwnerExpires, LeaseExpires, RetryWaitExact
<1> QED
  BY <1>1, <1>2, <1>3, <1>4, <1>5, <1>6, <1>7, <1>8, <1>9 DEF TaskStep

-----------------------------------------------------------------------------
\* The inductive invariant of the three.

IndexInv ==
    /\ Inv
    /\ NoOddUpdate
    /\ Waiting
    /\ PoppedWaits
    /\ DeadlineIndexExact
    /\ RetryWaitExact
    /\ "requeue" \notin Admin => OperationalFlagExact

LEMMA IndexInit == Init => IndexInv
<1> SUFFICES ASSUME Init PROVE IndexInv
  OBVIOUS
<1>1. \A p \in Place : box[p] = {}
  BY DEF Init
<1>2. \A t \in Task : rec[t].outcome = "absent" /\ rec[t].op = FALSE
  BY DEF Init, NoRecord
<1>3. Retries = {} /\ retryWait = 0
  BY <1>1, DelayPlace DEF Retries, Init
<1>4. NoOddUpdate /\ Waiting /\ PoppedWaits
  BY <1>1, DelayPlace DEF NoOddUpdate, Waiting, PoppedWaits, Init
<1>5. DeadlineIndexExact /\ OperationalFlagExact
  BY <1>1, <1>2 DEF DeadlineIndexExact, OperationalFlagExact, Live, Init
<1>6. RetryWaitExact
  BY <1>3, FS_EmptySet DEF RetryWaitExact, Retries
<1> QED
  BY <1>4, <1>5, <1>6, InitInv DEF IndexInv

LEMMA OddUpdateKept ==
    ASSUME NoOddUpdate, [Next]_vars
    PROVE  NoOddUpdate'
<1> SUFFICES ASSUME "requeue" \notin Admin PROVE requeueing' \subseteq requeueing
  BY DEF NoOddUpdate
<1>1. CASE Producer
  BY <1>1 DEF Producer, Enqueue
<1>2. CASE \E w \in Worker : WorkerStep(w)
  <2>1. PICK w \in Worker : WorkerStep(w)
    BY <1>2
  <2>2. CASE \/ Start(w) \/ Ready(w) \/ HeartbeatLoop(w) \/ Stop(w) \/ Exit(w)
             \/ Poll(w) \/ PopNone(w) \/ PollRaises(w) \/ Admit(w)
             \/ ReturnRaises(w) \/ FinishAbandoned(w)
    BY <2>2 DEF Start, Ready, HeartbeatLoop, Stop, Exit, Poll, PopNone, PollRaises,
       Admit, ReturnRaises, FinishAbandoned
  <2>3. CASE \/ Pop(w) \/ PopLost(w) \/ RecoverAbandoned(w) \/ MoveRetry(w)
             \/ BeginOther(w) \/ Begin(w) \/ BeginLost(w)
             \/ \E v \in Worker : RecoverStale(w, v)
    BY <2>3 DEF Pop, PopLost, RecoverAbandoned, MoveRetry, BeginOther, Begin,
       BeginLost, RecoverStale
  <2>4. CASE \/ PayloadFails(w) \/ PayloadFailLost(w) \/ ReturnUnstarted(w)
             \/ Finish(w) \/ FinishLost(w)
    BY <2>4 DEF PayloadFails, PayloadFailLost, ReturnUnstarted, Finish, FinishLost
  <2> QED
    BY <2>1, <2>2, <2>3, <2>4 DEF WorkerStep, Progress, Upset
<1>3. CASE AdminStep
  BY <1>3 DEF AdminStep, Purge, Replay, ForceRecover, Requeue, RequeueUpdate, Prune
<1>4. CASE Environment
  BY <1>4 DEF Environment, Tick, OwnerExpires, LeaseExpires, HeartbeatExpires, Crash
<1>5. CASE UNCHANGED vars
  BY <1>5 DEF vars
<1> QED
  BY <1>1, <1>2, <1>3, <1>4, <1>5 DEF Next

LEMMA IndexNext == IndexInv /\ [Next]_vars => IndexInv'
<1> SUFFICES ASSUME IndexInv, [Next]_vars PROVE IndexInv'
  OBVIOUS
<1> USE DEF IndexInv
<1>1. TaskInv /\ LocalTypes
  BY DEF Inv, LocalInv
<1>2. Inv' /\ NoOddUpdate' /\ PoppedWaits'
  BY <1>1, NextInv, OddUpdateKept, PoppedWaitsKept
<1>3. CASE TaskStep
  BY <1>1, <1>2, <1>3, TaskStepIndexed, TaskStepGauge, TaskStepFlag
<1>4. CASE UNCHANGED taskVars
  <2>1. UNCHANGED <<box, rec, deadlines, retryWait>>
    BY <1>4 DEF taskVars
  <2>2. Waiting' /\ DeadlineIndexExact' /\ RetryWaitExact'
    BY <2>1 DEF Waiting, DeadlineIndexExact, Live, RetryWaitExact
  <2>3. "requeue" \notin Admin => OperationalFlagExact'
    BY <2>1 DEF OperationalFlagExact
  <2> QED
    BY <1>2, <2>2, <2>3
<1> QED
  BY <1>1, <1>3, <1>4, EveryStep

\* Indexes, gauge and flag agree with the messages in every reachable state.
THEOREM IndexInvHolds == Spec => []IndexInv
BY IndexInit, IndexNext, PTL DEF Spec

\* The start-deadline index holds exactly the live tasks with a deadline that
\* wait to be begun, whatever interleaving of enqueues, replays, begins,
\* returns, retries, recoveries and purges led there.
THEOREM DeadlineIndexExactHolds == Spec => []DeadlineIndexExact
<1>1. IndexInv => DeadlineIndexExact
  BY DEF IndexInv
<1> QED
  BY <1>1, IndexInvHolds, PTL

\* The retry_wait gauge, which scripts add to and subtract from and nobody
\* recounts, is the number of retries in delay: the cut-off at zero never
\* hides a miscount.
THEOREM RetryWaitExactHolds == Spec => []RetryWaitExact
<1>1. IndexInv => RetryWaitExact
  BY DEF IndexInv
<1> QED
  BY <1>1, IndexInvHolds, PTL

\* operational_message is set exactly while the task has a message, as long as
\* no operator requeues: requeue_task sets it in a second call, when the task
\* may be over.
THEOREM OperationalFlagExactHolds ==
    ASSUME "requeue" \notin Admin
    PROVE  Spec => []OperationalFlagExact
<1>1. IndexInv => OperationalFlagExact
  BY DEF IndexInv
<1> QED
  BY <1>1, IndexInvHolds, PTL
=============================================================================
