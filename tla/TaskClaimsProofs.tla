-------------------------- MODULE TaskClaimsProofs --------------------------
(***************************************************************************)
(* What a worker holds, what it may still give back, and the budget: no    *)
(* handler runs more often than max_attempts, and the queue implements the *)
(* task lifecycle.  It rests on what a worker's list may hold at each      *)
(* stage of its loop, which a second process with the id of a live one     *)
(* would break: ReuseLiveId is assumed false where the budget is meant.    *)
(***************************************************************************)
EXTENDS TaskIndexesProofs

\* The steps that move the main thread of w, ...
Turn(w) ==
    \/ Start(w) \/ Ready(w) \/ Exit(w) \/ Poll(w) \/ MoveRetry(w)
    \/ Pop(w) \/ PopLost(w) \/ PopNone(w) \/ PollRaises(w)
    \/ BeginOther(w) \/ Begin(w) \/ BeginLost(w)
    \/ PayloadFails(w) \/ PayloadFailLost(w) \/ Admit(w)
    \/ ReturnUnstarted(w) \/ ReturnRaises(w)
    \/ Finish(w) \/ FinishAbandoned(w) \/ Crash(w)

\* ... and what is so in all others.
Still(w) ==
    /\ pc'[w] = pc[w] /\ hand'[w] = hand[w] /\ spent'[w] = spent[w]
    /\ w \in stop => w \in stop'

LEMMA Turns ==
    ASSUME LocalTypes, [Next]_vars, NEW w \in Worker
    PROVE  Turn(w) \/ Still(w)
<1>1. CASE \E v \in Worker \ {w} : WorkerStep(v)
  BY <1>1, OtherWorker DEF Still
<1>2. CASE WorkerStep(w)
  <2>1. CASE \/ HeartbeatLoop(w) \/ Stop(w) \/ RecoverAbandoned(w) \/ FinishLost(w)
             \/ \E v \in Worker : RecoverStale(w, v)
    BY <2>1 DEF HeartbeatLoop, Stop, RecoverAbandoned, FinishLost, RecoverStale,
       Still, localVars
  <2> QED
    BY <1>2, <2>1 DEF WorkerStep, Progress, Upset, Turn
<1>3. CASE \E v \in Worker : Crash(v)
  BY <1>3 DEF Crash, Goto, Holds, Still, Turn, LocalTypes
<1>4. CASE ~(\E v \in Worker : WorkerStep(v)) /\ ~\E v \in Worker : Crash(v)
  BY <1>4, OutsideStep DEF Next, localVars, Still
<1> QED
  BY <1>1, <1>2, <1>3, <1>4

\* Stop() is remembered until the process ends.
LEMMA StopLasts ==
    ASSUME LocalTypes, [Next]_vars, NEW w \in Worker, w \in stop, pc'[w] # "down"
    PROVE  w \in stop'
<1> USE DEF Goto, LocalTypes
<1>1. CASE Turn(w)
  <2>1. CASE Exit(w) \/ Crash(w)
    BY <2>1 DEF Exit, Crash
  <2>2. CASE ~(Exit(w) \/ Crash(w))
    BY <1>1, <2>2 DEF Turn, Start, Ready, Poll, MoveRetry, Pop, PopLost, PopNone,
       PollRaises, BeginOther, Begin, BeginLost, PayloadFails, PayloadFailLost,
       Admit, ReturnUnstarted, ReturnRaises, Finish, FinishAbandoned
  <2> QED
    BY <2>1, <2>2
<1>2. CASE Still(w)
  BY <1>2 DEF Still
<1> QED
  BY <1>1, <1>2, Turns

-----------------------------------------------------------------------------
\* The registry finds every list that holds something.

Registered == \A w \in Worker : Running(w) \/ box[w] # {} => w \in registry

LEMMA RunningBefore ==
    ASSUME LocalTypes, [Next]_vars, NEW w \in Worker, Running(w)'
    PROVE  Running(w) \/ (Ready(w) /\ w \in registry')
<1> USE DEF Goto, LocalTypes, Running
<1>1. CASE Turn(w)
  <2>1. CASE Start(w) \/ Ready(w) \/ Exit(w) \/ Crash(w)
    BY <2>1 DEF Start, Ready, Exit, Crash
  <2>2. CASE ~(Start(w) \/ Ready(w) \/ Exit(w) \/ Crash(w))
    BY <1>1, <2>2 DEF Turn, Poll, MoveRetry, Pop, PopLost, PopNone,
       PollRaises, BeginOther, Begin, BeginLost, PayloadFails, PayloadFailLost,
       Admit, ReturnUnstarted, ReturnRaises, Finish, FinishAbandoned
  <2> QED
    BY <2>1, <2>2
<1>2. CASE Still(w)
  BY <1>2 DEF Still
<1> QED
  BY <1>1, <1>2, Turns

\* Unless list_workers prunes, only the clean-up of an empty list unregisters.
LEMMA RegistryLasts ==
    ASSUME LocalTypes, [Next]_vars, "prune" \notin Admin,
           NEW w \in registry, w \notin registry'
    PROVE  pc'[w] = "down" /\ box[w] = {} /\ box' = box
<1>1. CASE Producer \/ Environment \/ UNCHANGED vars
  BY <1>1 DEF Producer, Enqueue, Environment, Tick, OwnerExpires, LeaseExpires,
     HeartbeatExpires, Crash, vars, liveVars
<1>2. CASE AdminStep
  BY <1>2 DEF AdminStep, Purge, Replay, ForceRecover, Requeue, RequeueUpdate, Prune,
     liveVars
<1>3. CASE \E v \in Worker : WorkerStep(v)
  <2>1. PICK v \in Worker : WorkerStep(v)
    BY <1>3
  <2>2. v = w
    BY <2>1, OtherWorker DEF LocalTypes
  <2>3. CASE \/ Start(v) \/ Ready(v) \/ HeartbeatLoop(v) \/ Stop(v) \/ Poll(v)
             \/ PopNone(v) \/ PollRaises(v) \/ Admit(v)
             \/ ReturnRaises(v) \/ FinishAbandoned(v)
    BY <2>3 DEF Start, Ready, HeartbeatLoop, Stop, Poll, PopNone, PollRaises, Admit,
       ReturnRaises, FinishAbandoned, liveVars
  <2>4. CASE \/ Pop(v) \/ PopLost(v) \/ RecoverAbandoned(v) \/ MoveRetry(v)
             \/ BeginOther(v) \/ Begin(v) \/ BeginLost(v)
             \/ \E u \in Worker : RecoverStale(v, u)
    BY <2>4 DEF Pop, PopLost, RecoverAbandoned, MoveRetry, BeginOther, Begin,
       BeginLost, RecoverStale, liveVars
  <2>5. CASE \/ PayloadFails(v) \/ PayloadFailLost(v) \/ ReturnUnstarted(v)
             \/ Finish(v) \/ FinishLost(v)
    BY <2>5 DEF PayloadFails, PayloadFailLost, ReturnUnstarted, Finish, FinishLost, liveVars
  <2>6. CASE Exit(v)
    BY <2>2, <2>6 DEF Exit, Goto, taskVars, LocalTypes
  <2> QED
    BY <2>1, <2>3, <2>4, <2>5, <2>6 DEF WorkerStep, Progress, Upset
<1> QED
  BY <1>1, <1>2, <1>3 DEF Next

LEMMA RegisteredKept ==
    ASSUME IndexInv, Registered, "prune" \notin Admin, [Next]_vars
    PROVE  Registered'
<1>1. TaskInv /\ LocalTypes /\ NoOddUpdate
  BY DEF IndexInv, Inv, LocalInv
<1> SUFFICES ASSUME NEW w \in Worker, Running(w)' \/ box'[w] # {}
             PROVE  w \in registry'
  BY DEF Registered
<1>2. CASE Ready(w) /\ w \in registry'
  BY <1>2
<1>3. CASE Running(w) \/ box[w] # {}
  <2>1. w \in registry
    BY <1>3 DEF Registered
  <2>2. CASE w \notin registry'
    BY <1>1, <2>1, <2>2, RegistryLasts DEF Running
  <2> QED
    BY <2>2
<1>4. CASE box'[w] # {} /\ ~Running(w) /\ box[w] = {}
  <2>1. CASE TaskStep
    BY <1>1, <1>4, <2>1, ListStep DEF Running
  <2>2. CASE UNCHANGED taskVars
    BY <1>4, <2>2 DEF taskVars
  <2> QED
    BY <1>1, <2>1, <2>2, EveryStep
<1> QED
  BY <1>1, <1>2, <1>3, <1>4, RunningBefore

LEMMA RegisteredInit == Init => Registered
BY WorkerPlace DEF Init, Registered, Running

\* Unless list_workers prunes, the list a worker left behind is always reachable
\* through the registry: at any moment of start, poll, stop or crash, and under
\* every recovery that moves messages at the same time.
THEOREM CrashedClaimsReachableHolds ==
    ASSUME "prune" \notin Admin
    PROVE  Spec => []CrashedClaimsReachable
<1>1. Init => IndexInv /\ Registered
  BY IndexInit, RegisteredInit
<1>2. IndexInv /\ Registered /\ [Next]_vars => IndexInv' /\ Registered'
  BY IndexNext, RegisteredKept
<1>3. Registered => CrashedClaimsReachable
  BY DEF Registered, CrashedClaimsReachable
<1> QED
  BY <1>1, <1>2, <1>3, PTL DEF Spec

-----------------------------------------------------------------------------
\* What the list and the hand of a worker hold at each stage.

\* The loop pops only into an empty list: what is in the list is what is in
\* the hand, until the claim is settled or dropped.
ListAtStage ==
    \A w \in Worker :
        /\ pc[w] = "pop" => box[w] = {}
        /\ pc[w] \in {"popped", "claimed", "running"} => box[w] \subseteq hand[w]

\* One message at a time, of a task that was accepted.
HandAtStage ==
    \A w \in Worker :
        /\ \A m, n \in hand[w] : m = n
        /\ \A m \in hand[w] : m.task \in Task /\ Exists(m.task)

\* A starting worker has no heartbeat, unless its id is that of a live one.
StartsDead ==
    ~ReuseLiveId => \A w \in Worker : pc[w] = "starting" => w \notin heartbeat

ClaimsInv == IndexInv /\ ListAtStage /\ HandAtStage /\ StartsDead

\* Whatever the worker's script says of the only message of its list, the list
\* is empty afterwards, but for a begin that starts it.
LEMMA ListEmptied ==
    ASSUME TaskInv, HandAtStage, NEW w \in Worker, NEW m \in hand[w],
           box[w] \subseteq hand[w],
           \/ BeginEnds(w, m) \/ BeginFailsBudget(w, m) \/ BeginDefers(w, m)
           \/ BeginIgnores(w, m)
           \/ CompleteTask(w, m) \/ (\E permanent \in BOOLEAN : Fail(w, m, permanent))
           \/ ReturnUnstartedClaim(w, m)
    PROVE  box'[w] = {}
<1>0. /\ w \in Place /\ w \notin {"dlq", "ready", "delay"}
      /\ \A x \in box[w] : x = m /\ x.task \in Task /\ Live(x.task) /\ x \in Message
  BY WorkerPlace, MessageTask DEF HandAtStage
<1>a. ASSUME m \in box[w],
             \/ box' = Removed(w, m)
             \/ \E q \in Place \ {w} : \E n : n.task = m.task /\ box' = Moved(w, m, q, n)
      PROVE  box'[w] = {}
  BY <1>0, <1>a, MovedHolds, RemovedHolds
<1>1. CASE m \notin box[w]
  <2>1. box[w] = {}
    BY <1>0, <1>1
  <2>2. ~Owned(w, m)
    BY <1>1 DEF Owned
  <2>3. UNCHANGED taskVars
    BY <2>2 DEF BeginEnds, BeginFailsBudget, BeginDefers, BeginIgnores, BeginCode,
       CompleteTask, Fail, FailTask, RetrySkips, RetrySchedules, NotOwned,
       ReturnUnstartedClaim, Returnable
  <2> QED
    BY <2>1, <2>3 DEF taskVars
<1>2. CASE m \in box[w]
  <2>0. Owned(w, m)
    BY <1>0, <1>2 DEF Owned
  <2>1. CASE BeginEnds(w, m) \/ CompleteTask(w, m)
    BY <1>a, <1>2, <2>1 DEF BeginEnds, CompleteTask
  <2>2. CASE BeginFailsBudget(w, m) \/ FailTask(w, m) \/ ReturnUnstartedClaim(w, m)
    <3>1. box' = Moved(w, m, "dlq", m) \/ box' = Moved(w, m, "ready", m)
      BY <2>2 DEF BeginFailsBudget, FailTask, ReturnUnstartedClaim
    <3> QED
      BY <1>a, <1>0, <1>2, <3>1, DelayPlace
  <2>3. CASE BeginDefers(w, m)
    <3>1. box' = Moved(w, m, "delay", Deferred(m)) /\ Deferred(m).task = m.task
      BY <1>0, <1>2, <2>3 DEF BeginDefers, Deferred, Message
    <3> QED
      BY <1>a, <1>0, <1>2, <3>1, DelayPlace
  <2>4. CASE BeginIgnores(w, m)
    <3>1. BeginCode(w, m) # "ignored"
      BY <2>0 DEF BeginCode
    <3> QED
      BY <2>4, <3>1 DEF BeginIgnores
  <2>5. ASSUME NEW permanent \in BOOLEAN, Fail(w, m, permanent), ~FailTask(w, m)
        PROVE  box'[w] = {}
    <3>1. PICK runAt \in Time : RetrySkips(w, m, runAt) \/ RetrySchedules(w, m, runAt)
      BY <2>0, <2>5 DEF Fail, NotOwned
    <3>2. CASE RetrySkips(w, m, runAt)
      BY <1>a, <1>2, <3>2 DEF RetrySkips
    <3>3. CASE RetrySchedules(w, m, runAt)
      <4>1. box' = Moved(w, m, "delay", Retried(m, runAt)) /\ Retried(m, runAt).task = m.task
        BY <1>0, <1>2, <3>3 DEF RetrySchedules, Retried, Message
      <4> QED
        BY <1>a, <1>0, <1>2, <4>1, DelayPlace
    <3> QED
      BY <3>1, <3>2, <3>3
  <2> QED
    BY <2>1, <2>2, <2>3, <2>4, <2>5
<1> QED
  BY <1>1, <1>2

\* A begin leaves its own message, begun, in the list.
LEMMA ListBegun ==
    ASSUME TaskInv, HandAtStage, NEW w \in Worker, NEW m \in hand[w], NEW tok \in Token,
           box[w] \subseteq hand[w], BeginStarts(w, m, tok)
    PROVE  /\ box'[w] = {Started(m, tok)}
           /\ m \in box[w] /\ Live(m.task) /\ Started(m, tok).task = m.task
<1>1. m \in box[w] /\ Live(m.task) /\ w \in Place
  BY BeginOwned, WorkerPlace DEF BeginStarts, Owned
<1>2. box' = Moved(w, m, w, Started(m, tok)) /\ Started(m, tok).task = m.task
  BY StartedType DEF BeginStarts
<1>3. \A x \in box[w] : x = m
  BY DEF HandAtStage
<1>4. Started(m, tok) \in box'[w] /\ \A x \in box'[w] : x = Started(m, tok) \/ (x \in box[w] /\ x.task # m.task)
  BY <1>1, <1>2, MovedHolds
<1> QED
  BY <1>1, <1>2, <1>3, <1>4

\* Of a list its own worker does not touch, messages only leave.
LEMMA ListShrinks ==
    ASSUME TaskInv, TaskStep \/ UNCHANGED taskVars, NEW w \in Worker,
           pc'[w] = pc[w] \/ pc[w] \notin {"pop", "popped"}
    PROVE  \A m \in box'[w] : m \in box[w] /\ SameRecord(m.task)
<1>1. CASE TaskStep
  BY <1>1, ListStep
<1>2. CASE UNCHANGED taskVars
  BY <1>2 DEF taskVars, SameRecord
<1> QED
  BY <1>1, <1>2

-----------------------------------------------------------------------------
\* Outcomes and attempts: which script changes which.

\* Tasks are accepted and closed one at a time, and only a handler completes one.
Accepts(t) ==
    /\ ~Exists(t) /\ rec'[t].outcome = "live"
    /\ \A u \in Task \ {t} : rec'[u].outcome = rec[u].outcome

Closes(t) ==
    /\ Live(t) /\ rec'[t].outcome \in Terminal
    /\ \A u \in Task \ {t} : rec'[u].outcome = rec[u].outcome
    /\ rec'[t].outcome = "completed" =>
          \E w \in Worker : pc[w] = "running" /\ \E m \in hand[w] : m.task = t

SameOutcomes == \A t \in Task : rec'[t].outcome = rec[t].outcome

LEMMA WritesCloses ==
    ASSUME NEW t \in Task, Live(t), NEW outcome \in Terminal \ {"completed"},
           NEW location, NEW op, NEW attempt, NEW claim,
           Writes(t, outcome, location, op, attempt, claim)
    PROVE  Closes(t)
BY DEF Writes, Closes

LEMMA OutcomeStep ==
    ASSUME TaskInv, TaskStep
    PROVE  SameOutcomes \/ \E t \in Task : Accepts(t) \/ Closes(t)
<1>0. TaskTypes
  BY DEF TaskInv
<1>1. CASE \E t \in Task, s \in Submitted, allowNew \in BOOLEAN : EnqueueV2(t, s, allowNew)
  <2>1. PICK t \in Task, s \in Submitted, allowNew \in BOOLEAN : EnqueueV2(t, s, allowNew)
    BY <1>1
  <2>2. /\ ~Exists(t) /\ \A u \in Task \ {t} : rec'[u] = rec[u]
        /\ rec'[t] = NewRecord(s, CurrentOwner(s))
    BY <2>1, EnqueueWrites
  <2>3. rec'[t].outcome = "live"
    BY <2>2 DEF NewRecord
  <2> QED
    BY <2>2, <2>3 DEF Accepts
<1>2. CASE \E w \in Worker : \E m \in box["ready"] : Takes(w, m)
  BY <1>2 DEF Takes, SameOutcomes
<1>3. CASE \E w \in Worker : \E m \in hand[w] : BeginStep(w, m) \/ SettleStep(w, m)
  <2>1. PICK w \in Worker : \E m \in hand[w] : BeginStep(w, m) \/ SettleStep(w, m)
    BY <1>3
  <2>2. PICK m \in hand[w] : BeginStep(w, m) \/ SettleStep(w, m)
    BY <2>1
  <2>3. m.task \in Task /\ Live(m.task)
    BY <2>2, HandOwned, WorkerPlace, MessageTask
  <2>4. CASE BeginEnds(w, m)
    <3>1. BeginCode(w, m) \in Terminal \ {"completed"}
      BY <2>4 DEF BeginEnds, Terminal
    <3> QED
      BY <1>0, <2>3, <2>4, <3>1, EndedWrites, WritesCloses DEF BeginEnds
  <2>5. CASE BeginFailsBudget(w, m) \/ FailTask(w, m)
    BY <1>0, <2>3, <2>5, EndedWrites, WritesCloses DEF BeginFailsBudget, FailTask, Terminal
  <2>6. CASE \E runAt \in Time : RetrySkips(w, m, runAt)
    BY <1>0, <2>3, <2>6, EndedWrites, WritesCloses DEF RetrySkips, Terminal
  <2>7. CASE BeginDefers(w, m)
    BY <1>0, <2>3, <2>7, RelocatedWrites DEF BeginDefers, Writes, SameOutcomes
  <2>8. CASE \E tok \in Token : BeginStarts(w, m, tok)
    BY <1>0, <2>3, <2>8, StartsWrites DEF Writes, SameOutcomes
  <2>9. CASE \E runAt \in Time : RetrySchedules(w, m, runAt)
    BY <1>0, <2>3, <2>9, SchedulesWrites DEF Writes, SameOutcomes
  <2>10. CASE ReturnUnstartedClaim(w, m)
    BY <1>0, <2>3, <2>10, ReturnsWrites DEF Writes, SameOutcomes
  <2>11. CASE pc[w] = "running" /\ CompleteTask(w, m)
    <3>1. rec' = Ended(m.task, "completed", FALSE)
      BY <2>11 DEF CompleteTask
    <3>2. /\ rec'[m.task].outcome = "completed"
          /\ \A u \in Task \ {m.task} : rec'[u] = rec[u]
      BY <1>0, <2>3, <3>1, EndedWrites DEF Writes
    <3>3. Closes(m.task)
      BY <2>3, <2>11, <3>2 DEF Closes, Terminal
    <3> QED
      BY <2>3, <3>3
  <2> QED
    BY <2>2, <2>4, <2>5, <2>6, <2>7, <2>8, <2>9, <2>10, <2>11 DEF BeginStep, SettleStep
<1>4. CASE \E w \in Worker : \E m \in box[w] : RecoverAbandonedClaim(w, m) \/ MoveToReady(w, m)
  <2>1. PICK w \in Worker : \E m \in box[w] : RecoverAbandonedClaim(w, m) \/ MoveToReady(w, m)
    BY <1>4
  <2>2. PICK m \in box[w] : RecoverAbandonedClaim(w, m) \/ MoveToReady(w, m)
    BY <2>1
  <2>3. m.task \in Task /\ Live(m.task)
    BY MessageTask, WorkerPlace
  <2> QED
    BY <1>0, <2>2, <2>3, RecoversWrites, RelocatedWrites
       DEF MoveToReady, Writes, SameOutcomes, Live
<1>5. CASE MoveDueDelay
  <2>1. \A t \in Task : rec'[t].outcome = rec[t].outcome
    BY <1>5, BatchWrites
  <2> QED
    BY <2>1 DEF SameOutcomes
<1>6. CASE \E m \in box["delay"] : MoveDelayMessage(m)
  BY <1>0, <1>6, DelayPlace, MessageTask, RelocatedWrites
     DEF MoveDelayMessage, Writes, SameOutcomes
<1>7. CASE \E p \in Place, release \in BOOLEAN : \E m \in box[p] : CancelOrPurge(p, m, release)
  <2>0. PICK p \in Place, release \in BOOLEAN : \E m \in box[p] : CancelOrPurge(p, m, release)
    BY <1>7
  <2>1. PICK m \in box[p] : CancelOrPurge(p, m, release)
    BY <2>0
  <2>2. m.task \in Task
    BY MessageTask
  <2>3. Writes(m.task, PurgedOutcome(m.task), "history", FALSE,
               rec[m.task].attempt, rec[m.task].claim)
    BY <1>0, <2>1, <2>2, EndedWrites DEF CancelOrPurge
  <2>4. CASE Live(m.task)
    BY <2>2, <2>3, <2>4, WritesCloses DEF PurgedOutcome, Terminal
  <2>5. CASE ~Live(m.task)
    BY <2>2, <2>3, <2>5 DEF PurgedOutcome, Writes, SameOutcomes
  <2> QED
    BY <2>4, <2>5
<1>8. CASE \E t, u \in Task, d \in Time \cup {None} : Replay(t, u, d)
  <2>1. PICK t \in Task, u \in Task, d \in Time \cup {None} : Replay(t, u, d)
    BY <1>8
  <2>2. /\ t # u /\ ~Exists(u) /\ \A v \in Task \ {t, u} : rec'[v] = rec[v]
        /\ rec'[t].outcome = rec[t].outcome
        /\ rec'[u] = NewRecord(ReplaySpec(t, d), None)
    BY <2>1, ReplayWrites
  <2>3. rec'[u].outcome = "live"
    BY <2>2 DEF NewRecord
  <2> QED
    BY <2>2, <2>3 DEF Accepts
<1>9. CASE \E t \in Task : RequeueUpdate(t)
  BY <1>0, <1>9, UpdateWrites DEF Writes, SameOutcomes
<1>10. CASE (\E k \in Key : OwnerExpires(k)) \/ \E c \in Conc : LeaseExpires(c)
  BY <1>10 DEF OwnerExpires, LeaseExpires, SameOutcomes
<1> QED
  BY <1>1, <1>2, <1>3, <1>4, <1>5, <1>6, <1>7, <1>8, <1>9, <1>10 DEF TaskStep

LEMMA ExistsLasts ==
    ASSUME TaskInv, TaskStep \/ UNCHANGED taskVars, NEW t \in Task, Exists(t)
    PROVE  Exists(t)'
<1>1. CASE TaskStep
  BY <1>1, OutcomeStep DEF SameOutcomes, Accepts, Closes, Exists, Terminal
<1>2. CASE UNCHANGED taskVars
  BY <1>2 DEF taskVars, Exists
<1> QED
  BY <1>1, <1>2

\* Why the attempt number of t changes.
Counts(t) ==
    /\ rec'[t].attempt = rec[t].attempt + 1
    /\ \E w \in Worker :
          /\ pc[w] = "popped" /\ pc'[w] # "popped"
          /\ \E m \in hand[w], tok \in Token : m.task = t /\ BeginStarts(w, m, tok)

Returns(t) ==
    /\ rec'[t].attempt = rec[t].attempt - 1
    /\ \E w \in Worker :
          /\ pc[w] = "claimed" /\ pc'[w] # "claimed"
          /\ \E m \in hand[w] : m.task = t

Refunds(t) ==
    /\ rec'[t].attempt = rec[t].attempt - 1
    /\ \E w \in Worker :
          /\ pc[w] = "recover"
          /\ \E m \in box[w] : /\ m.task = t /\ Refundable(w, m)
                               /\ box' = Moved(w, m, "ready", m)

LEMMA AttemptStep ==
    ASSUME TaskInv, TaskStep, NEW t \in Task
    PROVE  \/ rec'[t].attempt = rec[t].attempt
           \/ ~Exists(t) /\ rec'[t].attempt = 0
           \/ Counts(t) \/ Returns(t) \/ Refunds(t)
<1>0. TaskTypes
  BY DEF TaskInv
<1>1. CASE \E x \in Task, s \in Submitted, allowNew \in BOOLEAN : EnqueueV2(x, s, allowNew)
  <2>1. PICK x \in Task, s \in Submitted, allowNew \in BOOLEAN : EnqueueV2(x, s, allowNew)
    BY <1>1
  <2>2. /\ ~Exists(x) /\ \A u \in Task \ {x} : rec'[u] = rec[u]
        /\ rec'[x] = NewRecord(s, CurrentOwner(s))
    BY <2>1, EnqueueWrites
  <2>3. rec'[x].attempt = 0
    BY <2>2 DEF NewRecord
  <2> QED
    BY <2>2, <2>3
<1>2. CASE \E w \in Worker : \E m \in box["ready"] : Takes(w, m)
  BY <1>2 DEF Takes
<1>3. CASE \E w \in Worker : \E m \in hand[w] : BeginStep(w, m) \/ SettleStep(w, m)
  <2>1. PICK w \in Worker : \E m \in hand[w] : BeginStep(w, m) \/ SettleStep(w, m)
    BY <1>3
  <2>2. PICK m \in hand[w] : BeginStep(w, m) \/ SettleStep(w, m)
    BY <2>1
  <2>3. m.task \in Task /\ Live(m.task)
    BY <2>2, HandOwned, WorkerPlace, MessageTask
  <2>4. CASE \/ BeginEnds(w, m) \/ BeginFailsBudget(w, m) \/ FailTask(w, m)
             \/ CompleteTask(w, m) \/ \E runAt \in Time : RetrySkips(w, m, runAt)
    BY <1>0, <2>3, <2>4, EndedWrites
       DEF BeginEnds, BeginFailsBudget, FailTask, CompleteTask, RetrySkips, Writes
  <2>5. CASE BeginDefers(w, m)
    BY <1>0, <2>3, <2>5, RelocatedWrites DEF BeginDefers, Writes
  <2>6. CASE BeginStep(w, m) /\ \E tok \in Token : BeginStarts(w, m, tok)
    BY <1>0, <2>3, <2>6, StartsWrites DEF BeginStep, Writes, Counts
  <2>7. CASE \E runAt \in Time : RetrySchedules(w, m, runAt)
    BY <1>0, <2>3, <2>7, SchedulesWrites DEF Writes
  <2>8. CASE pc[w] = "claimed" /\ pc'[w] # "claimed" /\ ReturnUnstartedClaim(w, m)
    BY <1>0, <2>3, <2>8, ReturnsWrites DEF Writes, Returns
  <2> QED
    BY <2>2, <2>4, <2>5, <2>6, <2>7, <2>8 DEF BeginStep, SettleStep
<1>4. CASE \E w \in Worker : pc[w] = "recover" /\ \E m \in box[w] : RecoverAbandonedClaim(w, m)
  <2>1. PICK w \in Worker : pc[w] = "recover" /\ \E m \in box[w] : RecoverAbandonedClaim(w, m)
    BY <1>4
  <2>2. PICK m \in box[w] : RecoverAbandonedClaim(w, m)
    BY <2>1
  <2>3. m.task \in Task /\ Live(m.task) /\ rec[m.task].attempt \in Nat
    BY <1>0, MessageTask, WorkerPlace DEF TaskTypes, Record
  <2>4. /\ \A u \in Task \ {m.task} : rec'[u] = rec[u]
        /\ rec'[m.task].attempt = rec[m.task].attempt - (IF Refundable(w, m) THEN 1 ELSE 0)
    BY <1>0, <2>2, <2>3, RecoversWrites DEF Writes
  <2>5. box' = Moved(w, m, "ready", m)
    BY <2>2, <2>3 DEF RecoverAbandonedClaim, Live
  <2> QED
    BY <2>1, <2>3, <2>4, <2>5 DEF Refunds
<1>5. CASE \E w \in Worker : \E m \in box[w] : MoveToReady(w, m)
  <2>1. PICK w \in Worker : \E m \in box[w] : MoveToReady(w, m)
    BY <1>5
  <2>2. PICK m \in box[w] : MoveToReady(w, m)
    BY <2>1
  <2>3. m.task \in Task
    BY MessageTask, WorkerPlace
  <2> QED
    BY <1>0, <2>2, <2>3, RelocatedWrites DEF MoveToReady, Writes
<1>6. CASE MoveDueDelay
  BY <1>6, BatchWrites
<1>7. CASE \E m \in box["delay"] : MoveDelayMessage(m)
  BY <1>0, <1>7, DelayPlace, MessageTask, RelocatedWrites DEF MoveDelayMessage, Writes
<1>8. CASE \E p \in Place, release \in BOOLEAN : \E m \in box[p] : CancelOrPurge(p, m, release)
  BY <1>0, <1>8, MessageTask, EndedWrites DEF CancelOrPurge, Writes
<1>9. CASE \E x, u \in Task, d \in Time \cup {None} : Replay(x, u, d)
  <2>1. PICK x \in Task, u \in Task, d \in Time \cup {None} : Replay(x, u, d)
    BY <1>9
  <2>2. /\ ~Exists(u) /\ \A v \in Task \ {x, u} : rec'[v] = rec[v]
        /\ rec'[x].attempt = rec[x].attempt
        /\ rec'[u] = NewRecord(ReplaySpec(x, d), None)
    BY <2>1, ReplayWrites
  <2>3. rec'[u].attempt = 0
    BY <2>2 DEF NewRecord
  <2> QED
    BY <2>2, <2>3
<1>10. CASE \E x \in Task : RequeueUpdate(x)
  BY <1>0, <1>10, UpdateWrites DEF Writes
<1>11. CASE (\E k \in Key : OwnerExpires(k)) \/ \E c \in Conc : LeaseExpires(c)
  BY <1>11 DEF OwnerExpires, LeaseExpires
<1> QED
  BY <1>1, <1>2, <1>3, <1>4, <1>5, <1>6, <1>7, <1>8, <1>9, <1>10, <1>11 DEF TaskStep

-----------------------------------------------------------------------------
\* Hand and list keep their shape.

LEMMA HandStep ==
    ASSUME LocalTypes, [Next]_vars, NEW w \in Worker
    PROVE  \/ hand'[w] = hand[w]
           \/ hand'[w] = {}
           \/ Pop(w) /\ \E m \in box["ready"] : hand'[w] = {m}
           \/ Begin(w) /\ \E m \in hand[w], tok \in Token :
                 BeginStarts(w, m, tok) /\ hand'[w] = {Started(m, tok)}
<1> USE DEF Holds, BackToPoll, LocalTypes
<1>1. CASE Still(w)
  BY <1>1 DEF Still
<1>2. CASE \/ Start(w) \/ Ready(w) \/ Exit(w) \/ Poll(w) \/ MoveRetry(w) \/ Admit(w)
  BY <1>2 DEF Start, Ready, Exit, Poll, MoveRetry, Admit
<1>3. CASE Pop(w)
  BY <1>3 DEF Pop
<1>4. CASE Begin(w)
  BY <1>4 DEF Begin
<1>5. CASE \/ PopLost(w) \/ PopNone(w) \/ PollRaises(w) \/ BeginOther(w) \/ BeginLost(w)
           \/ PayloadFails(w) \/ PayloadFailLost(w) \/ ReturnUnstarted(w)
           \/ ReturnRaises(w) \/ Finish(w) \/ FinishAbandoned(w) \/ Crash(w)
  BY <1>5 DEF PopLost, PopNone, PollRaises, BeginOther, BeginLost, PayloadFails,
     PayloadFailLost, ReturnUnstarted, ReturnRaises, Finish, FinishAbandoned, Crash
<1> QED
  BY <1>1, <1>2, <1>3, <1>4, <1>5, Turns DEF Turn

LEMMA HandAtStageKept ==
    ASSUME TaskInv, LocalTypes, NoOddUpdate, HandAtStage, [Next]_vars
    PROVE  HandAtStage'
<1>1. TaskStep \/ UNCHANGED taskVars
  BY EveryStep
<1>2. ASSUME NEW w \in Worker
      PROVE  /\ \A m, n \in hand'[w] : m = n
             /\ \A m \in hand'[w] : m.task \in Task /\ Exists(m.task)
  <2>1. CASE hand'[w] = hand[w] \/ hand'[w] = {}
    BY <2>1 DEF HandAtStage
  <2>2. CASE \E m \in box["ready"] : hand'[w] = {m}
    BY <2>2, DelayPlace, MessageTask
  <2>3. CASE \E m \in hand[w], tok \in Token :
                BeginStarts(w, m, tok) /\ hand'[w] = {Started(m, tok)}
    BY <2>3, StartedType DEF BeginStarts, HandAtStage
  <2> QED
    BY <2>1, <2>2, <2>3, HandStep
<1>3. \A w \in Worker : \A m \in hand'[w] : Exists(m.task)'
  BY <1>1, <1>2, ExistsLasts
<1> QED
  BY <1>2, <1>3 DEF HandAtStage

LEMMA StartsDeadKept ==
    ASSUME LocalTypes, StartsDead, [Next]_vars
    PROVE  StartsDead'
<1> SUFFICES ASSUME ~ReuseLiveId, NEW w \in Worker, pc'[w] = "starting"
             PROVE  w \notin heartbeat'
  BY DEF StartsDead
<1> USE DEF Goto, LocalTypes
<1>1. CASE Turn(w)
  <2>1. CASE Start(w)
    BY <2>1 DEF Start, liveVars
  <2>2. CASE ~Start(w)
    BY <1>1, <2>2 DEF Turn, Ready, Exit, Poll, MoveRetry, Pop, PopLost, PopNone,
       PollRaises, BeginOther, Begin, BeginLost, BackToPoll, PayloadFails,
       PayloadFailLost, Admit, ReturnUnstarted, ReturnRaises, Finish,
       FinishAbandoned, Crash
  <2> QED
    BY <2>1, <2>2
<1>2. CASE Still(w) /\ ~Turn(w)
  <2>1. pc[w] = "starting" /\ w \notin heartbeat
    BY <1>2 DEF Still, StartsDead
  <2>2. CASE \E v \in Worker \ {w} : WorkerStep(v)
    BY <2>1, <2>2, OtherWorker
  <2>3. CASE WorkerStep(w)
    <3>1. \/ HeartbeatLoop(w) \/ Stop(w) \/ RecoverAbandoned(w) \/ FinishLost(w)
          \/ \E v \in Worker : RecoverStale(w, v)
      BY <1>2, <2>3 DEF WorkerStep, Progress, Upset, Turn
    <3> QED
      BY <2>1, <3>1 DEF HeartbeatLoop, Running, Stop, RecoverAbandoned, FinishLost,
         RecoverStale, liveVars
  <2>4. CASE AdminStep
    BY <2>1, <2>4 DEF AdminStep, Purge, Replay, ForceRecover, Requeue, RequeueUpdate,
       Prune, liveVars
  <2>5. CASE Producer \/ Environment \/ UNCHANGED vars
    BY <2>1, <2>5 DEF Producer, Enqueue, Environment, Tick, OwnerExpires, LeaseExpires,
       HeartbeatExpires, Crash, vars, liveVars
  <2> QED
    BY <2>2, <2>3, <2>4, <2>5 DEF Next
<1> QED
  BY <1>1, <1>2, Turns

LEMMA ListAtStageKept ==
    ASSUME TaskInv, LocalTypes, NoOddUpdate, ListAtStage, HandAtStage, [Next]_vars
    PROVE  ListAtStage'
<1>1. TaskStep \/ UNCHANGED taskVars
  BY EveryStep
<1> SUFFICES ASSUME NEW w \in Worker
             PROVE  /\ pc'[w] = "pop" => box'[w] = {}
                    /\ pc'[w] \in {"popped", "claimed", "running"} => box'[w] \subseteq hand'[w]
  BY DEF ListAtStage
<1>2. CASE Still(w)
  <2>1. pc'[w] = pc[w] /\ hand'[w] = hand[w] /\ box'[w] \subseteq box[w]
    BY <1>1, <1>2, ListShrinks DEF Still
  <2> QED
    BY <2>1 DEF ListAtStage
<1> USE DEF Goto, Holds, BackToPoll, LocalTypes
<1>3. CASE \/ Start(w) \/ Ready(w) \/ Exit(w) \/ Poll(w) \/ PopLost(w) \/ PopNone(w)
           \/ PollRaises(w) \/ BeginLost(w) \/ PayloadFailLost(w) \/ ReturnUnstarted(w)
           \/ ReturnRaises(w) \/ Finish(w) \/ FinishAbandoned(w) \/ Crash(w)
  <2>1. pc'[w] \in {"starting", "poll", "down", "recover"}
    BY <1>3 DEF Start, Ready, Exit, Poll, PopLost, PopNone, PollRaises, BeginLost,
       PayloadFailLost, ReturnUnstarted, ReturnRaises, Finish, FinishAbandoned, Crash
  <2> QED
    BY <2>1
<1>4. CASE MoveRetry(w)
  <2>1. pc'[w] = "pop" /\ box[w] = {} /\ pc[w] = "recover"
    BY <1>4 DEF MoveRetry
  <2> QED
    BY <1>1, <2>1, ListShrinks
<1>5. CASE Pop(w)
  <2>1. PICK m \in box["ready"] : box' = Moved("ready", m, w, m) /\ hand'[w] = {m}
    BY <1>5 DEF Pop
  <2>2. pc'[w] = "popped" /\ box[w] = {} /\ w \in Place
    BY <1>5, WorkerPlace DEF Pop, ListAtStage
  <2>3. box'[w] \subseteq {m}
    BY <2>1, <2>2, DelayPlace, MovedHolds
  <2> QED
    BY <2>1, <2>2, <2>3
<1>6. CASE BeginOther(w)
  <2>1. PICK m \in hand[w] : \/ BeginEnds(w, m) \/ BeginFailsBudget(w, m)
                             \/ BeginDefers(w, m) \/ BeginIgnores(w, m)
    BY <1>6 DEF BeginOther
  <2>2. pc'[w] = "pop" /\ box[w] \subseteq hand[w]
    BY <1>6 DEF BeginOther, ListAtStage
  <2> QED
    BY <2>1, <2>2, ListEmptied
<1>7. CASE Begin(w)
  <2>1. PICK m \in hand[w], tok \in Token :
           BeginStarts(w, m, tok) /\ hand'[w] = {Started(m, tok)}
    BY <1>7 DEF Begin
  <2>2. pc'[w] = "claimed" /\ box[w] \subseteq hand[w]
    BY <1>7 DEF Begin, ListAtStage
  <2> QED
    BY <2>1, <2>2, ListBegun
<1>8. CASE PayloadFails(w)
  <2>1. PICK m \in hand[w], permanent \in BOOLEAN : Fail(w, m, permanent)
    BY <1>8 DEF PayloadFails
  <2>2. pc'[w] = "pop" /\ box[w] \subseteq hand[w]
    BY <1>8 DEF PayloadFails, ListAtStage
  <2> QED
    BY <2>1, <2>2, ListEmptied
<1>9. CASE Admit(w)
  <2>1. pc[w] = "claimed" /\ pc'[w] = "running" /\ hand' = hand /\ box' = box
    BY <1>9 DEF Admit, taskVars
  <2> QED
    BY <2>1 DEF ListAtStage
<1> QED
  BY <1>2, <1>3, <1>4, <1>5, <1>6, <1>7, <1>8, <1>9, Turns DEF Turn

LEMMA ClaimsInit == Init => ClaimsInv
<1> SUFFICES ASSUME Init PROVE ClaimsInv
  OBVIOUS
<1>1. ListAtStage /\ HandAtStage /\ StartsDead
  BY DEF Init, ListAtStage, HandAtStage, StartsDead
<1> QED
  BY <1>1, IndexInit DEF ClaimsInv

LEMMA ClaimsNext == ClaimsInv /\ [Next]_vars => ClaimsInv'
<1> SUFFICES ASSUME ClaimsInv, [Next]_vars PROVE ClaimsInv'
  OBVIOUS
<1>1. IndexInv /\ TaskInv /\ LocalTypes /\ NoOddUpdate
  BY DEF ClaimsInv, IndexInv, Inv, LocalInv
<1>2. ListAtStage' /\ HandAtStage' /\ StartsDead'
  BY <1>1, ListAtStageKept, HandAtStageKept, StartsDeadKept DEF ClaimsInv
<1> QED
  BY <1>1, <1>2, IndexNext DEF ClaimsInv

-----------------------------------------------------------------------------
\* The account of attempts: each one counted is spent on a handler, still to
\* be spent by a claim, or still to be given back.

Pending(t) == {w \in Worker : pc[w] = "claimed" /\ \E m \in hand[w] : m.task = t}

MayRefund(w) == pc[w] = "recover" \/ (pc[w] = "poll" /\ w \notin stop)

Refunding(t) ==
    \E w \in Worker : MayRefund(w) /\ \E m \in box[w] : m.task = t /\ Refundable(w, m)

Reserve(t) == IF Refunding(t) THEN 1 ELSE 0

Covered(t) ==
    /\ IsFiniteSet(Pending(t))
    /\ runs[t] + Cardinality(Pending(t)) + Reserve(t) <= rec[t].attempt

Budget == \A t \in Task : Covered(t)

NeverRun == \A t \in Task : ~Exists(t) => runs[t] = 0

RanOnce == \A w \in Worker : pc[w] = "running" => \A m \in hand[w] : runs[m.task] > 0

\* A refund comes into reach only when a begin is counted and its reply lost:
\* nothing that is popped, dropped, settled or stopped at can be given back.
LEMMA RefundingStep ==
    ASSUME ClaimsInv, ~ReuseLiveId, [Next]_vars, NEW t \in Task, Refunding(t)'
    PROVE  Refunding(t) \/ rec'[t].attempt = rec[t].attempt + 1
<1>1. /\ TaskInv /\ LocalTypes /\ NoOddUpdate /\ Waiting /\ PoppedWaits
      /\ ListAtStage /\ HandAtStage /\ StartsDead
  BY DEF ClaimsInv, IndexInv, Inv, LocalInv
<1>2. PICK w \in Worker : MayRefund(w)' /\ \E m \in box'[w] : m.task = t /\ Refundable(w, m)'
  BY DEF Refunding
<1>3. PICK m \in box'[w] : m.task = t /\ Refundable(w, m)'
  BY <1>2
<1>4. rec'[t].location = "processing" /\ m.task \notin spent'[w]
  BY <1>3 DEF Refundable
<1>5. TaskStep \/ UNCHANGED taskVars
  BY <1>1, EveryStep
<1>6. ASSUME MayRefund(w), m \in box[w], spent[w] \subseteq spent'[w], SameRecord(t)
      PROVE  Refunding(t)
  BY <1>3, <1>6 DEF Refundable, SameRecord, Refunding
<1> USE DEF Goto, Holds, BackToPoll
<1>7. CASE Still(w)
  <2>1. m \in box[w] /\ SameRecord(t)
    BY <1>1, <1>3, <1>5, <1>7, ListShrinks DEF Still
  <2>2. MayRefund(w) /\ spent[w] \subseteq spent'[w]
    BY <1>2, <1>7 DEF Still, MayRefund
  <2> QED
    BY <1>6, <2>1, <2>2
<1>8. CASE Poll(w) \/ (PollRaises(w) /\ pc[w] = "recover")
  <2>1. box' = box /\ rec' = rec /\ spent' = spent /\ MayRefund(w)
    BY <1>8 DEF Poll, PollRaises, taskVars, MayRefund
  <2>2. SameRecord(t)
    BY <2>1 DEF SameRecord
  <2> QED
    BY <1>6, <2>1, <2>2
<1>9. CASE Ready(w) \/ PopNone(w) \/ (PollRaises(w) /\ pc[w] = "pop")
  <2>1. box' = box /\ box[w] = {}
    BY <1>1, <1>9 DEF Ready, PopNone, PollRaises, taskVars, StartsDead, ListAtStage
  <2> QED
    BY <2>1
<1>10. CASE PopLost(w)
  <2>1. PICK x \in box["ready"] : box' = Moved("ready", x, w, x)
    BY <1>10 DEF PopLost
  <2>2. rec' = rec /\ box[w] = {} /\ w \in Place
    BY <1>1, <1>10, WorkerPlace DEF PopLost, ListAtStage
  <2>3. m = x
    BY <1>1, <2>1, <2>2, DelayPlace, MovedHolds
  <2> QED
    BY <1>1, <1>3, <1>4, <2>2, <2>3 DEF Waiting
<1>11. CASE PollRaises(w) /\ pc[w] = "popped"
  <2>1. box' = box /\ rec' = rec
    BY <1>11 DEF PollRaises, taskVars
  <2> QED
    BY <1>1, <1>3, <1>4, <1>11, <2>1 DEF ListAtStage, PoppedWaits
<1>12. CASE BeginLost(w)
  <2>1. PICK x \in hand[w] :
           \/ BeginEnds(w, x) \/ BeginFailsBudget(w, x) \/ BeginDefers(w, x)
           \/ \E tok \in Token : BeginStarts(w, x, tok)
    BY <1>12 DEF BeginLost
  <2>2. box[w] \subseteq hand[w]
    BY <1>1, <1>12 DEF BeginLost, ListAtStage
  <2>3. CASE BeginEnds(w, x) \/ BeginFailsBudget(w, x) \/ BeginDefers(w, x)
    BY <1>1, <2>2, <2>3, ListEmptied
  <2>4. ASSUME NEW tok \in Token, BeginStarts(w, x, tok)
        PROVE  rec'[t].attempt = rec[t].attempt + 1
    <3>1. box'[w] = {Started(x, tok)} /\ Started(x, tok).task = x.task
      BY <1>1, <2>2, <2>4, ListBegun
    <3>2. x.task = t
      BY <1>3, <3>1
    <3> QED
      BY <1>1, <2>4, <3>2, StartsWrites DEF TaskInv, Writes
  <2> QED
    BY <2>1, <2>3, <2>4
<1>13. CASE PayloadFailLost(w)
  <2>1. PICK x \in hand[w] :
           /\ UNCHANGED taskVars \/ \E permanent \in BOOLEAN : Fail(w, x, permanent)
           /\ spent' = [spent EXCEPT ![w] = @ \cup {x.task}]
    BY <1>13 DEF PayloadFailLost
  <2>2. box[w] \subseteq hand[w]
    BY <1>1, <1>13 DEF PayloadFailLost, ListAtStage
  <2>3. CASE UNCHANGED taskVars
    <3>1. m = x
      BY <1>1, <2>2, <2>3 DEF taskVars, HandAtStage
    <3> QED
      BY <1>1, <1>4, <2>1, <3>1 DEF LocalTypes
  <2>4. CASE \E permanent \in BOOLEAN : Fail(w, x, permanent)
    BY <1>1, <2>2, <2>4, ListEmptied
  <2> QED
    BY <2>1, <2>3, <2>4
<1>14. CASE Finish(w)
  <2>1. PICK x \in hand[w] :
           CompleteTask(w, x) \/ \E permanent \in BOOLEAN : Fail(w, x, permanent)
    BY <1>14 DEF Finish, Settle
  <2>2. box[w] \subseteq hand[w]
    BY <1>1, <1>14 DEF Finish, ListAtStage
  <2> QED
    BY <1>1, <2>1, <2>2, ListEmptied
<1>15. CASE ReturnUnstarted(w) \/ ReturnRaises(w) \/ FinishAbandoned(w)
  <2>1. pc'[w] = "poll" /\ w \in stop'
    BY <1>1, <1>15 DEF ReturnUnstarted, ReturnRaises, FinishAbandoned, LocalTypes
  <2> QED
    BY <1>2, <2>1 DEF MayRefund
<1>16. CASE \/ Start(w) \/ Exit(w) \/ MoveRetry(w) \/ Pop(w) \/ BeginOther(w) \/ Begin(w)
            \/ PayloadFails(w) \/ Admit(w) \/ Crash(w)
  <2>1. pc'[w] \in {"starting", "down", "pop", "popped", "claimed", "running"}
    BY <1>1, <1>16 DEF Start, Exit, MoveRetry, Pop, BeginOther, Begin, PayloadFails,
       Admit, Crash, LocalTypes
  <2> QED
    BY <1>2, <2>1 DEF MayRefund
<1>17. PollRaises(w) => pc[w] \in {"recover", "pop", "popped"}
  BY DEF PollRaises
<1> QED
  BY <1>1, <1>7, <1>8, <1>9, <1>10, <1>11, <1>12, <1>13, <1>14, <1>15, <1>16, <1>17, Turns
     DEF Turn

\* Only a begin adds a claim to be spent.
LEMMA PendingStep ==
    ASSUME LocalTypes, [Next]_vars, NEW t \in Task, NEW w \in Pending(t)'
    PROVE  w \in Pending(t) \/ Begin(w)
<1> USE DEF Goto, LocalTypes
<1>0. w \in Worker /\ pc'[w] = "claimed" /\ \E m \in hand'[w] : m.task = t
  BY DEF Pending
<1>1. CASE Still(w)
  BY <1>0, <1>1 DEF Still, Pending
<1>2. CASE Turn(w) /\ ~Begin(w)
  BY <1>0, <1>2 DEF Turn, Start, Ready, Exit, Poll, MoveRetry, Pop, PopLost, PopNone,
     PollRaises, BeginOther, BeginLost, BackToPoll, PayloadFails,
     PayloadFailLost, Admit, ReturnUnstarted, ReturnRaises, Finish,
     FinishAbandoned, Crash
<1> QED
  BY <1>0, <1>1, <1>2, Turns

\* Only an admission runs a handler.
LEMMA RunsStep ==
    ASSUME LocalTypes, [Next]_vars, runs' # runs
    PROVE  \E w \in Worker : Admit(w)
<1>1. CASE \E w \in Worker : WorkerStep(w)
  <2>1. PICK w \in Worker : WorkerStep(w)
    BY <1>1
  <2>2. CASE Turn(w)
    BY <2>1, <2>2 DEF Turn, Start, Ready, Exit, Poll, MoveRetry, Pop, PopLost, PopNone,
       PollRaises, BeginOther, Begin, BeginLost, PayloadFails,
       PayloadFailLost, ReturnUnstarted, ReturnRaises, Finish,
       FinishAbandoned, Crash, ghostVars
  <2>3. CASE ~Turn(w)
    <3>1. \/ HeartbeatLoop(w) \/ Stop(w) \/ RecoverAbandoned(w) \/ FinishLost(w)
          \/ \E v \in Worker : RecoverStale(w, v)
      BY <2>1, <2>3 DEF WorkerStep, Progress, Upset, Turn
    <3> QED
      BY <3>1 DEF HeartbeatLoop, Stop, RecoverAbandoned, FinishLost, RecoverStale,
         ghostVars
  <2> QED
    BY <2>2, <2>3
<1>2. CASE \E w \in Worker : Crash(w)
  BY <1>2 DEF Crash
<1>3. CASE ~(\E v \in Worker : WorkerStep(v)) /\ ~\E v \in Worker : Crash(v)
  BY <1>3, OutsideStep DEF Next
<1> QED
  BY <1>1, <1>2, <1>3

-----------------------------------------------------------------------------
\* The account stays covered.

BudgetInv == ClaimsInv /\ NeverRun /\ RanOnce /\ Budget

LEMMA ReserveType == \A t : Reserve(t) \in {0, 1} /\ Reserve(t)' \in {0, 1}
BY DEF Reserve

LEMMA CountedSubset ==
    ASSUME NEW S, IsFiniteSet(S), NEW T \in SUBSET S
    PROVE  /\ IsFiniteSet(T) /\ Cardinality(T) \in Nat /\ Cardinality(S) \in Nat
           /\ Cardinality(T) <= Cardinality(S)
BY FS_Subset, FS_CardinalityType

LEMMA CountedLess ==
    ASSUME NEW S, IsFiniteSet(S), NEW x \in S, NEW T \in SUBSET (S \ {x})
    PROVE  IsFiniteSet(T) /\ Cardinality(T) \in Nat /\ Cardinality(T) <= Cardinality(S) - 1
<1>1. IsFiniteSet(S \ {x}) /\ Cardinality(S \ {x}) = Cardinality(S) - 1
  BY FS_RemoveElement
<1> QED
  BY <1>1, CountedSubset

LEMMA CountedMore ==
    ASSUME NEW S, IsFiniteSet(S), NEW x, NEW T \in SUBSET (S \cup {x})
    PROVE  IsFiniteSet(T) /\ Cardinality(T) \in Nat /\ Cardinality(T) <= Cardinality(S) + 1
<1>1. /\ IsFiniteSet(S \cup {x})
      /\ Cardinality(S \cup {x}) = Cardinality(S) \/ Cardinality(S \cup {x}) = Cardinality(S) + 1
  BY FS_AddElement
<1>2. Cardinality(S) \in Nat
  BY FS_CardinalityType
<1> QED
  BY <1>1, <1>2, CountedSubset

\* While nothing is begun or admitted.
LEMMA CoveredElse ==
    ASSUME BudgetInv, ~ReuseLiveId, [Next]_vars, NEW t \in Task,
           ~\E w \in Worker : Begin(w) \/ Admit(w)
    PROVE  Covered(t)'
<1>1. /\ TaskInv /\ TaskTypes /\ LocalTypes /\ NoOddUpdate /\ HandAtStage
      /\ Covered(t) /\ ClaimsInv
  BY DEF BudgetInv, ClaimsInv, IndexInv, Inv, LocalInv, TaskInv, Budget
<1>2. runs' = runs /\ runs[t] \in Nat /\ rec[t].attempt \in Nat
  BY <1>1, RunsStep DEF LocalTypes, TaskTypes, Record
<1>3. Pending(t)' \subseteq Pending(t)
  BY <1>1, PendingStep DEF Pending
<1>4. /\ IsFiniteSet(Pending(t)) /\ IsFiniteSet(Pending(t)')
      /\ Cardinality(Pending(t)) \in Nat /\ Cardinality(Pending(t)') \in Nat
      /\ Cardinality(Pending(t)') <= Cardinality(Pending(t))
  BY <1>1, <1>3, CountedSubset DEF Covered
<1>5. Refunding(t)' => Refunding(t) \/ rec'[t].attempt = rec[t].attempt + 1
  BY <1>1, RefundingStep
<1>6. runs[t] + Cardinality(Pending(t)) + Reserve(t) <= rec[t].attempt
  BY <1>1 DEF Covered
<1>7. rec'[t].attempt = rec[t].attempt => Reserve(t)' <= Reserve(t)
  BY <1>2, <1>5 DEF Reserve
<1>8. CASE rec'[t].attempt = rec[t].attempt
  BY <1>2, <1>4, <1>6, <1>7, <1>8, ReserveType DEF Covered
<1>9. CASE ~Exists(t) /\ rec'[t].attempt = 0
  <2>1. runs[t] = 0 /\ Pending(t) = {}
    BY <1>1, <1>9 DEF BudgetInv, NeverRun, HandAtStage, Pending
  <2>2. ~Refunding(t)
    BY <1>1, <1>9, WorkerPlace, MessageTask DEF Refunding
  <2>3. Cardinality(Pending(t)') = 0
    BY <1>3, <2>1, FS_EmptySet
  <2>4. ~Refunding(t)'
    <3>1. SUFFICES ASSUME NEW w \in Worker, MayRefund(w)', NEW m \in box'[w],
                          m.task = t, Refundable(w, m)'
                   PROVE  FALSE
      BY DEF Refunding
    <3>2. rec'[t].attempt > 0
      BY <3>1 DEF Refundable
    <3> QED
      BY <1>9, <3>2
  <2> QED
    BY <1>2, <1>4, <1>9, <2>1, <2>3, <2>4 DEF Covered, Reserve
<1>10. CASE Counts(t)
  BY <1>2, <1>4, <1>6, <1>10, ReserveType DEF Covered, Counts
<1>11. CASE Returns(t)
  <2>1. PICK w \in Worker : /\ pc[w] = "claimed" /\ pc'[w] # "claimed"
                            /\ \E m \in hand[w] : m.task = t
    BY <1>11 DEF Returns
  <2>2. w \in Pending(t) /\ w \notin Pending(t)'
    BY <2>1 DEF Pending
  <2>3. Cardinality(Pending(t)') <= Cardinality(Pending(t)) - 1
    BY <1>3, <1>4, <2>2, CountedLess
  <2>4. Reserve(t)' <= Reserve(t)
    BY <1>2, <1>5, <1>11 DEF Returns, Reserve
  <2> QED
    BY <1>2, <1>4, <1>6, <1>11, <2>3, <2>4, ReserveType DEF Covered, Returns
<1>12. CASE Refunds(t)
  <2>1. PICK w \in Worker : /\ pc[w] = "recover"
                            /\ \E m \in box[w] : /\ m.task = t /\ Refundable(w, m)
                                                 /\ box' = Moved(w, m, "ready", m)
    BY <1>12 DEF Refunds
  <2>2. PICK m \in box[w] : /\ m.task = t /\ Refundable(w, m)
                            /\ box' = Moved(w, m, "ready", m)
    BY <2>1
  <2>3. Refunding(t)
    BY <2>1, <2>2 DEF Refunding, MayRefund
  <2>4. \A v \in Worker : \A x \in box'[v] : x.task # t
    BY <1>1, <2>2, DelayPlace, WorkerPlace, MovedHolds
  <2>5. ~Refunding(t)'
    BY <2>4 DEF Refunding
  <2> QED
    BY <1>2, <1>4, <1>6, <1>12, <2>3, <2>5 DEF Covered, Refunds, Reserve
<1>13. CASE UNCHANGED taskVars
  BY <1>8, <1>13 DEF taskVars
<1> QED
  BY <1>1, <1>8, <1>9, <1>10, <1>11, <1>12, <1>13, EveryStep, AttemptStep

LEMMA CoveredBegin ==
    ASSUME BudgetInv, ~ReuseLiveId, [Next]_vars, NEW t \in Task,
           NEW w \in Worker, Begin(w)
    PROVE  Covered(t)'
<1>1. /\ TaskInv /\ TaskTypes /\ LocalTypes /\ HandAtStage /\ ListAtStage
      /\ Covered(t) /\ ClaimsInv
  BY DEF BudgetInv, ClaimsInv, IndexInv, Inv, LocalInv, TaskInv, Budget
<1>2. PICK m \in hand[w], tok \in Token : BeginStarts(w, m, tok)
  BY DEF Begin
<1>3. runs' = runs /\ runs[t] \in Nat /\ rec[t].attempt \in Nat
  BY <1>1 DEF Begin, LocalTypes, TaskTypes, Record
<1>4. box[w] \subseteq hand[w] /\ pc'[w] = "claimed"
  BY <1>1 DEF Begin, ListAtStage, Goto, LocalTypes
<1>5. /\ box'[w] = {Started(m, tok)}
      /\ Started(m, tok).task = m.task /\ m \in box[w] /\ w \in Place
  BY <1>1, <1>2, <1>4, ListBegun, WorkerPlace
<1>6. /\ rec'[m.task].attempt = rec[m.task].attempt + 1
      /\ \A u \in Task \ {m.task} : rec'[u] = rec[u]
      /\ m.task \in Task
  BY <1>1, <1>2, <1>5, MessageTask, StartsWrites DEF Writes
<1>7. /\ IsFiniteSet(Pending(t))
      /\ Cardinality(Pending(t)) \in Nat
      /\ runs[t] + Cardinality(Pending(t)) + Reserve(t) <= rec[t].attempt
  BY <1>1, FS_CardinalityType DEF Covered
<1>8. \A v \in Worker \ {w} : pc'[v] = pc[v] /\ hand'[v] = hand[v]
  BY <1>1, OtherWorker DEF WorkerStep, Progress
<1>9. CASE t = m.task
  <2>1. Pending(t)' \subseteq Pending(t) \cup {w}
    BY <1>8 DEF Pending
  <2>2. /\ IsFiniteSet(Pending(t)') /\ Cardinality(Pending(t)') \in Nat
        /\ Cardinality(Pending(t)') <= Cardinality(Pending(t)) + 1
    BY <1>7, <2>1, CountedMore
  <2>3. \A v \in Worker : \A x \in box'[v] : x.task = t => v = w
    <3>1. box' = Moved(w, m, w, Started(m, tok))
      BY <1>2 DEF BeginStarts
    <3> QED
      BY <1>1, <1>5, <1>9, <3>1, MovedHolds, WorkerPlace
  <2>4. ~Refunding(t)'
    BY <1>4, <2>3 DEF Refunding, MayRefund
  <2> QED
    BY <1>3, <1>6, <1>7, <1>9, <2>2, <2>4, ReserveType DEF Covered, Reserve
<1>10. CASE t # m.task
  <2>1. rec'[t].attempt = rec[t].attempt
    BY <1>6, <1>10
  <2>2. w \notin Pending(t)'
    <3>1. PICK x \in hand[w], tk \in Token : hand'[w] = {Started(x, tk)} /\ BeginStarts(w, x, tk)
      BY <1>1 DEF Begin, Holds, LocalTypes
    <3>2. x = m
      BY <1>1 DEF HandAtStage
    <3>3. \A y \in hand'[w] : y.task = m.task
      BY <1>1, <3>1, <3>2, StartedType DEF BeginStarts
    <3> QED
      BY <1>10, <3>3 DEF Pending
  <2>3. Pending(t)' \subseteq Pending(t)
    BY <1>8, <2>2 DEF Pending
  <2>4. /\ IsFiniteSet(Pending(t)') /\ Cardinality(Pending(t)') \in Nat
        /\ Cardinality(Pending(t)') <= Cardinality(Pending(t))
    BY <1>7, <2>3, CountedSubset
  <2>5. Reserve(t)' <= Reserve(t)
    BY <1>1, <1>3, <2>1, RefundingStep DEF Reserve
  <2> QED
    BY <1>3, <1>7, <2>1, <2>4, <2>5, ReserveType DEF Covered
<1> QED
  BY <1>9, <1>10

\* What an admission does: the claim becomes a handler.
LEMMA AdmitStarts ==
    ASSUME LocalTypes, HandAtStage, NEW w \in Worker, Admit(w)
    PROVE  /\ UNCHANGED taskVars
           /\ \E m \in hand[w] :
                 /\ w \in Pending(m.task) /\ m.task \in Task /\ Exists(m.task)
                 /\ runs' = [runs EXCEPT ![m.task] = IF runs[m.task] <= MaxAttempts
                                                     THEN runs[m.task] + 1
                                                     ELSE runs[m.task]]
           /\ \A t \in Task : Pending(t)' = Pending(t) \ {w}
           /\ pc'[w] = "running" /\ hand' = hand
           /\ \A v \in Worker \ {w} : pc'[v] = pc[v]
BY DEF Admit, LocalTypes, HandAtStage, Pending, Goto

LEMMA CoveredAdmit ==
    ASSUME BudgetInv, ~ReuseLiveId, [Next]_vars, NEW t \in Task,
           NEW w \in Worker, Admit(w)
    PROVE  Covered(t)'
<1>1. /\ TaskTypes /\ LocalTypes /\ HandAtStage /\ Covered(t) /\ ClaimsInv
  BY DEF BudgetInv, ClaimsInv, IndexInv, Inv, LocalInv, TaskInv, Budget
<1>2. /\ rec' = rec /\ Pending(t)' = Pending(t) \ {w}
      /\ \E m \in hand[w] :
            /\ w \in Pending(m.task) /\ m.task \in Task
            /\ runs' = [runs EXCEPT ![m.task] = IF runs[m.task] <= MaxAttempts
                                                THEN runs[m.task] + 1
                                                ELSE runs[m.task]]
  BY <1>1, AdmitStarts DEF taskVars
<1>3. /\ runs[t] \in Nat /\ rec[t].attempt \in Nat
      /\ IsFiniteSet(Pending(t)) /\ Cardinality(Pending(t)) \in Nat
      /\ runs[t] + Cardinality(Pending(t)) + Reserve(t) <= rec[t].attempt
  BY <1>1, FS_CardinalityType DEF Covered, LocalTypes, TaskTypes, Record
<1>4. Reserve(t)' <= Reserve(t)
  BY <1>1, <1>2, <1>3, RefundingStep DEF Reserve
<1>5. PICK m \in hand[w] :
         /\ w \in Pending(m.task) /\ m.task \in Task
         /\ runs' = [runs EXCEPT ![m.task] = IF runs[m.task] <= MaxAttempts
                                             THEN runs[m.task] + 1
                                             ELSE runs[m.task]]
  BY <1>2
<1>6. CASE t = m.task
  <2>1. /\ IsFiniteSet(Pending(t)') /\ Cardinality(Pending(t)') \in Nat
        /\ Cardinality(Pending(t)') <= Cardinality(Pending(t)) - 1
    BY <1>2, <1>3, <1>5, <1>6, CountedLess
  <2>2. runs'[t] <= runs[t] + 1 /\ runs'[t] \in Nat
    BY <1>1, <1>3, <1>5, <1>6, BoundsAssumption DEF LocalTypes
  <2> QED
    BY <1>2, <1>3, <1>4, <2>1, <2>2, ReserveType DEF Covered
<1>7. CASE t # m.task
  <2>1. /\ IsFiniteSet(Pending(t)') /\ Cardinality(Pending(t)') \in Nat
        /\ Cardinality(Pending(t)') <= Cardinality(Pending(t))
    BY <1>2, <1>3, CountedSubset
  <2>2. runs'[t] = runs[t]
    BY <1>1, <1>5, <1>7 DEF LocalTypes
  <2> QED
    BY <1>2, <1>3, <1>4, <2>1, <2>2, ReserveType DEF Covered
<1> QED
  BY <1>6, <1>7

LEMMA RunsGrow ==
    ASSUME LocalTypes, HandAtStage, [Next]_vars, NEW t \in Task
    PROVE  runs'[t] >= runs[t] /\ runs[t] \in Nat /\ runs'[t] \in Nat
<1>1. runs[t] \in Nat
  BY BoundsAssumption DEF LocalTypes
<1>2. CASE runs' = runs
  BY <1>1, <1>2
<1>3. CASE \E w \in Worker : Admit(w)
  <2>1. PICK w \in Worker : Admit(w)
    BY <1>3
  <2>2. PICK u \in Task :
           runs' = [runs EXCEPT ![u] = IF runs[u] <= MaxAttempts THEN runs[u] + 1 ELSE runs[u]]
    BY <2>1, AdmitStarts
  <2> QED
    BY <1>1, <2>2 DEF LocalTypes
<1> QED
  BY <1>2, <1>3, RunsStep

LEMMA NeverRunKept ==
    ASSUME TaskInv, LocalTypes, NoOddUpdate, HandAtStage, NeverRun, [Next]_vars
    PROVE  NeverRun'
<1> SUFFICES ASSUME NEW t \in Task, ~Exists(t)'
             PROVE  runs'[t] = 0
  BY DEF NeverRun
<1>1. ~Exists(t) /\ runs[t] = 0
  BY EveryStep, ExistsLasts DEF NeverRun
<1>2. CASE runs' = runs
  BY <1>1, <1>2
<1>3. CASE \E w \in Worker : Admit(w)
  <2>1. PICK w \in Worker : Admit(w)
    BY <1>3
  <2>2. PICK m \in hand[w] :
           /\ m.task \in Task /\ Exists(m.task)
           /\ runs' = [runs EXCEPT ![m.task] = IF runs[m.task] <= MaxAttempts
                                               THEN runs[m.task] + 1
                                               ELSE runs[m.task]]
    BY <2>1, AdmitStarts
  <2> QED
    BY <1>1, <2>2 DEF LocalTypes
<1> QED
  BY <1>2, <1>3, RunsStep

LEMMA RanOnceKept ==
    ASSUME LocalTypes, HandAtStage, HandAtStage', RanOnce, [Next]_vars
    PROVE  RanOnce'
<1> SUFFICES ASSUME NEW w \in Worker, pc'[w] = "running", NEW m \in hand'[w]
             PROVE  runs'[m.task] > 0
  BY DEF RanOnce
<1>1. CASE Still(w)
  <2>1. pc[w] = "running" /\ m \in hand[w]
    BY <1>1 DEF Still
  <2>2. m.task \in Task /\ runs[m.task] > 0
    BY <2>1 DEF RanOnce, HandAtStage
  <2> QED
    BY <2>2, RunsGrow
<1>2. CASE Admit(w)
  <2>1. PICK x \in hand[w] :
           /\ x.task \in Task
           /\ runs' = [runs EXCEPT ![x.task] = IF runs[x.task] <= MaxAttempts
                                               THEN runs[x.task] + 1
                                               ELSE runs[x.task]]
    BY <1>2, AdmitStarts
  <2>2. m = x
    BY <1>2, <2>1, AdmitStarts DEF HandAtStage
  <2>3. runs[x.task] \in Nat /\ MaxAttempts \in Nat \ {0}
    BY <2>1, BoundsAssumption DEF LocalTypes
  <2>4. runs'[x.task] = IF runs[x.task] <= MaxAttempts THEN runs[x.task] + 1
                                                        ELSE runs[x.task]
    BY <2>1 DEF LocalTypes
  <2> QED
    BY <2>2, <2>3, <2>4
<1>3. CASE Turn(w) /\ ~Admit(w)
  BY <1>3 DEF Turn, Start, Ready, Exit, Poll, MoveRetry, Pop, PopLost, PopNone,
     PollRaises, BeginOther, Begin, BeginLost, BackToPoll, PayloadFails,
     PayloadFailLost, ReturnUnstarted, ReturnRaises, Finish,
     FinishAbandoned, Crash, Goto, LocalTypes
<1> QED
  BY <1>1, <1>2, <1>3, Turns

LEMMA BudgetInit == Init => BudgetInv
<1> SUFFICES ASSUME Init PROVE BudgetInv
  OBVIOUS
<1>1. NeverRun /\ RanOnce
  BY DEF Init, NeverRun, RanOnce
<1>2. ASSUME NEW t \in Task PROVE Covered(t)
  <2>1. Pending(t) = {} /\ ~Refunding(t)
    BY DEF Init, Pending, Refunding, MayRefund
  <2>2. runs[t] = 0 /\ rec[t].attempt = 0
    BY DEF Init, NoRecord
  <2> QED
    BY <2>1, <2>2, FS_EmptySet DEF Covered, Reserve
<1> QED
  BY <1>1, <1>2, ClaimsInit DEF BudgetInv, Budget

LEMMA BudgetNext == ~ReuseLiveId /\ BudgetInv /\ [Next]_vars => BudgetInv'
<1> SUFFICES ASSUME ~ReuseLiveId, BudgetInv, [Next]_vars PROVE BudgetInv'
  OBVIOUS
<1>1. /\ ClaimsInv /\ TaskInv /\ LocalTypes /\ NoOddUpdate /\ HandAtStage
      /\ NeverRun /\ RanOnce
  BY DEF BudgetInv, ClaimsInv, IndexInv, Inv, LocalInv
<1>2. ClaimsInv'
  BY <1>1, ClaimsNext
<1>3. NeverRun' /\ RanOnce'
  BY <1>1, <1>2, NeverRunKept, RanOnceKept DEF ClaimsInv
<1>4. Budget'
  BY CoveredElse, CoveredBegin, CoveredAdmit DEF Budget
<1> QED
  BY <1>2, <1>3, <1>4 DEF BudgetInv

\* The account of attempts is covered in every reachable state.
THEOREM BudgetInvHolds ==
    ASSUME ~ReuseLiveId
    PROVE  Spec => []BudgetInv
<1>1. BudgetInv /\ [Next]_vars => BudgetInv'
  BY BudgetNext
<1> QED
  BY <1>1, BudgetInit, PTL DEF Spec

LEMMA RunsCovered ==
    ASSUME BudgetInv, NEW t \in Task
    PROVE  /\ runs[t] \in Nat /\ Cardinality(Pending(t)) \in Nat
           /\ runs[t] + Cardinality(Pending(t)) <= MaxAttempts
<1>1. /\ IsFiniteSet(Pending(t))
      /\ runs[t] + Cardinality(Pending(t)) + Reserve(t) <= rec[t].attempt
  BY DEF BudgetInv, Budget, Covered
<1>2. runs[t] \in Nat /\ rec[t].attempt \in 0..MaxAttempts /\ MaxAttempts \in Nat
  BY BoundsAssumption
     DEF BudgetInv, ClaimsInv, IndexInv, Inv, TaskInv, TaskTypes, LocalInv, LocalTypes, Record
<1>3. Cardinality(Pending(t)) \in Nat
  BY <1>1, FS_CardinalityType
<1> QED
  BY <1>1, <1>2, <1>3, ReserveType

\* No task's handler runs more than MaxAttempts times, although attempts are
\* given back by stopping workers and by the recovery of claims whose begin got
\* no reply: for any number of tasks and workers, and every fault.  Worker ids
\* must not be reused while their heartbeat lives.
THEOREM WithinBudgetHolds ==
    ASSUME ~ReuseLiveId
    PROVE  Spec => []WithinBudget
<1>1. BudgetInv => WithinBudget
  <2> SUFFICES ASSUME BudgetInv, NEW t \in Task PROVE runs[t] <= MaxAttempts
    BY DEF WithinBudget
  <2>1. MaxAttempts \in Nat
    BY BoundsAssumption
  <2> QED
    BY <2>1, RunsCovered
<1> QED
  BY <1>1, BudgetInvHolds, PTL

-----------------------------------------------------------------------------
\* The queue implements TaskLifecycle.

LEMMA LifecycleInit == Init => Lifecycle!Init
BY DEF Init, NoRecord, Lifecycle!Init

LEMMA LifecycleNext ==
    ASSUME BudgetInv, [Next]_vars
    PROVE  [Lifecycle!Next]_<<[t \in Task |-> rec[t].outcome], runs>>
<1> DEFINE status == [t \in Task |-> rec[t].outcome]
<1>1. /\ TaskInv /\ LocalTypes /\ NoOddUpdate /\ HandAtStage /\ RanOnce
  BY DEF BudgetInv, ClaimsInv, IndexInv, Inv, LocalInv
<1>2. CASE \E w \in Worker : Admit(w)
  <2>1. PICK w \in Worker : Admit(w)
    BY <1>2
  <2>2. rec' = rec
    BY <1>1, <2>1, AdmitStarts DEF taskVars
  <2>3. PICK m \in hand[w] :
           /\ w \in Pending(m.task) /\ m.task \in Task /\ Exists(m.task)
           /\ runs' = [runs EXCEPT ![m.task] = IF runs[m.task] <= MaxAttempts
                                               THEN runs[m.task] + 1
                                               ELSE runs[m.task]]
    BY <1>1, <2>1, AdmitStarts
  <2>4. IsFiniteSet(Pending(m.task)) /\ Cardinality(Pending(m.task)) # 0
    BY <2>3, FS_EmptySet DEF BudgetInv, Budget, Covered
  <2>5. runs[m.task] < MaxAttempts /\ runs[m.task] \in Nat /\ MaxAttempts \in Nat
    BY <2>3, <2>4, RunsCovered, BoundsAssumption
  <2>6. runs' = [runs EXCEPT ![m.task] = runs[m.task] + 1]
    <3>1. (IF runs[m.task] <= MaxAttempts THEN runs[m.task] + 1 ELSE runs[m.task])
             = runs[m.task] + 1
      BY <2>5
    <3> QED
      BY <2>3, <3>1
  <2>7. status[m.task] # "absent" /\ status' = status
    BY <2>2, <2>3 DEF Exists
  <2>8. Lifecycle!StartHandler(m.task)
    BY <2>5, <2>6, <2>7 DEF Lifecycle!StartHandler
  <2> QED
    BY <2>3, <2>8 DEF Lifecycle!Next
<1>3. CASE runs' = runs
  <2>1. CASE SameOutcomes
    <3>1. status' = status
      BY <2>1 DEF SameOutcomes
    <3> QED
      BY <1>3, <3>1
  <2>2. ASSUME NEW t \in Task, Accepts(t)
        PROVE  Lifecycle!Next
    <3>1. status[t] = "absent" /\ status' = [status EXCEPT ![t] = "live"]
      BY <2>2 DEF Accepts, Exists
    <3>2. Lifecycle!Accept(t)
      BY <1>3, <3>1 DEF Lifecycle!Accept
    <3> QED
      BY <3>2 DEF Lifecycle!Next
  <2>3. ASSUME NEW t \in Task, Closes(t)
        PROVE  Lifecycle!Next
    <3>1. PICK outcome \in {"completed", "failed", "skipped", "cancelled"} :
             rec'[t].outcome = outcome
      BY <2>3 DEF Closes, Terminal
    <3>2. status[t] = "live" /\ status' = [status EXCEPT ![t] = outcome]
      BY <2>3, <3>1 DEF Closes, Live
    <3>3. outcome = "completed" => runs[t] > 0
      BY <1>1, <2>3, <3>1 DEF Closes, RanOnce
    <3>4. Lifecycle!Close(t, outcome)
      BY <1>3, <3>2, <3>3 DEF Lifecycle!Close
    <3> QED
      BY <3>4 DEF Lifecycle!Next
  <2>4. CASE UNCHANGED taskVars
    BY <2>1, <2>4 DEF taskVars, SameOutcomes
  <2> QED
    BY <1>1, <2>1, <2>2, <2>3, <2>4, EveryStep, OutcomeStep
<1> QED
  BY <1>1, <1>2, <1>3, RunsStep

\* The queue implements the task lifecycle: a task is accepted once, gets one
\* terminal outcome that never changes, is completed only after a handler ran,
\* and its handlers stay within the budget.  Every step of producers, workers,
\* recovery, administrators and faults is a step of TaskLifecycle or changes
\* nothing there.
THEOREM ImplementsLifecycleHolds ==
    ASSUME ~ReuseLiveId
    PROVE  Spec => ImplementsLifecycle
<1>1. Init => Lifecycle!Init
  BY LifecycleInit
<1>2. BudgetInv /\ [Next]_vars =>
         [Lifecycle!Next]_<<[t \in Task |-> rec[t].outcome], runs>>
  BY LifecycleNext
<1> QED
  BY <1>1, <1>2, BudgetInvHolds, PTL DEF Spec, ImplementsLifecycle, Lifecycle!Spec
=============================================================================
