--------------------------- MODULE TaskKeysProofs ---------------------------
(***************************************************************************)
(* The keys tasks share: leases of a concurrency key, the owner of a       *)
(* logical key, and the newest version of a supersede key.  At the end,    *)
(* why two queues share no key.                                            *)
(***************************************************************************)
EXTENDS TaskClaimsProofs, QueueNames, WellFoundedInduction

-----------------------------------------------------------------------------
\* Leases.

\* A lease token is written in the messages of one task only.
LeaseOf ==
    \A p, q \in Place : \A m \in box[p], n \in box[q] :
        m.lease # None /\ m.lease = n.lease => m.task = n.task

\* A worker that has its message, and has not been late, holds the lease.
HoldsLease(w, m) ==
    SpecOf(m).conc # None => m.lease # None /\ lease[SpecOf(m).conc] = m.lease

LeaseHeld ==
    \A w \in Worker : pc[w] \in {"claimed", "running"} /\ w \notin late =>
        \A m \in hand[w] \cap box[w] : HoldsLease(w, m)

LEMMA MovedLease ==
    ASSUME TaskInv, LeaseOf,
           NEW p \in Place, NEW q \in Place, NEW m \in box[p], NEW n,
           n.task = m.task, n.lease = m.lease \/ n.lease = None \/ ~InUse(n.lease),
           box' = Moved(p, m, q, n)
    PROVE  LeaseOf'
<1>1. \A r \in Place : \A x \in box'[r] :
         (x = n /\ r = q) \/ (x \in box[r] /\ x.task # m.task)
  BY MovedHolds
<1>2. \A r \in Place : \A x \in box[r] : n.lease # None /\ x.lease = n.lease => x.task = n.task
  BY DEF InUse, LeaseOf
<1> QED
  BY <1>1, <1>2 DEF LeaseOf

LEMMA FewerLeases ==
    ASSUME LeaseOf,
           \A p \in Place : \A x \in box'[p] :
              x.lease = None \/ \E q \in Place : x \in box[q]
    PROVE  LeaseOf'
BY DEF LeaseOf

LEMMA HandLeaseOf ==
    ASSUME TaskInv, LeaseOf,
           NEW w \in Worker, NEW m \in hand[w], BeginStep(w, m) \/ SettleStep(w, m)
    PROVE  LeaseOf'
<1>1. m \in box[w] /\ w \in Place /\ m \in Message
  BY HandOwned, WorkerPlace, MessageTask
<1>2. CASE BeginEnds(w, m) \/ CompleteTask(w, m) \/ \E runAt \in Time : RetrySkips(w, m, runAt)
  <2>1. box' = Removed(w, m)
    BY <1>2 DEF BeginEnds, CompleteTask, RetrySkips
  <2> QED
    BY <1>1, <2>1, RemovedHolds, FewerLeases
<1>3. CASE BeginFailsBudget(w, m) \/ FailTask(w, m) \/ ReturnUnstartedClaim(w, m)
  <2>1. box' = Moved(w, m, "dlq", m) \/ box' = Moved(w, m, "ready", m)
    BY <1>3 DEF BeginFailsBudget, FailTask, ReturnUnstartedClaim
  <2> QED
    BY <1>1, <2>1, DelayPlace, MovedLease
<1>4. CASE BeginDefers(w, m)
  <2>1. /\ box' = Moved(w, m, "delay", Deferred(m))
        /\ Deferred(m).task = m.task /\ Deferred(m).lease = None
    BY <1>1, <1>4 DEF BeginDefers, Deferred, Message
  <2> QED
    BY <1>1, <2>1, DelayPlace, MovedLease
<1>5. ASSUME NEW tok \in Token, Fresh(tok), BeginStarts(w, m, tok)
      PROVE  LeaseOf'
  <2>1. box' = Moved(w, m, w, Started(m, tok)) /\ Started(m, tok).task = m.task
    BY <1>5, StartedType DEF BeginStarts
  <2>2. Started(m, tok).lease = tok \/ Started(m, tok).lease = None
    BY <1>1 DEF Started, Message
  <2> QED
    BY <1>1, <1>5, <2>1, <2>2, MovedLease DEF Fresh
<1>6. ASSUME NEW runAt \in Time, RetrySchedules(w, m, runAt)
      PROVE  LeaseOf'
  <2>1. /\ box' = Moved(w, m, "delay", Retried(m, runAt))
        /\ Retried(m, runAt).task = m.task /\ Retried(m, runAt).lease = m.lease
    BY <1>1, <1>6 DEF RetrySchedules, Retried, Message
  <2> QED
    BY <1>1, <2>1, DelayPlace, MovedLease
<1> QED
  BY <1>2, <1>3, <1>4, <1>5, <1>6 DEF BeginStep, SettleStep

LEMMA LeaseOfKept ==
    ASSUME TaskInv, LeaseOf, TaskStep
    PROVE  LeaseOf'
<1>1. CASE \E t \in Task, s \in Submitted, allowNew \in BOOLEAN : EnqueueV2(t, s, allowNew)
  <2>1. PICK t \in Task, s \in Submitted, allowNew \in BOOLEAN : EnqueueV2(t, s, allowNew)
    BY <1>1
  <2>2. /\ Destination(s) \in {"ready", "delay"}
        /\ box' = [box EXCEPT ![Destination(s)] = box[Destination(s)] \cup {NewMessage(t, s)}]
    BY <2>1, EnqueueWrites
  <2>3. NewMessage(t, s).lease = None
    BY DEF NewMessage
  <2>4. \A p \in Place : \A x \in box'[p] : x = NewMessage(t, s) \/ x \in box[p]
    BY <2>2, DelayPlace DEF TaskInv, TaskTypes
  <2> QED
    BY <2>3, <2>4, FewerLeases
<1>2. CASE \E w \in Worker : \E m \in box["ready"] : Takes(w, m)
  <2>1. PICK w \in Worker, m \in box["ready"] : Takes(w, m)
    BY <1>2
  <2>2. box' = Moved("ready", m, w, m) /\ w \in Place
    BY <2>1, WorkerPlace DEF Takes
  <2> QED
    BY <2>2, DelayPlace, MovedLease
<1>3. CASE \E w \in Worker : \E m \in hand[w] : BeginStep(w, m) \/ SettleStep(w, m)
  BY <1>3, HandLeaseOf
<1>4. CASE \E w \in Worker : \E m \in box[w] : RecoverAbandonedClaim(w, m) \/ MoveToReady(w, m)
  <2>1. PICK w \in Worker : \E m \in box[w] : RecoverAbandonedClaim(w, m) \/ MoveToReady(w, m)
    BY <1>4
  <2>2. PICK m \in box[w] : RecoverAbandonedClaim(w, m) \/ MoveToReady(w, m)
    BY <2>1
  <2>3. w \in Place /\ Live(m.task)
    BY MessageTask, WorkerPlace
  <2>4. box' = Moved(w, m, "ready", m)
    BY <2>2, <2>3 DEF RecoverAbandonedClaim, MoveToReady, Live
  <2> QED
    BY <2>3, <2>4, DelayPlace, MovedLease
<1>5. CASE MoveDueDelay
  <2>1. PICK D \in SUBSET box["delay"] :
           box' = [box EXCEPT !["delay"] = @ \ D, !["ready"] = @ \cup D]
    BY <1>5, BatchWrites
  <2>2. \A p \in Place : \A x \in box'[p] : \E q \in Place : x \in box[q]
    BY <2>1, DelayPlace, BatchHolds
  <2> QED
    BY <2>2, FewerLeases
<1>6. CASE \E m \in box["delay"] : MoveDelayMessage(m)
  BY <1>6, DelayPlace, MovedLease DEF MoveDelayMessage
<1>7. CASE \E p \in Place, release \in BOOLEAN : \E m \in box[p] : CancelOrPurge(p, m, release)
  BY <1>7, RemovedHolds, FewerLeases DEF CancelOrPurge
<1>8. CASE \E t, u \in Task, d \in Time \cup {None} : Replay(t, u, d)
  <2>1. PICK t \in Task, u \in Task, d \in Time \cup {None} : Replay(t, u, d)
    BY <1>8
  <2>2. /\ box'["dlq"] \subseteq box["dlq"]
        /\ box'["ready"] = box["ready"] \cup {NewMessage(u, ReplaySpec(t, d))}
        /\ \A p \in Place \ {"dlq", "ready"} : box'[p] = box[p]
    BY <2>1, ReplayWrites
  <2>3. NewMessage(u, ReplaySpec(t, d)).lease = None
    BY DEF NewMessage
  <2>4. \A p \in Place : \A x \in box'[p] : x = NewMessage(u, ReplaySpec(t, d)) \/ x \in box[p]
    BY <2>2
  <2> QED
    BY <2>3, <2>4, FewerLeases
<1>9. CASE \/ \E t \in Task : RequeueUpdate(t)
           \/ \E k \in Key : OwnerExpires(k)
           \/ \E c \in Conc : LeaseExpires(c)
  BY <1>9 DEF RequeueUpdate, OwnerExpires, LeaseExpires, LeaseOf
<1> QED
  BY <1>1, <1>2, <1>3, <1>4, <1>5, <1>6, <1>7, <1>8, <1>9 DEF TaskStep

\* A lease that is gone or replaced was free, or expired, or the message that
\* carries it left the place it was in with the very script that released it.
LEMMA ReleasedLease ==
    ASSUME TaskInv, NEW c \in Conc, NEW m, lease' = lease \/ lease' = Released(m),
           lease'[c] # lease[c]
    PROVE  lease[c] # None /\ m.lease = lease[c]
BY DEF Released, TaskInv, TaskTypes

Left(x) == \A w \in Worker : \A y \in box'[w] : y.task # x.task

LeavesWith(c) ==
    \E q \in Place : \E x \in box[q] :
        lease[c] # None /\ x.lease = lease[c] /\ Left(x)

LEMMA RemovedLeaves ==
    ASSUME TaskInv, NEW c \in Conc, NEW q \in Place, NEW m \in box[q],
           lease' = lease \/ lease' = Released(m),
           \/ box' = Removed(q, m)
           \/ \E p \in {"ready", "delay", "dlq"} : \E n :
                 n.task = m.task /\ box' = Moved(q, m, p, n),
           lease'[c] # lease[c]
    PROVE  LeavesWith(c)
<1>1. lease[c] # None /\ m.lease = lease[c]
  BY ReleasedLease
<1>2. CASE box' = Removed(q, m)
  <2>1. \A r \in Place : \A x \in box'[r] : x.task # m.task
    BY <1>2, RemovedHolds
  <2> QED
    BY <1>1, <2>1, WorkerPlace DEF LeavesWith, Left
<1>3. ASSUME NEW p \in {"ready", "delay", "dlq"}, NEW n, n.task = m.task,
             box' = Moved(q, m, p, n)
      PROVE  LeavesWith(c)
  <2>1. \A r \in Place : \A x \in box'[r] : r = p \/ x.task # m.task
    BY <1>3, DelayPlace, MovedHolds
  <2>2. Left(m)
    BY <2>1, WorkerPlace DEF Left
  <2> QED
    BY <1>1, <2>2 DEF LeavesWith
<1> QED
  BY <1>2, <1>3

LEMMA HandLease ==
    ASSUME TaskInv, NEW w \in Worker, NEW m \in hand[w], BeginStep(w, m) \/ SettleStep(w, m),
           NEW c \in Conc, lease'[c] # lease[c]
    PROVE  lease[c] = None \/ LeavesWith(c)
<1>1. /\ m \in box[w] /\ w \in Place /\ m \in Message
      /\ SpecOf(m).conc \in Conc \cup {None}
  BY HandOwned, WorkerPlace, MessageTask DEF SpecOf, TaskSpec
<1>2. CASE BeginEnds(w, m) \/ BeginFailsBudget(w, m) \/ BeginDefers(w, m)
  BY <1>2 DEF BeginEnds, BeginFailsBudget, BeginDefers
<1>3. CASE CompleteTask(w, m) \/ \E runAt \in Time : RetrySkips(w, m, runAt)
  BY <1>1, <1>3, RemovedLeaves DEF CompleteTask, RetrySkips
<1>4. CASE FailTask(w, m) \/ ReturnUnstartedClaim(w, m)
  <2>1. box' = Moved(w, m, "dlq", m) \/ box' = Moved(w, m, "ready", m)
    BY <1>4 DEF FailTask, ReturnUnstartedClaim
  <2>2. lease' = Released(m)
    BY <1>4 DEF FailTask, ReturnUnstartedClaim
  <2> QED
    BY <1>1, <2>1, <2>2, RemovedLeaves
<1>5. ASSUME NEW tok \in Token, BeginStarts(w, m, tok)
      PROVE  lease[c] = None
  <2>1. SpecOf(m).conc # None => lease[SpecOf(m).conc] = None
    BY <1>5 DEF BeginStarts, BeginCode
  <2>2. /\ SpecOf(m).conc # None => lease' = [lease EXCEPT ![SpecOf(m).conc] = tok]
        /\ SpecOf(m).conc = None => lease' = lease
    BY <1>5 DEF BeginStarts
  <2> QED
    BY <1>1, <2>1, <2>2 DEF TaskInv, TaskTypes
<1>6. ASSUME NEW runAt \in Time, RetrySchedules(w, m, runAt)
      PROVE  LeavesWith(c)
  <2>1. /\ box' = Moved(w, m, "delay", Retried(m, runAt))
        /\ Retried(m, runAt).task = m.task
    BY <1>1, <1>6 DEF RetrySchedules, Retried, Message
  <2>2. lease' = Released(m)
    BY <1>6 DEF RetrySchedules
  <2> QED
    BY <1>1, <2>1, <2>2, RemovedLeaves
<1> QED
  BY <1>2, <1>3, <1>4, <1>5, <1>6 DEF BeginStep, SettleStep

LEMMA LeaseChange ==
    ASSUME TaskInv, TaskStep, NEW c \in Conc, lease'[c] # lease[c]
    PROVE  lease[c] = None \/ LeavesWith(c) \/ LeaseExpires(c)
<1>1. CASE \E t \in Task, s \in Submitted, allowNew \in BOOLEAN : EnqueueV2(t, s, allowNew)
  BY <1>1 DEF EnqueueV2
<1>2. CASE \E w \in Worker : \E m \in box["ready"] : Takes(w, m)
  BY <1>2 DEF Takes
<1>3. CASE \E w \in Worker : \E m \in hand[w] : BeginStep(w, m) \/ SettleStep(w, m)
  BY <1>3, HandLease
<1>4. CASE \E w \in Worker : \E m \in box[w] : RecoverAbandonedClaim(w, m)
  <2>1. PICK w \in Worker : \E m \in box[w] : RecoverAbandonedClaim(w, m)
    BY <1>4
  <2>2. PICK m \in box[w] : RecoverAbandonedClaim(w, m)
    BY <2>1
  <2>3. w \in Place /\ Live(m.task)
    BY MessageTask, WorkerPlace
  <2>4. box' = Moved(w, m, "ready", m) /\ lease' = Released(m)
    BY <2>2, <2>3 DEF RecoverAbandonedClaim, Live
  <2> QED
    BY <2>3, <2>4, RemovedLeaves
<1>5. CASE \E v \in Worker : \E m \in box[v] : MoveToReady(v, m)
  BY <1>5 DEF MoveToReady
<1>6. CASE MoveDueDelay \/ \E m \in box["delay"] : MoveDelayMessage(m)
  BY <1>6 DEF MoveDueDelay, MoveDelayMessage
<1>7. CASE \E p \in Place, release \in BOOLEAN : \E m \in box[p] : CancelOrPurge(p, m, release)
  BY <1>7, RemovedLeaves DEF CancelOrPurge
<1>8. CASE \E t, u \in Task, d \in Time \cup {None} : Replay(t, u, d)
  BY <1>8 DEF Replay, ReplayTask
<1>9. CASE (\E t \in Task : RequeueUpdate(t)) \/ \E k \in Key : OwnerExpires(k)
  BY <1>9 DEF RequeueUpdate, OwnerExpires
<1>10. CASE \E d \in Conc : LeaseExpires(d)
  BY <1>10 DEF LeaseExpires, TaskInv, TaskTypes
<1> QED
  BY <1>1, <1>2, <1>3, <1>4, <1>5, <1>6, <1>7, <1>8, <1>9, <1>10 DEF TaskStep

\* Lateness is forgotten only when the main thread lets its claim go.
LEMMA LateKept ==
    ASSUME LocalTypes, [Next]_vars, NEW w \in Worker, Still(w), w \in late, ~Turn(w)
    PROVE  w \in late'
<1>1. CASE \E v \in Worker \ {w} : WorkerStep(v)
  BY <1>1, OtherWorker
<1>2. CASE WorkerStep(w)
  <2>1. \/ HeartbeatLoop(w) \/ Stop(w) \/ RecoverAbandoned(w) \/ FinishLost(w)
        \/ \E v \in Worker : RecoverStale(w, v)
    BY <1>2 DEF WorkerStep, Progress, Upset, Turn
  <2> QED
    BY <2>1 DEF HeartbeatLoop, Stop, RecoverAbandoned, FinishLost, RecoverStale, ghostVars
<1>3. CASE AdminStep
  BY <1>3 DEF AdminStep, Purge, Replay, ForceRecover, Requeue, RequeueUpdate, Prune, ghostVars
<1>4. CASE Producer \/ Environment \/ UNCHANGED vars
  BY <1>4 DEF Producer, Enqueue, Environment, Tick, OwnerExpires, LeaseExpires,
     HeartbeatExpires, Crash, Goto, Holds, Turn, ghostVars, vars
<1> QED
  BY <1>1, <1>2, <1>3, <1>4 DEF Next

LEMMA LeaseHeldKept ==
    ASSUME ClaimsInv, LeaseOf, LeaseHeld, [Next]_vars
    PROVE  LeaseHeld'
<1>0. TaskInv /\ LocalTypes /\ NoOddUpdate
  BY DEF ClaimsInv, IndexInv, Inv, LocalInv
<1>1. TaskStep \/ UNCHANGED taskVars
  BY <1>0, EveryStep
<1> SUFFICES ASSUME NEW w \in Worker, pc'[w] \in {"claimed", "running"}, w \notin late',
                    NEW m \in hand'[w] \cap box'[w]
             PROVE  HoldsLease(w, m)'
  BY DEF LeaseHeld
<1>2. CASE Still(w) /\ ~Turn(w)
  <2>1. pc[w] \in {"claimed", "running"} /\ m \in hand[w] /\ w \notin late
    BY <1>0, <1>2, LateKept DEF Still
  <2>2. m \in box[w] /\ SameRecord(m.task)
    BY <1>0, <1>1, <1>2, ListShrinks DEF Still
  <2>3. SpecOf(m)' = SpecOf(m) /\ w \in Place
    BY <2>2, WorkerPlace DEF SpecOf, SameRecord
  <2>4. HoldsLease(w, m)
    BY <2>1, <2>2 DEF LeaseHeld
  <2> DEFINE c == SpecOf(m).conc
  <2>5. CASE c = None \/ lease'[c] = lease[c]
    BY <2>3, <2>4, <2>5 DEF HoldsLease
  <2>6. CASE c # None /\ lease'[c] # lease[c]
    <3>1. c \in Conc /\ m.lease # None /\ lease[c] = m.lease
      BY <1>0, <2>2, <2>3, <2>4, <2>6, MessageTask DEF HoldsLease, SpecOf, TaskSpec
    <3>2. TaskStep
      BY <1>1, <2>6 DEF taskVars
    <3>3. ~LeaseExpires(c)
      BY <2>1, <3>1 DEF LeaseExpires, Holders
    <3>4. LeavesWith(c)
      BY <1>0, <2>6, <3>1, <3>2, <3>3, LeaseChange
    <3>5. PICK q \in Place : \E x \in box[q] :
             lease[c] # None /\ x.lease = lease[c] /\ Left(x)
      BY <3>4 DEF LeavesWith
    <3>6. PICK x \in box[q] : lease[c] # None /\ x.lease = lease[c] /\ Left(x)
      BY <3>5
    <3>7. x.task = m.task
      BY <2>2, <2>3, <3>1, <3>6 DEF LeaseOf
    <3> QED
      BY <3>6, <3>7 DEF Left
  <2> QED
    BY <2>5, <2>6
<1> USE DEF Goto, Holds, BackToPoll, LocalTypes
<1>3. CASE Begin(w)
  <2>1. PICK x \in hand[w], tok \in Token :
           BeginStarts(w, x, tok) /\ hand'[w] = {Started(x, tok)}
    BY <1>0, <1>3 DEF Begin
  <2>2. m = Started(x, tok) /\ x \in box[w] /\ w \in Place
    BY <2>1, BeginOwned, WorkerPlace DEF BeginStarts, Owned
  <2>3. x \in Message /\ x.task \in Task /\ SpecOf(x).conc \in Conc \cup {None}
    BY <1>0, <2>2, MessageTask DEF SpecOf, TaskSpec
  <2>4. rec'[x.task].spec = rec[x.task].spec
    BY <1>0, <2>1, <2>3, StartsWrites DEF TaskInv, Writes
  <2>5. m.task = x.task /\ m.lease = IF SpecOf(x).conc # None THEN tok ELSE None
    BY <2>2, <2>3 DEF Started, Message
  <2>6. SpecOf(m)' = SpecOf(x)
    BY <2>4, <2>5 DEF SpecOf
  <2>7. SpecOf(x).conc # None => lease'[SpecOf(x).conc] = tok
    BY <1>0, <2>1, <2>3 DEF BeginStarts, TaskInv, TaskTypes
  <2> QED
    BY <2>5, <2>6, <2>7, DomainAssumption DEF HoldsLease
<1>4. CASE Admit(w)
  <2>1. /\ pc[w] = "claimed" /\ hand' = hand /\ late' = late
        /\ box' = box /\ rec' = rec /\ lease' = lease
    BY <1>4 DEF Admit, taskVars
  <2>2. HoldsLease(w, m)
    BY <2>1 DEF LeaseHeld
  <2> QED
    BY <2>1, <2>2 DEF HoldsLease, SpecOf
<1>5. CASE Turn(w) /\ ~Begin(w) /\ ~Admit(w)
  <2>1. pc'[w] \notin {"claimed", "running"}
    BY <1>0, <1>5 DEF Turn, Start, Ready, Exit, Poll, MoveRetry, Pop, PopLost,
       PopNone, PollRaises, BeginOther, BeginLost, PayloadFails, PayloadFailLost,
       ReturnUnstarted, ReturnRaises, Finish, FinishAbandoned, Crash
  <2> QED
    BY <2>1
<1> QED
  BY <1>0, <1>2, <1>3, <1>4, <1>5, Turns

LEMMA KeysInit == Init => LeaseOf /\ LeaseHeld
BY WorkerPlace DEF Init, LeaseOf, LeaseHeld

\* Two handlers of one concurrency key never overlap unless a lease expired
\* under one of them, whatever else happens: a lease is freed or taken over only
\* together with the message that carries it.
THEOREM KeyedConcurrencyHolds == Spec => []KeyedConcurrency
<1>1. Init => ClaimsInv /\ LeaseOf /\ LeaseHeld
  BY ClaimsInit, KeysInit
<1>2. ClaimsInv /\ LeaseOf /\ LeaseHeld /\ [Next]_vars => ClaimsInv' /\ LeaseOf' /\ LeaseHeld'
  <2> SUFFICES ASSUME ClaimsInv, LeaseOf, LeaseHeld, [Next]_vars
               PROVE  ClaimsInv' /\ LeaseOf' /\ LeaseHeld'
    OBVIOUS
  <2>1. TaskInv /\ LocalTypes /\ NoOddUpdate
    BY DEF ClaimsInv, IndexInv, Inv, LocalInv
  <2>2. TaskStep \/ UNCHANGED taskVars
    BY <2>1, EveryStep
  <2>3. LeaseOf'
    BY <2>1, <2>2, LeaseOfKept DEF LeaseOf, taskVars
  <2> QED
    BY <2>3, ClaimsNext, LeaseHeldKept
<1>3. ClaimsInv /\ LeaseOf /\ LeaseHeld => KeyedConcurrency
  <2> SUFFICES ASSUME ClaimsInv, LeaseOf, LeaseHeld,
                      NEW v \in Worker, NEW w \in Worker, v # w,
                      NEW m \in hand[v], NEW n \in hand[w],
                      pc[v] = "running", pc[w] = "running", m \in box[v], n \in box[w],
                      SpecOf(m).conc # None, SpecOf(m).conc = SpecOf(n).conc,
                      v \notin late, w \notin late
               PROVE  FALSE
    BY DEF KeyedConcurrency
  <2>1. HoldsLease(v, m) /\ HoldsLease(w, n) /\ v \in Place /\ w \in Place
    BY WorkerPlace DEF LeaseHeld
  <2>2. m.lease # None /\ m.lease = n.lease
    BY <2>1 DEF HoldsLease
  <2>3. m.task = n.task
    BY <2>1, <2>2 DEF LeaseOf
  <2> QED
    BY <2>1, <2>3 DEF ClaimsInv, IndexInv, Inv, TaskInv, OneMessage
<1> QED
  BY <1>1, <1>2, <1>3, PTL DEF Spec

-----------------------------------------------------------------------------
\* Identities.

\* An id that is not in use has overridden nobody, ...
Blank == \A t \in Task : ~Exists(t) => rec[t].override = None

\* ... and an owner that is finalized names a task that has ended.
OwnerKnown ==
    \A k \in Key : owner[k].task \in Task =>
        Exists(owner[k].task) /\ (owner[k].outcome # "none" => ~Live(owner[k].task))

IdentityInv == Blank /\ OwnerKnown /\ IdentityHeld

\* An owner hash keeps its task, unless the task is over.
OwnerLasts(k) ==
    \/ owner'[k] = owner[k]
    \/ /\ owner'[k].task \in {None, owner[k].task}
       /\ owner[k].task \in Task => rec'[owner[k].task].outcome # "live"

KeepsOwners ==
    /\ \A k \in Key : OwnerLasts(k)
    /\ \A t \in Task :
          /\ rec'[t].spec = rec[t].spec /\ rec'[t].override = rec[t].override
          /\ rec'[t].outcome = "live" => Live(t)
          /\ rec'[t].outcome # "absent" => Exists(t)

\* A new task takes over the owner hash of its key.
Creates(t, s) ==
    /\ ~Exists(t)
    /\ rec'[t].outcome = "live" /\ rec'[t].spec = s
    /\ \/ rec'[t].override = CurrentOwner(s)
       \/ CurrentOwner(s) \in Task => ~Live(CurrentOwner(s))
    /\ owner' = NewOwner(t, s)
    /\ \A u \in Task \ {t} :
          /\ rec'[u].spec = rec[u].spec /\ rec'[u].override = rec[u].override
          /\ rec'[u].outcome = rec[u].outcome

LEMMA FinalizedLasts ==
    ASSUME TaskTypes, NEW t \in Task, NEW outcome, owner' = Finalized(t, outcome),
           rec'[t].outcome # "live", NEW k \in Key
    PROVE  OwnerLasts(k)
<1> DEFINE h == rec[t].spec.key
           new == IF owner[h].until > now THEN [owner[h] EXCEPT !.outcome = outcome]
                  ELSE NoOwner
<1>1. CASE h = None \/ owner[h].task # t
  BY <1>1 DEF Finalized, OwnerLasts
<1>2. CASE h # None /\ owner[h].task = t
  <2>1. owner' = [owner EXCEPT ![h] = new]
    BY <1>2 DEF Finalized
  <2>2. CASE k # h
    BY <2>1, <2>2 DEF OwnerLasts, TaskTypes
  <2>3. CASE k = h
    <3>1. owner[h] \in Owner
      BY <2>3 DEF TaskTypes
    <3>2. new.task \in {None, t}
      BY <1>2, <3>1 DEF Owner, NoOwner
    <3> HIDE DEF new
    <3>3. owner'[k] = new
      BY <2>1, <2>3 DEF TaskTypes
    <3> QED
      BY <1>2, <2>3, <3>2, <3>3 DEF OwnerLasts
  <2> QED
    BY <2>2, <2>3
<1> QED
  BY <1>1, <1>2

LEMMA PurgedLasts ==
    ASSUME TaskTypes, NEW t \in Task, NEW release, owner' = PurgedOwner(t, release),
           rec'[t].outcome # "live", NEW k \in Key
    PROVE  OwnerLasts(k)
<1> DEFINE h == rec[t].spec.key
<1>1. CASE release /\ h # None /\ owner[h].task = t
  <2>1. owner' = [owner EXCEPT ![h] = NoOwner]
    BY <1>1 DEF PurgedOwner
  <2>2. k # h => owner'[k] = owner[k]
    BY <2>1 DEF TaskTypes
  <2>3. k = h => owner'[k] = NoOwner
    BY <2>1 DEF TaskTypes
  <2>4. NoOwner.task = None
    BY DEF NoOwner
  <2> QED
    BY <1>1, <2>2, <2>3, <2>4 DEF OwnerLasts
<1>2. CASE ~(release /\ h # None /\ owner[h].task = t)
  BY <1>2, FinalizedLasts DEF PurgedOwner
<1> QED
  BY <1>1, <1>2

LEMMA WritesKeepOwners ==
    ASSUME NEW t \in Task, Exists(t), NEW outcome, outcome = "live" => Live(t),
           NEW location, NEW op, NEW attempt, NEW claim,
           Writes(t, outcome, location, op, attempt, claim),
           \A k \in Key : OwnerLasts(k)
    PROVE  KeepsOwners
BY DEF KeepsOwners, Writes, Exists, Live

LEMMA EndedKeepsOwners ==
    ASSUME TaskTypes, NEW t \in Task, Exists(t), NEW outcome \in Terminal, NEW op \in BOOLEAN,
           rec' = Ended(t, outcome, op),
           owner' = Finalized(t, outcome) \/ \E release : owner' = PurgedOwner(t, release)
    PROVE  KeepsOwners
<1>1. Writes(t, outcome, IF op THEN "dlq" ELSE "history", op, rec[t].attempt, rec[t].claim)
  BY EndedWrites
<1>2. outcome # "live" /\ rec'[t].outcome # "live"
  BY <1>1 DEF Terminal, Writes
<1>3. \A k \in Key : OwnerLasts(k)
  BY <1>2, FinalizedLasts, PurgedLasts
<1> QED
  BY <1>1, <1>2, <1>3, WritesKeepOwners

LEMMA SameOwners ==
    ASSUME owner' = owner
    PROVE  \A k \in Key : OwnerLasts(k)
BY DEF OwnerLasts

LEMMA HandKeepsOwners ==
    ASSUME TaskInv, NEW w \in Worker, NEW m \in hand[w], BeginStep(w, m) \/ SettleStep(w, m)
    PROVE  KeepsOwners
<1>1. TaskTypes /\ m.task \in Task /\ Live(m.task) /\ Exists(m.task)
  BY HandOwned, WorkerPlace, MessageTask DEF TaskInv
<1>2. CASE BeginEnds(w, m)
  <2>1. BeginCode(w, m) \in Terminal
    BY <1>2 DEF BeginEnds, Terminal
  <2> QED
    BY <1>1, <1>2, <2>1, EndedKeepsOwners DEF BeginEnds
<1>3. CASE \/ BeginFailsBudget(w, m) \/ FailTask(w, m) \/ CompleteTask(w, m)
           \/ \E runAt \in Time : RetrySkips(w, m, runAt)
  BY <1>1, <1>3, EndedKeepsOwners
     DEF BeginFailsBudget, FailTask, CompleteTask, RetrySkips, Terminal
<1>4. CASE BeginDefers(w, m)
  <2>1. \A k \in Key : OwnerLasts(k)
    BY <1>4, SameOwners DEF BeginDefers
  <2>2. Writes(m.task, rec[m.task].outcome, "delay", rec[m.task].op,
               rec[m.task].attempt, rec[m.task].claim)
    BY <1>1, <1>4, RelocatedWrites DEF BeginDefers
  <2> QED
    BY <1>1, <2>1, <2>2, WritesKeepOwners DEF Live
<1>5. ASSUME NEW tok \in Token, BeginStarts(w, m, tok) PROVE KeepsOwners
  <2>1. \A k \in Key : OwnerLasts(k)
    BY <1>5, SameOwners DEF BeginStarts
  <2>2. Writes(m.task, rec[m.task].outcome, "processing", rec[m.task].op,
               rec[m.task].attempt + 1, tok)
    BY <1>1, <1>5, StartsWrites
  <2> QED
    BY <1>1, <2>1, <2>2, WritesKeepOwners DEF Live
<1>6. ASSUME NEW runAt \in Time, RetrySchedules(w, m, runAt) PROVE KeepsOwners
  <2>1. \A k \in Key : OwnerLasts(k)
    BY <1>6, SameOwners DEF RetrySchedules
  <2>2. Writes(m.task, rec[m.task].outcome, "delay", TRUE,
               rec[m.task].attempt, rec[m.task].claim)
    BY <1>1, <1>6, SchedulesWrites
  <2> QED
    BY <1>1, <2>1, <2>2, WritesKeepOwners DEF Live
<1>7. CASE ReturnUnstartedClaim(w, m)
  <2>1. \A k \in Key : OwnerLasts(k)
    BY <1>7, SameOwners DEF ReturnUnstartedClaim
  <2>2. Writes(m.task, rec[m.task].outcome, "ready", rec[m.task].op,
               rec[m.task].attempt - 1, rec[m.task].claim)
    BY <1>1, <1>7, ReturnsWrites
  <2> QED
    BY <1>1, <2>1, <2>2, WritesKeepOwners DEF Live
<1> QED
  BY <1>2, <1>3, <1>4, <1>5, <1>6, <1>7 DEF BeginStep, SettleStep

\* Submitting ...
NewTask ==
    \/ \E t \in Task, s \in Submitted, allowNew \in BOOLEAN : EnqueueV2(t, s, allowNew)
    \/ \E t, u \in Task, d \in Time \cup {None} : Replay(t, u, d)

\* ... and everything else that is done to tasks.
LEMMA OldStep ==
    ASSUME TaskInv, OwnerKnown, TaskStep, ~NewTask
    PROVE  KeepsOwners
<1>0. TaskTypes
  BY DEF TaskInv
<1>1. CASE \E w \in Worker : \E m \in box["ready"] : Takes(w, m)
  BY <1>1 DEF Takes, KeepsOwners, OwnerLasts, Live, Exists
<1>2. CASE \E w \in Worker : \E m \in hand[w] : BeginStep(w, m) \/ SettleStep(w, m)
  BY <1>2, HandKeepsOwners
<1>3. CASE \E w \in Worker : \E m \in box[w] : RecoverAbandonedClaim(w, m) \/ MoveToReady(w, m)
  <2>1. PICK w \in Worker : \E m \in box[w] : RecoverAbandonedClaim(w, m) \/ MoveToReady(w, m)
    BY <1>3
  <2>2. PICK m \in box[w] : RecoverAbandonedClaim(w, m) \/ MoveToReady(w, m)
    BY <2>1
  <2>3. m.task \in Task /\ Live(m.task) /\ Exists(m.task)
    BY MessageTask, WorkerPlace
  <2>4. \A k \in Key : OwnerLasts(k)
    BY <2>2, SameOwners DEF RecoverAbandonedClaim, MoveToReady
  <2>5. \E attempt : Writes(m.task, "live", "ready", rec[m.task].op, attempt, rec[m.task].claim)
    <3>1. CASE RecoverAbandonedClaim(w, m)
      BY <1>0, <2>3, <3>1, RecoversWrites
    <3>2. CASE MoveToReady(w, m)
      <4>1. rec' = Relocated(m.task, "ready") /\ rec[m.task].outcome = "live"
        BY <2>3, <3>2 DEF MoveToReady, Live
      <4> QED
        BY <1>0, <2>3, <4>1, RelocatedWrites
    <3> QED
      BY <2>2, <3>1, <3>2
  <2> QED
    BY <2>3, <2>4, <2>5, WritesKeepOwners
<1>4. CASE MoveDueDelay
  <2>1. \A k \in Key : OwnerLasts(k)
    BY <1>4, SameOwners DEF MoveDueDelay
  <2>2. \A t \in Task : /\ rec'[t].spec = rec[t].spec /\ rec'[t].override = rec[t].override
                        /\ rec'[t].outcome = rec[t].outcome
    BY <1>4, BatchWrites
  <2> QED
    BY <2>1, <2>2 DEF KeepsOwners, Live, Exists
<1>5. CASE \E m \in box["delay"] : MoveDelayMessage(m)
  <2>1. PICK m \in box["delay"] : MoveDelayMessage(m)
    BY <1>5
  <2>2. m.task \in Task /\ Exists(m.task)
    BY DelayPlace, MessageTask
  <2>3. Writes(m.task, rec[m.task].outcome, "ready", rec[m.task].op,
               rec[m.task].attempt, rec[m.task].claim)
    BY <1>0, <2>1, <2>2, RelocatedWrites DEF MoveDelayMessage
  <2>4. \A k \in Key : OwnerLasts(k)
    BY <2>1, SameOwners DEF MoveDelayMessage
  <2> QED
    BY <2>2, <2>3, <2>4, WritesKeepOwners DEF Live
<1>6. CASE \E p \in Place, release \in BOOLEAN : \E m \in box[p] : CancelOrPurge(p, m, release)
  <2>0. PICK p \in Place, release \in BOOLEAN : \E m \in box[p] : CancelOrPurge(p, m, release)
    BY <1>6
  <2>1. PICK m \in box[p] : CancelOrPurge(p, m, release)
    BY <2>0
  <2>2. m.task \in Task /\ Exists(m.task)
    BY MessageTask
  <2>3. PurgedOutcome(m.task) \in Terminal
    BY <1>0, <2>2 DEF PurgedOutcome, Terminal, Live, Exists, TaskTypes, Record, Outcome
  <2> QED
    BY <1>0, <2>1, <2>2, <2>3, EndedKeepsOwners DEF CancelOrPurge
<1>7. CASE \E t \in Task : RequeueUpdate(t)
  <2>1. PICK t \in Task : RequeueUpdate(t)
    BY <1>7
  <2>2. /\ Writes(t, rec[t].outcome, rec[t].location, TRUE, rec[t].attempt, rec[t].claim)
        /\ owner' = owner
    BY <1>0, <2>1, UpdateWrites
  <2> QED
    BY <2>2, SameOwners DEF KeepsOwners, Writes, Live, Exists
<1>8. CASE \E k \in Key : OwnerExpires(k)
  <2>1. PICK k \in Key : OwnerExpires(k)
    BY <1>8
  <2>2. /\ owner[k].outcome # "none" /\ owner' = [owner EXCEPT ![k] = NoOwner] /\ rec' = rec
    BY <2>1 DEF OwnerExpires
  <2>3. owner[k].task \in Task => ~Live(owner[k].task)
    BY <2>2 DEF OwnerKnown
  <2>4. \A h \in Key : OwnerLasts(h)
    BY <1>0, <2>2, <2>3 DEF OwnerLasts, Live, NoOwner, TaskTypes
  <2> QED
    BY <2>2, <2>4 DEF KeepsOwners, Live, Exists
<1>9. CASE \E c \in Conc : LeaseExpires(c)
  BY <1>9 DEF LeaseExpires, KeepsOwners, OwnerLasts, Live, Exists
<1> QED
  BY <1>1, <1>2, <1>3, <1>4, <1>5, <1>6, <1>7, <1>8, <1>9 DEF TaskStep, NewTask

LEMMA OwnerStep ==
    ASSUME TaskInv, OwnerKnown, TaskStep
    PROVE  KeepsOwners \/ \E t \in Task, s \in TaskSpec : Creates(t, s)
<1>1. CASE \E t \in Task, s \in Submitted, allowNew \in BOOLEAN : EnqueueV2(t, s, allowNew)
  <2>1. PICK t \in Task, s \in Submitted, allowNew \in BOOLEAN : EnqueueV2(t, s, allowNew)
    BY <1>1
  <2>2. /\ ~Exists(t) /\ s \in TaskSpec /\ \A u \in Task \ {t} : rec'[u] = rec[u]
        /\ rec'[t] = NewRecord(s, CurrentOwner(s))
    BY <2>1, EnqueueWrites
  <2>3. rec'[t].outcome = "live" /\ rec'[t].spec = s /\ rec'[t].override = CurrentOwner(s)
    BY <2>2 DEF NewRecord
  <2>4. owner' = NewOwner(t, s)
    BY <2>1 DEF EnqueueV2
  <2> QED
    BY <2>2, <2>3, <2>4 DEF Creates
<1>2. CASE \E t, u \in Task, d \in Time \cup {None} : Replay(t, u, d)
  <2>1. PICK t \in Task, u \in Task, d \in Time \cup {None} : Replay(t, u, d)
    BY <1>2
  <2> DEFINE s == ReplaySpec(t, d)
  <2>2. /\ t # u /\ ~Exists(u) /\ ~Live(t) /\ s \in TaskSpec
        /\ \A v \in Task \ {t, u} : rec'[v] = rec[v]
        /\ rec'[t].spec = rec[t].spec /\ rec'[t].outcome = rec[t].outcome
        /\ rec'[t].override = rec[t].override
        /\ rec'[u] = NewRecord(s, None)
        /\ owner' = NewOwner(u, s)
        /\ CurrentOwner(s) \in {None, t}
    BY <2>1, ReplayWrites
  <2> HIDE DEF s
  <2>3. rec'[u].outcome = "live" /\ rec'[u].spec = s
    BY <2>2 DEF NewRecord
  <2>4. CurrentOwner(s) \in Task => ~Live(CurrentOwner(s))
    BY <2>2, DomainAssumption
  <2>5. Creates(u, s)
    BY <2>2, <2>3, <2>4 DEF Creates
  <2> QED
    BY <2>2, <2>5
<1> QED
  BY <1>1, <1>2, OldStep DEF NewTask

LEMMA KeptIdentities ==
    ASSUME TaskInv, IdentityInv, KeepsOwners,
           \A t \in Task : Exists(t) => Exists(t)'
    PROVE  IdentityInv'
<1>1. Blank'
  BY DEF IdentityInv, Blank, KeepsOwners, Exists
<1>2. OwnerKnown'
  <2> SUFFICES ASSUME NEW k \in Key, owner'[k].task \in Task
               PROVE  /\ rec'[owner'[k].task].outcome # "absent"
                      /\ owner'[k].outcome # "none" => rec'[owner'[k].task].outcome # "live"
    BY DEF OwnerKnown, Exists, Live
  <2>1. owner'[k].task = owner[k].task
    BY DomainAssumption DEF KeepsOwners, OwnerLasts
  <2>2. Exists(owner[k].task) /\ (owner[k].outcome # "none" => ~Live(owner[k].task))
    BY <2>1 DEF IdentityInv, OwnerKnown
  <2>3. OwnerLasts(k)
    BY DEF KeepsOwners
  <2> QED
    BY <2>1, <2>2, <2>3 DEF OwnerLasts, KeepsOwners, Exists
<1>3. IdentityHeld'
  <2> SUFFICES ASSUME NEW t \in Task, rec'[t].outcome = "live", rec'[t].spec.key # None,
                      owner'[rec'[t].spec.key].task # t
               PROVE  \E u \in Task : rec'[u].override = t
    BY DEF IdentityHeld, Live
  <2> DEFINE k == rec[t].spec.key
  <2>1. Live(t) /\ Exists(t) /\ rec'[t].spec = rec[t].spec
    BY DEF KeepsOwners, Exists, Live
  <2>2. k \in Key
    BY <2>1 DEF TaskInv, SpecKnown, TaskSpec
  <2>3. owner[k].task # t
    BY <2>1, <2>2 DEF KeepsOwners, OwnerLasts
  <2>4. PICK u \in Task : rec[u].override = t
    BY <2>1, <2>3 DEF IdentityInv, IdentityHeld
  <2> QED
    BY <2>4 DEF KeepsOwners
<1> QED
  BY <1>1, <1>2, <1>3 DEF IdentityInv

LEMMA CreatedIdentities ==
    ASSUME TaskInv, IdentityInv, NEW t \in Task, NEW s \in TaskSpec, Creates(t, s)
    PROVE  IdentityInv'
<1>1. /\ rec'[t].outcome = "live" /\ rec'[t].spec = s /\ ~Exists(t)
      /\ \A u \in Task \ {t} :
            /\ rec'[u].spec = rec[u].spec /\ rec'[u].override = rec[u].override
            /\ rec'[u].outcome = rec[u].outcome
      /\ s.key \in Key \cup {None}
  BY DEF Creates, TaskSpec
<1>2. /\ \A k \in Key : k # s.key => owner'[k] = owner[k]
      /\ s.key # None => owner'[s.key].task = t /\ owner'[s.key].outcome = "none"
  BY <1>1 DEF Creates, NewOwner, TaskInv, TaskTypes
<1>3. Blank'
  BY <1>1 DEF IdentityInv, Blank, Exists
<1>4. OwnerKnown'
  <2> SUFFICES ASSUME NEW k \in Key, owner'[k].task \in Task
               PROVE  /\ rec'[owner'[k].task].outcome # "absent"
                      /\ owner'[k].outcome # "none" => rec'[owner'[k].task].outcome # "live"
    BY DEF OwnerKnown, Exists, Live
  <2>1. CASE k = s.key
    BY <1>1, <1>2, <2>1, DomainAssumption
  <2>2. CASE k # s.key
    <3>1. owner'[k] = owner[k]
      BY <1>2, <2>2
    <3>2. Exists(owner[k].task) /\ (owner[k].outcome # "none" => ~Live(owner[k].task))
      BY <3>1 DEF IdentityInv, OwnerKnown
    <3>3. owner[k].task # t
      BY <1>1, <3>2
    <3> QED
      BY <1>1, <3>1, <3>2, <3>3 DEF Exists, Live
  <2> QED
    BY <2>1, <2>2
<1>5. IdentityHeld'
  <2> SUFFICES ASSUME NEW u \in Task, rec'[u].outcome = "live", rec'[u].spec.key # None,
                      owner'[rec'[u].spec.key].task # u
               PROVE  \E v \in Task : rec'[v].override = u
    BY DEF IdentityHeld, Live
  <2>1. u # t
    BY <1>1, <1>2
  <2> DEFINE k == rec[u].spec.key
  <2>2. Live(u) /\ Exists(u) /\ rec'[u].spec = rec[u].spec
    BY <1>1, <2>1 DEF Live, Exists
  <2>3. k \in Key
    BY <2>2 DEF TaskInv, SpecKnown, TaskSpec
  <2>4. CASE owner[k].task # u
    <3>1. PICK v \in Task : rec[v].override = u
      BY <2>2, <2>4 DEF IdentityInv, IdentityHeld
    <3>2. v # t
      BY <1>1, <3>1, DomainAssumption DEF IdentityInv, Blank
    <3> QED
      BY <1>1, <3>1, <3>2
  <2>5. CASE owner[k].task = u
    <3>1. k = s.key
      BY <1>2, <2>2, <2>3, <2>5
    <3>2. CurrentOwner(s) = u
      BY <2>2, <2>5, <3>1 DEF CurrentOwner
    <3> QED
      BY <2>2, <3>2 DEF Creates
  <2> QED
    BY <2>4, <2>5
<1> QED
  BY <1>3, <1>4, <1>5 DEF IdentityInv

LEMMA IdentityInit == Init => IdentityInv
<1> SUFFICES ASSUME Init PROVE IdentityInv
  OBVIOUS
<1>1. \A t \in Task : rec[t].outcome = "absent" /\ rec[t].override = None
  BY DEF Init, NoRecord
<1>2. \A k \in Key : owner[k].task = None
  BY DEF Init, NoOwner
<1> QED
  BY <1>1, <1>2, DomainAssumption DEF IdentityInv, Blank, OwnerKnown, IdentityHeld, Exists, Live

LEMMA IdentityNext == IndexInv /\ IdentityInv /\ [Next]_vars => IdentityInv'
<1> SUFFICES ASSUME IndexInv, IdentityInv, [Next]_vars PROVE IdentityInv'
  OBVIOUS
<1>1. TaskInv /\ LocalTypes /\ NoOddUpdate /\ OwnerKnown
  BY DEF IndexInv, Inv, LocalInv, IdentityInv
<1>2. CASE UNCHANGED taskVars
  BY <1>2 DEF taskVars, IdentityInv, Blank, OwnerKnown, IdentityHeld, Exists, Live
<1>3. CASE TaskStep
  <2>1. \A t \in Task : Exists(t) => Exists(t)'
    BY <1>1, <1>3, ExistsLasts
  <2> QED
    BY <1>1, <1>3, <2>1, OwnerStep, KeptIdentities, CreatedIdentities
<1> QED
  BY <1>1, <1>2, <1>3, EveryStep

\* A live task keeps its logical key until an ALLOW_NEW enqueue takes it over:
\* no end, purge, replay or expiry of another task of the key frees it.
THEOREM IdentityHeldHolds == Spec => []IdentityHeld
<1>1. Init => IndexInv /\ IdentityInv
  BY IndexInit, IdentityInit
<1>2. IndexInv /\ IdentityInv /\ [Next]_vars => IndexInv' /\ IdentityInv'
  BY IndexNext, IdentityNext
<1>3. IdentityInv => IdentityHeld
  BY DEF IdentityInv
<1> QED
  BY <1>1, <1>2, <1>3, PTL DEF Spec

-----------------------------------------------------------------------------
\* Versions as decimal texts.

\* The principle of the least number, and with it induction over a set and
\* recursion.
LEMMA LeastNatural ==
    ASSUME NEW S \in SUBSET Nat, S # {}
    PROVE  \E m \in S : \A n \in S : m <= n
<1> DEFINE R == OpToRel(<, Nat)
<1>1. IsWellFoundedOn(R, Nat)
  BY NatLessThanWellFounded
<1>2. \A m, n \in Nat : m < n => <<m, n>> \in R
  BY DEF OpToRel
<1> HIDE DEF R
<1>3. PICK m \in S : \A n \in S : <<n, m>> \notin R
  BY <1>1, WFMin
<1>4. ASSUME NEW n \in S PROVE m <= n
  <2>1. m \in Nat /\ n \in Nat /\ ~(n < m)
    BY <1>2, <1>3
  <2> QED BY <2>1
<1> QED BY <1>4

LEMMA Induction ==
    ASSUME NEW S \in SUBSET Nat, 0 \in S, \A n \in S : n + 1 \in S
    PROVE  S = Nat
<1> SUFFICES ASSUME Nat \ S # {} PROVE FALSE
  OBVIOUS
<1>1. PICK m \in Nat \ S : \A n \in Nat \ S : m <= n
  BY LeastNatural
<1>2. m # 0 /\ m - 1 \in Nat /\ m - 1 \in S
  BY <1>1
<1> QED BY <1>1, <1>2

\* A recursion over the natural numbers has a solution.
LEMMA Recursion ==
    ASSUME NEW a \in Nat, NEW step \in [Nat -> Nat]
    PROVE  \E f \in [Nat -> Nat] : f[0] = a /\ \A k \in Nat : f[k + 1] = step[f[k]]
<1> DEFINE Steps(f, m) == f[0] = a /\ \A k \in Nat : k < m => f[k + 1] = step[f[k]]
           S == {m \in Nat : \E f \in [Nat -> Nat] : Steps(f, m)}
<1>1. \A m \in S : \E f \in [Nat -> Nat] : Steps(f, m)
  OBVIOUS
<1>2. \A m \in Nat, f \in [Nat -> Nat] : Steps(f, m) => m \in S
  OBVIOUS
<1>3. S \in SUBSET Nat
  OBVIOUS
<1> HIDE DEF S
<1>4. 0 \in S
  <2>1. [k \in Nat |-> a] \in [Nat -> Nat] /\ Steps([k \in Nat |-> a], 0)
    OBVIOUS
  <2> QED BY <2>1, <1>2
<1>5. ASSUME NEW m \in S PROVE m + 1 \in S
  <2>1. PICK f \in [Nat -> Nat] : Steps(f, m)
    BY <1>1
  <2> DEFINE g == [f EXCEPT ![m + 1] = step[f[m]]]
  <2>2. m \in Nat /\ m + 1 \in Nat /\ g \in [Nat -> Nat]
    BY <1>3
  <2>3. Steps(g, m + 1)
    BY <2>1, <2>2
  <2> HIDE DEF g, Steps
  <2> QED BY <2>2, <2>3, <1>2
<1>6. S = Nat
  BY <1>3, <1>4, <1>5, Induction
<1> DEFINE pick == [m \in Nat |-> CHOOSE f \in [Nat -> Nat] : Steps(f, m)]
<1>7. \A m \in Nat : pick[m] \in [Nat -> Nat] /\ Steps(pick[m], m)
  BY <1>1, <1>6
<1> HIDE DEF pick
<1>8. ASSUME NEW m \in Nat PROVE pick[m + 1][m] = pick[m][m]
  <2> DEFINE f == pick[m + 1]
             g == pick[m]
             E == {k \in Nat : k <= m => f[k] = g[k]}
  <2>1. f[0] = g[0] /\ \A k \in Nat : k < m => f[k + 1] = step[f[k]] /\ g[k + 1] = step[g[k]]
    <3>1. m + 1 \in Nat /\ \A k \in Nat : k < m => k < m + 1
      OBVIOUS
    <3> QED BY <3>1, <1>7
  <2> HIDE DEF f, g
  <2>2. 0 \in E
    BY <2>1
  <2>3. ASSUME NEW k \in E PROVE k + 1 \in E
    BY <2>1
  <2>4. E = Nat
    <3>1. E \in SUBSET Nat
      OBVIOUS
    <3> HIDE DEF E
    <3> QED BY <2>2, <2>3, <3>1, Induction
  <2>5. m \in E
    BY <2>4
  <2> QED BY <2>5 DEF f, g
<1> DEFINE h == [m \in Nat |-> pick[m][m]]
<1>9. h \in [Nat -> Nat] /\ h[0] = a
  BY <1>7
<1>10. ASSUME NEW k \in Nat PROVE h[k + 1] = step[h[k]]
  <2>1. h[k + 1] = pick[k + 1][k + 1] /\ h[k] = pick[k][k]
    OBVIOUS
  <2>2. pick[k + 1][k + 1] = step[pick[k + 1][k]]
    <3>1. k + 1 \in Nat /\ k < k + 1
      OBVIOUS
    <3> QED BY <3>1, <1>7
  <2> QED BY <2>1, <2>2, <1>8
<1> HIDE DEF h
<1> QED BY <1>9, <1>10

LEMMA ShiftedIs ==
    ASSUME NEW n \in Nat
    PROVE  /\ Shifted(n) \in [Nat -> Nat]
           /\ Shifted(n)[0] = n
           /\ \A k \in Nat : Shifted(n)[k + 1] = Shifted(n)[k] \div 10
<1> DEFINE step == [x \in Nat |-> x \div 10]
           Is(f)  == f = [k \in Nat |-> IF k = 0 THEN n ELSE f[k - 1] \div 10]
<1>1. step \in [Nat -> Nat]
  OBVIOUS
<1> HIDE DEF step
<1>2. PICK f \in [Nat -> Nat] : f[0] = n /\ \A k \in Nat : f[k + 1] = step[f[k]]
  BY <1>1, Recursion
<1>3. Is(f)
  <2>1. ASSUME NEW k \in Nat PROVE f[k] = IF k = 0 THEN n ELSE f[k - 1] \div 10
    <3>1. CASE k = 0
      BY <3>1, <1>2
    <3>2. CASE k # 0
      <4>1. k - 1 \in Nat /\ f[k - 1] \in Nat /\ (k - 1) + 1 = k
        BY <3>2
      <4>2. f[k] = step[f[k - 1]]
        BY <4>1, <1>2
      <4> QED BY <3>2, <4>1, <4>2 DEF step
    <3> QED BY <3>1, <3>2
  <2> QED BY <2>1
<1>4. Is(Shifted(n))
  <2>1. Shifted(n) = CHOOSE g : Is(g)
    BY DEF Shifted
  <2> HIDE DEF Is
  <2> QED BY <1>3, <2>1
<1> DEFINE s == Shifted(n)
<1>5. Is(s)
  BY <1>4
<1> HIDE DEF s
<1>6. /\ s[0] = n /\ DOMAIN s = Nat
      /\ \A k \in Nat : s[k + 1] = s[k] \div 10
  BY <1>5
<1> DEFINE S == {k \in Nat : s[k] \in Nat}
<1>7. 0 \in S /\ \A k \in S : k + 1 \in S
  BY <1>6
<1>8. S = Nat
  <2>1. S \in SUBSET Nat
    OBVIOUS
  <2> HIDE DEF S
  <2> QED BY <1>7, <2>1, Induction
<1>9. s \in [Nat -> Nat]
  <2>1. \A k \in Nat : s[k] \in Nat
    BY <1>8
  <2>2. s = [k \in Nat |-> s[k]]
    BY <1>5
  <2> HIDE DEF S, Is
  <2> QED BY <2>1, <2>2
<1> QED BY <1>6, <1>9 DEF s

\* Shifting keeps the order, and ends at zero.
LEMMA ShiftedOrder ==
    ASSUME NEW a \in Nat, NEW b \in Nat, NEW k \in Nat, a <= b
    PROVE  Shifted(a)[k] <= Shifted(b)[k]
<1> DEFINE f == Shifted(a)
           g == Shifted(b)
           S == {m \in Nat : f[m] <= g[m]}
<1>1. /\ f \in [Nat -> Nat] /\ f[0] = a /\ \A m \in Nat : f[m + 1] = f[m] \div 10
      /\ g \in [Nat -> Nat] /\ g[0] = b /\ \A m \in Nat : g[m + 1] = g[m] \div 10
  BY ShiftedIs
<1> HIDE DEF f, g
<1>2. 0 \in S
  BY <1>1
<1>3. ASSUME NEW m \in S PROVE m + 1 \in S
  <2>1. f[m] \in Nat /\ g[m] \in Nat /\ f[m] <= g[m]
    BY <1>1
  <2>2. f[m] \div 10 <= g[m] \div 10
    BY <2>1
  <2> QED BY <1>1, <2>2
<1>4. S = Nat
  <2>1. S \in SUBSET Nat
    OBVIOUS
  <2> HIDE DEF S
  <2> QED BY <1>2, <1>3, <2>1, Induction
<1>5. k \in S
  BY <1>4
<1> QED BY <1>5 DEF f, g

LEMMA ShiftedZero ==
    ASSUME NEW n \in Nat, NEW k \in Nat, NEW m \in Nat, k <= m, Shifted(n)[k] = 0
    PROVE  Shifted(n)[m] = 0
<1> DEFINE f == Shifted(n)
           S == {i \in Nat : i >= k => f[i] = 0}
<1>1. f \in [Nat -> Nat] /\ \A i \in Nat : f[i + 1] = f[i] \div 10
  BY ShiftedIs
<1>2. f[k] = 0
  OBVIOUS
<1> HIDE DEF f
<1>3. 0 \in S
  BY <1>2
<1>4. ASSUME NEW i \in S PROVE i + 1 \in S
  <2>1. CASE i + 1 = k
    BY <2>1, <1>2
  <2>2. CASE i + 1 < k
    BY <2>2
  <2>3. CASE i >= k
    BY <2>3, <1>1
  <2> QED BY <2>1, <2>2, <2>3
<1>5. S = Nat
  <2>1. S \in SUBSET Nat
    OBVIOUS
  <2> HIDE DEF S
  <2> QED BY <1>3, <1>4, <2>1, Induction
<1>6. m \in S
  BY <1>5
<1> QED BY <1>6 DEF f

LEMMA ShiftedEnds ==
    ASSUME NEW n \in Nat
    PROVE  Shifted(n)[n] = 0
<1> DEFINE f == Shifted(n)
           S == {k \in Nat : f[k] = 0 \/ f[k] + k <= n}
<1>1. f \in [Nat -> Nat] /\ f[0] = n /\ \A i \in Nat : f[i + 1] = f[i] \div 10
  BY ShiftedIs
<1> HIDE DEF f
<1>2. 0 \in S
  BY <1>1
<1>3. ASSUME NEW k \in S PROVE k + 1 \in S
  <2>1. f[k] \in Nat /\ f[k + 1] = f[k] \div 10
    BY <1>1
  <2>2. f[k] = 0 => f[k + 1] = 0
    BY <2>1
  <2>3. f[k] # 0 => f[k + 1] < f[k] /\ f[k + 1] \in Nat
    BY <2>1
  <2> QED BY <2>1, <2>2, <2>3
<1>4. S = Nat
  <2>1. S \in SUBSET Nat
    OBVIOUS
  <2> HIDE DEF S
  <2> QED BY <1>2, <1>3, <2>1, Induction
<1>5. n \in S
  BY <1>4
<1>6. f[n] = 0
  BY <1>1, <1>5
<1> QED BY <1>6 DEF f

\* The length is the number of shifts that leave something, at least one.
LEMMA LengthIs ==
    ASSUME NEW n \in Nat
    PROVE  /\ Length(n) \in Nat \ {0}
           /\ Shifted(n)[Length(n)] = 0
           /\ \A k \in Nat : k < Length(n) => n = 0 \/ Shifted(n)[k] # 0
<1> DEFINE f == Shifted(n)
<1>1. f \in [Nat -> Nat] /\ f[0] = n /\ \A i \in Nat : f[i + 1] = f[i] \div 10
  BY ShiftedIs
<1>2. f[n] = 0 /\ \A k, m \in Nat : k <= m /\ f[k] = 0 => f[m] = 0
  BY ShiftedEnds, ShiftedZero
<1>3. Length(n) = IF n = 0 THEN 1 ELSE CHOOSE k \in 1..n : f[k - 1] # 0 /\ f[k] = 0
  BY DEF Length
<1> HIDE DEF f
<1>4. CASE n = 0
  <2>1. f[0 + 1] = 0 /\ Length(n) = 1
    BY <1>1, <1>3, <1>4
  <2> QED BY <2>1, <1>4 DEF f
<1>5. CASE n # 0
  <2>1. \E k \in 1..n : f[k - 1] # 0 /\ f[k] = 0
    <3>1. PICK k \in {i \in Nat : f[i] = 0} : \A i \in {j \in Nat : f[j] = 0} : k <= i
      <4>1. n \in {i \in Nat : f[i] = 0}
        BY <1>2
      <4> QED BY <4>1, LeastNatural
    <3>2. k # 0 /\ k <= n
      BY <3>1, <1>1, <1>2, <1>5
    <3>3. k - 1 \in Nat /\ f[k - 1] # 0
      BY <3>1, <3>2
    <3> QED BY <3>1, <3>2, <3>3
  <2> DEFINE l == Length(n)
  <2>2. l \in 1..n /\ f[l - 1] # 0 /\ f[l] = 0
    BY <2>1, <1>3, <1>5
  <2> HIDE DEF l
  <2>3. ASSUME NEW k \in Nat, k < l PROVE f[k] # 0
    <3>1. l - 1 \in Nat /\ k <= l - 1
      BY <2>2, <2>3
    <3> QED BY <3>1, <2>2, <1>2
  <2> QED BY <2>2, <2>3 DEF l, f
<1> QED BY <1>4, <1>5

\* A number with fewer digits is smaller.
LEMMA ShorterIsLess ==
    ASSUME NEW a \in Nat, NEW b \in Nat, Length(a) < Length(b)
    PROVE  a < b
<1>1. Length(a) \in Nat \ {0} /\ Length(b) \in Nat \ {0} /\ Shifted(a)[Length(a)] = 0
      /\ (b = 0 \/ Shifted(b)[Length(a)] # 0)
  BY LengthIs
<1>2. b # 0
  <2>1. b = 0 => Length(b) = 1
    BY DEF Length
  <2> QED BY <2>1, <1>1
<1> SUFFICES ASSUME b <= a PROVE FALSE
  OBVIOUS
<1>3. Shifted(b)[Length(a)] <= Shifted(a)[Length(a)] /\ Shifted(b)[Length(a)] \in Nat
  BY <1>1, ShiftedOrder, ShiftedIs
<1> QED BY <1>1, <1>2, <1>3

LEMMA DigitsAre ==
    ASSUME NEW n \in Nat
    PROVE  /\ Digits(n) \in [1..Length(n) -> Nat]
           /\ Len(Digits(n)) = Length(n)
           /\ \A i \in 1..Length(n) :
                 Shifted(n)[Length(n) - i] = 10 * Shifted(n)[Length(n) - i + 1] + Digits(n)[i]
<1> DEFINE f == Shifted(n)
           l == Length(n)
           d == Digits(n)
<1>1. f \in [Nat -> Nat] /\ \A k \in Nat : f[k + 1] = f[k] \div 10
  BY ShiftedIs
<1>2. l \in Nat
  BY LengthIs
<1>3. d = [i \in 1..l |-> f[l - i] % 10]
  BY DEF Digits
<1> HIDE DEF f, l, d
<1>4. ASSUME NEW i \in 1..l
      PROVE  d[i] \in Nat /\ f[l - i] = 10 * f[l - i + 1] + d[i]
  <2>0. l - i \in Nat
    BY <1>2
  <2>1. f[l - i] \in Nat /\ d[i] = f[l - i] % 10
    BY <1>1, <1>3, <2>0
  <2>2. f[l - i + 1] = f[l - i] \div 10
    BY <1>1, <2>0
  <2>3. \A x \in Nat : x % 10 \in Nat /\ x = 10 * (x \div 10) + (x % 10)
    OBVIOUS
  <2> QED BY <2>1, <2>2, <2>3
<1>5. d \in [1..l -> Nat] /\ Len(d) = l
  BY <1>2, <1>3, <1>4
<1> QED BY <1>4, <1>5 DEF f, l, d

\* Equal digits come from equal prefixes.
LEMMA EqualDigits ==
    ASSUME NEW a \in Nat, NEW b \in Nat, Length(a) = Length(b),
           NEW i \in 1..(Length(a) + 1), \A j \in 1..(i - 1) : Digits(a)[j] = Digits(b)[j]
    PROVE  Shifted(a)[Length(a) - i + 1] = Shifted(b)[Length(a) - i + 1]
<1> DEFINE f == Shifted(a)
           g == Shifted(b)
           l == Length(a)
           d == Digits(a)
           e == Digits(b)
           S == {k \in Nat : k < i => f[l - k] = g[l - k]}
<1>1. l \in Nat /\ f[l] = 0 /\ g[l] = 0
  BY LengthIs
<1>2. \A k \in 1..l : f[l - k] = 10 * f[l - k + 1] + d[k]
  BY DigitsAre
<1>3. \A k \in 1..l : g[l - k] = 10 * g[l - k + 1] + e[k]
  BY DigitsAre
<1>4. i \in 1..(l + 1) /\ \A j \in 1..(i - 1) : d[j] = e[j]
  OBVIOUS
<1> HIDE DEF f, g, l, d, e
<1>5. 0 \in S
  BY <1>1
<1>6. ASSUME NEW k \in S PROVE k + 1 \in S
  <2> SUFFICES ASSUME k + 1 < i PROVE f[l - (k + 1)] = g[l - (k + 1)]
    OBVIOUS
  <2>1. k + 1 \in 1..l /\ k + 1 \in 1..(i - 1) /\ f[l - k] = g[l - k] /\ l - (k + 1) + 1 = l - k
    BY <1>1, <1>4
  <2>2. f[l - (k + 1)] = 10 * f[l - k] + d[k + 1] /\ g[l - (k + 1)] = 10 * g[l - k] + e[k + 1]
    BY <1>2, <1>3, <2>1
  <2> QED BY <2>1, <2>2, <1>4
<1>7. S = Nat
  <2>1. S \in SUBSET Nat
    OBVIOUS
  <2> HIDE DEF S
  <2> QED BY <1>5, <1>6, <2>1, Induction
<1>8. i - 1 \in S /\ i - 1 < i /\ l - (i - 1) = l - i + 1
  BY <1>1, <1>4, <1>7
<1>9. f[l - i + 1] = g[l - i + 1]
  BY <1>8
<1> QED BY <1>9 DEF f, g, l

LEMMA BeforeIsLess ==
    ASSUME NEW a \in Nat, NEW b \in Nat, Length(a) = Length(b), Before(Digits(a), Digits(b))
    PROVE  a < b
<1>1. PICK i \in 1..Length(a) :
          Digits(a)[i] < Digits(b)[i] /\ \A j \in 1..(i - 1) : Digits(a)[j] = Digits(b)[j]
  BY DigitsAre DEF Before
<1> DEFINE l == Length(a)
<1>2. l \in Nat
  BY LengthIs
<1>3. Shifted(a)[l - i + 1] = Shifted(b)[l - i + 1]
  <2>1. i \in 1..(l + 1)
    BY <1>2
  <2> QED BY <1>1, <2>1, EqualDigits
<1>4. /\ Shifted(a)[l - i] = 10 * Shifted(a)[l - i + 1] + Digits(a)[i]
      /\ Shifted(b)[l - i] = 10 * Shifted(b)[l - i + 1] + Digits(b)[i]
      /\ Digits(a)[i] \in Nat /\ Digits(b)[i] \in Nat
  BY DigitsAre
<1>5. l - i \in Nat /\ Shifted(a)[l - i + 1] \in Nat
  <2>1. l - i \in Nat /\ l - i + 1 \in Nat
    BY <1>2
  <2> QED BY <2>1, ShiftedIs
<1>6. Shifted(a)[l - i] < Shifted(b)[l - i]
  BY <1>1, <1>3, <1>4, <1>5
<1> SUFFICES ASSUME b <= a PROVE FALSE
  OBVIOUS
<1>7. /\ Shifted(b)[l - i] <= Shifted(a)[l - i]
      /\ Shifted(a)[l - i] \in Nat /\ Shifted(b)[l - i] \in Nat
  BY <1>5, ShiftedOrder, ShiftedIs
<1> QED BY <1>6, <1>7

LEMMA LessIsBefore ==
    ASSUME NEW a \in Nat, NEW b \in Nat, Length(a) = Length(b), a < b
    PROVE  Before(Digits(a), Digits(b))
<1> DEFINE l == Length(a)
           D == {i \in Nat : i \in 1..l /\ Digits(a)[i] # Digits(b)[i]}
<1>1. l \in Nat \ {0}
  BY LengthIs
<1>2. /\ Digits(a) \in [1..l -> Nat] /\ Digits(b) \in [1..l -> Nat]
  BY DigitsAre
<1>3. D # {}
  <2> SUFFICES ASSUME D = {} PROVE FALSE
    OBVIOUS
  <2>1. \A j \in 1..((l + 1) - 1) : Digits(a)[j] = Digits(b)[j]
    BY <1>1
  <2>2. l + 1 \in 1..(l + 1)
    BY <1>1
  <2>3. Shifted(a)[l - (l + 1) + 1] = Shifted(b)[l - (l + 1) + 1]
    BY <2>1, <2>2, EqualDigits
  <2>4. l - (l + 1) + 1 = 0
    BY <1>1
  <2>5. a = b
    BY <2>3, <2>4, ShiftedIs
  <2> QED BY <2>5
<1>4. PICK i \in D : \A j \in D : i <= j
  <2>1. D \in SUBSET Nat
    OBVIOUS
  <2> HIDE DEF D
  <2> QED BY <1>3, <2>1, LeastNatural
<1>5. i \in 1..l /\ Digits(a)[i] # Digits(b)[i] /\ \A j \in 1..(i - 1) : Digits(a)[j] = Digits(b)[j]
  BY <1>1, <1>4
<1>6. CASE Digits(a)[i] < Digits(b)[i]
  BY <1>2, <1>5, <1>6 DEF Before
<1>7. CASE Digits(b)[i] < Digits(a)[i]
  <2>1. Before(Digits(b), Digits(a))
    BY <1>2, <1>5, <1>7 DEF Before
  <2>2. b < a
    BY <2>1, BeforeIsLess
  <2> QED BY <2>2
<1> QED BY <1>2, <1>5, <1>6, <1>7

LEMMA SmallerIsLess ==
    ASSUME NEW x \in Nat, NEW y \in Nat
    PROVE  Smaller(Digits(x), Digits(y)) <=> x < y
<1>1. /\ Len(Digits(x)) = Length(x) /\ Len(Digits(y)) = Length(y)
      /\ Length(x) \in Nat /\ Length(y) \in Nat
  BY DigitsAre, LengthIs
<1>2. Length(x) < Length(y) => x < y
  BY ShorterIsLess
<1>3. Length(y) < Length(x) => y < x
  BY ShorterIsLess
<1>4. Length(x) = Length(y) => (Before(Digits(x), Digits(y)) <=> x < y)
  BY BeforeIsLess, LessIsBefore
<1> QED BY <1>1, <1>2, <1>3, <1>4 DEF Smaller

\* integer_is_newer compares two versions of any size and sign as integers.
THEOREM IntegerIsNewerOrders ==
    ASSUME NEW v \in Int, NEW w \in Int
    PROVE  IntegerIsNewer(Text(v), Text(w)) <=> v > w
<1> DEFINE a == IF v < 0 THEN -v ELSE v
           b == IF w < 0 THEN -w ELSE w
<1>1. a \in Nat /\ b \in Nat
  OBVIOUS
<1>2. IntegerIsNewer(Text(v), Text(w)) <=>
          IF (v < 0) # (w < 0) THEN ~(v < 0)
          ELSE IF v < 0 THEN Smaller(Digits(a), Digits(b))
          ELSE Smaller(Digits(b), Digits(a))
  BY DEF IntegerIsNewer, Text
<1>3. /\ Smaller(Digits(a), Digits(b)) <=> a < b
      /\ Smaller(Digits(b), Digits(a)) <=> b < a
  BY <1>1, SmallerIsLess
<1> QED BY <1>2, <1>3

\* assert_counter refuses exactly the counters beyond the limit, of either sign:
\* what it lets through can be incremented or decremented once.
THEOREM CounterOverflowsBeyond ==
    ASSUME NEW n \in Int, NEW limit \in Nat
    PROVE  CounterOverflows(Text(n), limit) <=> n > limit \/ n < -limit
<1> DEFINE a == IF n < 0 THEN -n ELSE n
<1>1. a \in Nat
  OBVIOUS
<1>2. CounterOverflows(Text(n), limit) <=> Smaller(Digits(limit), Digits(a))
  BY DEF CounterOverflows, Text
<1>3. Smaller(Digits(limit), Digits(a)) <=> limit < a
  BY <1>1, SmallerIsLess
<1> QED BY <1>2, <1>3

-----------------------------------------------------------------------------
\* Supersede keys.

\* latest is at least every version submitted so far.
LatestNewest ==
    \A t \in Task : (Exists(t) /\ rec[t].spec.sup # None) =>
        latest[rec[t].spec.sup] # None /\ latest[rec[t].spec.sup] >= rec[t].spec.version

LEMMA NewLatestNewest ==
    ASSUME TaskTypes, NEW s \in TaskSpec, latest' = NewLatest(s)
    PROVE  /\ \A k \in Sup : latest[k] # None => latest'[k] # None /\ latest'[k] >= latest[k]
           /\ s.sup # None => latest'[s.sup] # None /\ latest'[s.sup] >= s.version
<1>1. /\ s.version \in Version /\ s.sup \in Sup \cup {None}
      /\ Version \subseteq Int /\ None \notin Version
      /\ \A k \in Sup : latest[k] \in Version \cup {None}
      /\ latest \in [Sup -> Version \cup {None}]
  BY DomainAssumption DEF TaskSpec, TaskTypes
<1>2. /\ \A k \in Sup : latest[k] # None => latest[k] \in Int /\ latest[k] >= latest[k]
      /\ s.version \in Int /\ s.version # None /\ s.version >= s.version
  <2>1. \A n \in Int : n >= n
    OBVIOUS
  <2>2. \A k \in Sup : latest[k] # None => latest[k] \in Int
    BY <1>1
  <2>3. s.version \in Int /\ s.version # None
    BY <1>1
  <2> QED
    BY <2>1, <2>2, <2>3
<1>3. CASE s.sup = None
  <2>1. latest' = latest
    BY <1>3 DEF NewLatest
  <2> QED
    BY <1>3, <1>2, <2>1
<1>4. CASE s.sup # None /\ latest[s.sup] = None
  <2>1. latest' = [latest EXCEPT ![s.sup] = s.version]
    BY <1>4 DEF NewLatest
  <2> QED
    BY <1>1, <1>2, <1>4, <2>1
<1>5. CASE s.sup # None /\ latest[s.sup] # None
  <2>1. IntegerIsNewer(Text(s.version), Text(latest[s.sup])) <=> s.version > latest[s.sup]
    <3>1. s.version \in Int /\ latest[s.sup] \in Int
      BY <1>1, <1>5
    <3> QED BY <3>1, IntegerIsNewerOrders
  <2>2. CASE s.version > latest[s.sup]
    <3>1. latest' = [latest EXCEPT ![s.sup] = s.version]
      BY <1>5, <2>1, <2>2 DEF NewLatest
    <3> QED
      BY <1>1, <1>2, <1>5, <2>2, <3>1
  <2>3. CASE ~(s.version > latest[s.sup])
    <3>1. latest' = latest
      BY <1>5, <2>1, <2>3 DEF NewLatest
    <3>2. latest[s.sup] >= s.version
      BY <1>1, <1>2, <1>5, <2>3
    <3> QED
      BY <1>2, <1>5, <3>1, <3>2
  <2> QED
    BY <2>2, <2>3
<1> QED
  BY <1>3, <1>4, <1>5

\* latest is written with the record of a new task, and by nothing else.
Submits(t, s) ==
    /\ rec'[t].spec = s /\ latest' = NewLatest(s)
    /\ \A u \in Task \ {t} : rec'[u].spec = rec[u].spec /\ rec'[u].outcome = rec[u].outcome

LEMMA LatestStep ==
    ASSUME TaskInv, OwnerKnown, TaskStep
    PROVE  \/ latest' = latest /\ KeepsOwners
           \/ \E t \in Task, s \in TaskSpec : ~Exists(t) /\ Submits(t, s)
<1>1. CASE \E t \in Task, s \in Submitted, allowNew \in BOOLEAN : EnqueueV2(t, s, allowNew)
  <2>1. PICK t \in Task, s \in Submitted, allowNew \in BOOLEAN : EnqueueV2(t, s, allowNew)
    BY <1>1
  <2>2. /\ ~Exists(t) /\ s \in TaskSpec /\ \A u \in Task \ {t} : rec'[u] = rec[u]
        /\ rec'[t] = NewRecord(s, CurrentOwner(s))
    BY <2>1, EnqueueWrites
  <2>3. rec'[t].spec = s
    BY <2>2 DEF NewRecord
  <2>4. latest' = NewLatest(s)
    BY <2>1 DEF EnqueueV2
  <2> QED
    BY <2>2, <2>3, <2>4 DEF Submits
<1>2. CASE \E t, u \in Task, d \in Time \cup {None} : Replay(t, u, d)
  <2>1. PICK t \in Task, u \in Task, d \in Time \cup {None} : Replay(t, u, d)
    BY <1>2
  <2> DEFINE s == ReplaySpec(t, d)
  <2>2. /\ t # u /\ ~Exists(u) /\ s \in TaskSpec
        /\ \A v \in Task \ {t, u} : rec'[v] = rec[v]
        /\ rec'[t].spec = rec[t].spec /\ rec'[t].outcome = rec[t].outcome
        /\ rec'[u] = NewRecord(s, None)
        /\ latest' = NewLatest(s)
    BY <2>1, ReplayWrites
  <2> HIDE DEF s
  <2>3. rec'[u].spec = s
    BY <2>2 DEF NewRecord
  <2> QED
    BY <2>2, <2>3 DEF Submits
<1>3. CASE ~NewTask
  <2>1. latest' = latest
    <3>1. CASE \E w \in Worker : \E m \in hand[w] : BeginStep(w, m) \/ SettleStep(w, m)
      <4>1. PICK w \in Worker : \E m \in hand[w] : BeginStep(w, m) \/ SettleStep(w, m)
        BY <3>1
      <4>2. PICK m \in hand[w] : BeginStep(w, m) \/ SettleStep(w, m)
        BY <4>1
      <4>3. CASE BeginStep(w, m)
        BY <4>3 DEF BeginStep, BeginEnds, BeginFailsBudget, BeginDefers, BeginStarts
      <4>4. CASE SettleStep(w, m)
        BY <4>4 DEF SettleStep, FailTask, RetrySkips, RetrySchedules, CompleteTask,
           ReturnUnstartedClaim
      <4> QED
        BY <4>2, <4>3, <4>4
    <3>2. CASE ~\E w \in Worker : \E m \in hand[w] : BeginStep(w, m) \/ SettleStep(w, m)
      BY <1>3, <3>2 DEF TaskStep, NewTask, Takes, RecoverAbandonedClaim, MoveToReady, MoveDueDelay,
         MoveDelayMessage, CancelOrPurge, RequeueUpdate, OwnerExpires, LeaseExpires
    <3> QED
      BY <3>1, <3>2
  <2> QED
    BY <1>3, <2>1, OldStep
<1> QED
  BY <1>1, <1>2, <1>3 DEF NewTask

LEMMA LatestNewestKept ==
    ASSUME IndexInv, IdentityInv, LatestNewest, [Next]_vars
    PROVE  LatestNewest'
<1>1. TaskInv /\ TaskTypes /\ LocalTypes /\ NoOddUpdate /\ OwnerKnown /\ SpecKnown
  BY DEF IndexInv, Inv, TaskInv, LocalInv, IdentityInv
<1>2. CASE UNCHANGED taskVars
  BY <1>2 DEF taskVars, LatestNewest, Exists
<1>3. CASE latest' = latest /\ KeepsOwners
  BY <1>3 DEF KeepsOwners, LatestNewest, Exists
<1>4. ASSUME NEW t \in Task, NEW s \in TaskSpec, ~Exists(t), Submits(t, s)
      PROVE  LatestNewest'
  <2>1. /\ \A k \in Sup : latest[k] # None => latest'[k] # None /\ latest'[k] >= latest[k]
        /\ s.sup # None => latest'[s.sup] # None /\ latest'[s.sup] >= s.version
    BY <1>1, <1>4, NewLatestNewest DEF Submits
  <2> SUFFICES ASSUME NEW u \in Task, rec'[u].outcome # "absent", rec'[u].spec.sup # None
               PROVE  /\ latest'[rec'[u].spec.sup] # None
                      /\ latest'[rec'[u].spec.sup] >= rec'[u].spec.version
    BY DEF LatestNewest, Exists
  <2>2. CASE u = t
    BY <1>4, <2>1, <2>2 DEF Submits
  <2>3. CASE u # t
    <3>1. Exists(u) /\ rec'[u].spec = rec[u].spec
      BY <1>4, <2>3 DEF Submits, Exists
    <3> DEFINE k == rec[u].spec.sup
               v == rec[u].spec.version
    <3>2. k \in Sup /\ v \in Version
      BY <1>1, <3>1 DEF SpecKnown, TaskSpec
    <3>3. latest[k] # None /\ latest[k] >= v
      BY <3>1 DEF LatestNewest
    <3>4. latest'[k] # None /\ latest'[k] >= latest[k]
      BY <2>1, <3>2, <3>3
    <3>5. latest[k] \in Int /\ latest'[k] \in Int /\ v \in Int
      <4>1. latest'[k] \in Version \cup {None}
        BY <1>1, <1>4, <3>2, NewLatestType DEF Submits
      <4> QED
        BY <1>1, <3>2, <3>3, <3>4, <4>1, DomainAssumption DEF TaskTypes
    <3> HIDE DEF k, v
    <3>6. latest'[k] >= v
      BY <3>3, <3>4, <3>5
    <3> QED
      BY <3>1, <3>4, <3>6 DEF k, v
  <2> QED
    BY <2>2, <2>3
<1> QED
  BY <1>1, <1>2, <1>3, <1>4, EveryStep, LatestStep

LEMMA LatestInit == Init => LatestNewest
BY DEF Init, LatestNewest, Exists, NoRecord

NoStaleStep ==
    \A t \in Task : rec'[t].attempt > rec[t].attempt =>
        ~\E u \in Task : /\ Exists(u) /\ rec[u].spec.sup # None
                         /\ rec[u].spec.sup = rec[t].spec.sup
                         /\ rec[u].spec.version > rec[t].spec.version

LEMMA NewestStarts ==
    ASSUME IndexInv, IdentityInv, LatestNewest, [Next]_vars
    PROVE  NoStaleStep
<1>1. TaskInv /\ TaskTypes /\ LocalTypes /\ NoOddUpdate /\ SpecKnown
  BY DEF IndexInv, Inv, TaskInv, LocalInv
<1> SUFFICES ASSUME NEW t \in Task, rec'[t].attempt > rec[t].attempt,
                    NEW u \in Task, Exists(u), rec[u].spec.sup # None,
                    rec[u].spec.sup = rec[t].spec.sup,
                    rec[u].spec.version > rec[t].spec.version
             PROVE  FALSE
  BY DEF NoStaleStep
<1>2. rec[t].attempt \in Nat
  BY <1>1, BoundsAssumption DEF TaskTypes, Record
<1>3. TaskStep
  BY <1>1, <1>2, EveryStep DEF taskVars
<1>4. Counts(t)
  BY <1>1, <1>2, <1>3, AttemptStep DEF Returns, Refunds
<1>5. PICK w \in Worker : \E m \in hand[w], tok \in Token : m.task = t /\ BeginStarts(w, m, tok)
  BY <1>4 DEF Counts
<1>6. PICK m \in hand[w], tok \in Token : m.task = t /\ BeginStarts(w, m, tok)
  BY <1>5
<1>7. BeginCode(w, m) = "started" /\ Owned(w, m)
  BY <1>6, BeginOwned DEF BeginStarts
<1>8. latest[rec[t].spec.sup] \in {None, rec[t].spec.version}
  BY <1>6, <1>7 DEF BeginCode, Superseded, SpecOf
<1>9. latest[rec[u].spec.sup] # None /\ latest[rec[u].spec.sup] >= rec[u].spec.version
  BY DEF LatestNewest
<1>10. Exists(t)
  BY <1>6, <1>7 DEF Owned, Live, Exists
<1>11. rec[t].spec.version \in Int /\ rec[u].spec.version \in Int
  BY <1>1, <1>10, DomainAssumption DEF SpecKnown, TaskSpec
<1> QED
  BY <1>8, <1>9, <1>11

\* Whatever version is stored, the script tells whether another is newer as the
\* integers tell it: no sign and no number of digits confuses it, beyond 2^53
\* neither.
THEOREM NewerIsGreaterHolds == Spec => []NewerIsGreater
<1>1. TypeOK => NewerIsGreater
  <2> SUFFICES ASSUME TypeOK, NEW s \in Sup, latest[s] # None, NEW v \in -20..20
               PROVE  IntegerIsNewer(Text(v), Text(latest[s])) <=> v > latest[s]
    BY DEF NewerIsGreater
  <2>1. latest \in [Sup -> Version \cup {None}]
    BY DEF TypeOK
  <2>2. latest[s] \in Version
    BY <2>1
  <2> HIDE DEF TypeOK
  <2>3. latest[s] \in Int
    BY <2>2, DomainAssumption
  <2>4. v \in Int
    OBVIOUS
  <2> QED
    BY <2>3, <2>4, IntegerIsNewerOrders
<1> QED
  BY <1>1, TypeCorrect, PTL

\* An attempt starts only for the newest version of its supersede key: whatever
\* producers submit while the message waits, is retried, deferred or recovered,
\* the begin that counts an attempt sees it.
THEOREM NoStaleStartHolds == Spec => NoStaleStart
<1>1. Init => IndexInv /\ IdentityInv /\ LatestNewest
  BY IndexInit, IdentityInit, LatestInit
<1>2. IndexInv /\ IdentityInv /\ LatestNewest /\ [Next]_vars
        => IndexInv' /\ IdentityInv' /\ LatestNewest'
  BY IndexNext, IdentityNext, LatestNewestKept
<1>3. IndexInv /\ IdentityInv /\ LatestNewest /\ [Next]_vars => [NoStaleStep]_vars
  BY NewestStarts
<1>4. [][NoStaleStep]_vars => NoStaleStart
  BY DEF NoStaleStart, NoStaleStep
<1> QED
  BY <1>1, <1>2, <1>3, <1>4, PTL DEF Spec

-----------------------------------------------------------------------------
\* Keys of several queues.  Names and keys are sequences of segments from any
\* set that holds the state segments.

LEMMA AppendIs ==
    ASSUME NEW S, NEW p \in Seq(S), NEW s \in S
    PROVE  /\ Append(p, s) \in Seq(S) /\ Len(Append(p, s)) = Len(p) + 1
           /\ \A i \in 1..Len(p) : Append(p, s)[i] = p[i]
           /\ Append(p, s)[Len(p) + 1] = s
OBVIOUS

LEMMA PrefixIs ==
    ASSUME NEW S, NEW p \in Seq(S), NEW k \in Seq(S)
    PROVE  IsPrefix(p, k) <=> Len(p) <= Len(k) /\ \A i \in 1..Len(p) : p[i] = k[i]
BY DEF IsPrefix

LEMMA SameIs ==
    ASSUME NEW S, NEW p \in Seq(S), NEW q \in Seq(S), Len(p) = Len(q),
           \A i \in 1..Len(p) : p[i] = q[i]
    PROVE  p = q
OBVIOUS

\* What begins with a name and a segment.
LEMMA BeginsIs ==
    ASSUME NEW S, NEW p \in Seq(S), NEW k \in Seq(S), NEW s \in S
    PROVE  IsPrefix(Append(p, s), k) <=>
               Len(p) < Len(k) /\ k[Len(p) + 1] = s /\ \A i \in 1..Len(p) : p[i] = k[i]
<1> DEFINE a == Append(p, s)
<1>1. /\ a \in Seq(S) /\ Len(a) = Len(p) + 1
      /\ \A i \in 1..Len(p) : a[i] = p[i]
      /\ a[Len(p) + 1] = s
  BY AppendIs
<1> HIDE DEF a
<1>2. IsPrefix(a, k) <=> Len(a) <= Len(k) /\ \A i \in 1..Len(a) : a[i] = k[i]
  BY <1>1, PrefixIs
<1>3. Len(p) \in Nat /\ Len(k) \in Nat
  OBVIOUS
<1>4. 1..Len(a) = 1..Len(p) \cup {Len(p) + 1}
  BY <1>1, <1>3
<1>5. IsPrefix(a, k) <=> Len(p) < Len(k) /\ k[Len(p) + 1] = s /\ \A i \in 1..Len(p) : p[i] = k[i]
  BY <1>1, <1>2, <1>3, <1>4
<1> QED BY <1>5 DEF a

LEMMA OverlapsIs ==
    ASSUME NEW S, StateSegment \subseteq S, NEW p \in Seq(S), NEW q \in Seq(S)
    PROVE  state_path_overlaps(p, q) <=>
               Len(p) < Len(q) /\ q[Len(p) + 1] \in StateSegment /\ \A i \in 1..Len(p) : p[i] = q[i]
<1>1. \A s \in StateSegment : IsPrefix(Append(p, s), q) <=>
          Len(p) < Len(q) /\ q[Len(p) + 1] = s /\ \A i \in 1..Len(p) : p[i] = q[i]
  BY BeginsIs
<1> QED BY <1>1 DEF state_path_overlaps

\* A key of a queue is its name, or begins with it and a state segment.
LEMMA KeyBegins ==
    ASSUME NEW S, StateSegment \subseteq S, NEW p \in Seq(S), NEW k \in Seq(S), UsesKey(p, k)
    PROVE  k = p \/ (Len(p) < Len(k) /\ k[Len(p) + 1] \in StateSegment
                     /\ \A i \in 1..Len(p) : p[i] = k[i])
<1>1. ASSUME NEW s \in StateContainer, k = Append(p, s)
      PROVE  Len(p) < Len(k) /\ k[Len(p) + 1] = s /\ \A i \in 1..Len(p) : p[i] = k[i]
  <2>1. s \in S
    BY DEF StateSegment
  <2> QED BY <1>1, <2>1, AppendIs
<1>2. ASSUME NEW s \in StateFamily, Below(k, p, s)
      PROVE  Len(p) < Len(k) /\ k[Len(p) + 1] = s /\ \A i \in 1..Len(p) : p[i] = k[i]
  <2>1. s \in S
    BY DEF StateSegment
  <2> QED BY <1>2, <2>1, BeginsIs DEF Below
<1> QED BY <1>1, <1>2 DEF UsesKey, StateSegment

LEMMA SharedKeyOverlaps ==
    ASSUME NEW S, StateSegment \subseteq S,
           NEW p \in Seq(S), NEW q \in Seq(S), NEW k \in Seq(S),
           p # q, UsesKey(p, k), UsesKey(q, k)
    PROVE  state_path_overlaps(p, q) \/ state_path_overlaps(q, p)
<1>1. ASSUME NEW x \in Seq(S), NEW y \in Seq(S), UsesKey(x, k), UsesKey(y, k), Len(x) < Len(y)
      PROVE  state_path_overlaps(x, y)
  <2>1. k = y \/ (Len(y) < Len(k) /\ \A i \in 1..Len(y) : y[i] = k[i])
    BY <1>1, KeyBegins
  <2>2. Len(y) <= Len(k) /\ \A i \in 1..Len(y) : y[i] = k[i]
    BY <2>1
  <2>3. k # x
    BY <1>1, <2>2
  <2>4. k[Len(x) + 1] \in StateSegment /\ \A i \in 1..Len(x) : x[i] = k[i]
    BY <1>1, <2>3, KeyBegins
  <2>5. Len(x) + 1 \in 1..Len(y) /\ \A i \in 1..Len(x) : i \in 1..Len(y)
    BY <1>1
  <2> QED BY <1>1, <2>2, <2>4, <2>5, OverlapsIs
<1>2. Len(p) # Len(q)
  <2>1. \A i \in 1..Len(p) : p[i] = k[i]
    BY KeyBegins
  <2>2. \A i \in 1..Len(q) : q[i] = k[i]
    BY KeyBegins
  <2> QED BY <2>1, <2>2, SameIs
<1>3. Len(p) \in Nat /\ Len(q) \in Nat
  OBVIOUS
<1> QED BY <1>1, <1>2, <1>3

\* A script that has asserted a queue's name writes no key of another registered
\* queue, whatever is registered, and delete_queue, which looks for keys by
\* pattern, removes none.
THEOREM AcceptedKeysApart ==
    ASSUME NEW S, StateSegment \subseteq S, NEW registered \in SUBSET Seq(S), NEW p \in Seq(S),
           assert_queue_namespace(registered, p),
           NEW q \in registered \ {p}, NEW k \in Seq(S), UsesKey(p, k) \/ DeletesKey(p, k)
    PROVE  ~UsesKey(q, k)
<1>1. UsesKey(p, k)
  BY DEF DeletesKey, UsesKey, Searched, StateFamily
<1>2. ~state_path_overlaps(q, p) /\ ~state_path_overlaps(p, q)
  BY DEF assert_queue_namespace
<1> QED BY <1>1, <1>2, SharedKeyOverlaps

\* What is refused is a queue that would share a key with another, or one below
\* another's retry, dead-letter or delay list.
THEOREM OverlapShares ==
    ASSUME NEW S, StateSegment \subseteq S, NEW p \in Seq(S), NEW q \in Seq(S),
           state_path_overlaps(p, q)
    PROVE  \/ \E k \in Seq(S) : UsesKey(p, k) /\ UsesKey(q, k)
           \/ \E s \in {"retry", "dlq", "delay"} : Below(q, p, s)
<1>1. PICK s \in StateSegment : IsPrefix(Append(p, s), q)
  BY DEF state_path_overlaps
<1>2. s \in S /\ "processing" \in S
  BY DEF StateSegment, StateContainer
<1>3. Len(p) < Len(q) /\ q[Len(p) + 1] = s /\ \A i \in 1..Len(p) : p[i] = q[i]
  BY <1>1, <1>2, BeginsIs
<1>4. UsesKey(q, q)
  BY DEF UsesKey
<1>5. CASE Len(q) > Len(p) + 1
  <2>1. Below(q, p, s)
    BY <1>1, <1>5 DEF Below
  <2>2. CASE s \in StateFamily
    BY <1>4, <2>1, <2>2 DEF UsesKey
  <2>3. CASE s \notin StateFamily
    <3>1. s \in {"retry", "dlq", "delay"}
      BY <2>3 DEF StateSegment, StateContainer, StateFamily
    <3> QED BY <2>1, <3>1
  <2> QED BY <2>2, <2>3
<1>6. CASE Len(q) = Len(p) + 1
  <2>1. q = Append(p, s)
    <3> DEFINE a == Append(p, s)
    <3>1. a \in Seq(S) /\ Len(a) = Len(q) /\ \A i \in 1..Len(q) : a[i] = q[i]
      BY <1>2, <1>3, <1>6, AppendIs
    <3> HIDE DEF a
    <3>2. a = q
      BY <3>1, SameIs
    <3> QED BY <3>2 DEF a
  <2>2. CASE s \in StateContainer
    BY <1>4, <2>1, <2>2 DEF UsesKey
  <2>3. CASE s \in StateFamily
    <3> DEFINE k == Append(q, "processing")
    <3>1. k \in Seq(S) /\ Len(k) = Len(q) + 1 /\ \A i \in 1..Len(q) : k[i] = q[i]
      BY <1>2, AppendIs
    <3>2. UsesKey(q, k)
      BY DEF UsesKey, StateContainer
    <3> HIDE DEF k
    <3>3. Len(p) < Len(k) /\ k[Len(p) + 1] = s /\ \A i \in 1..Len(p) : p[i] = k[i]
      BY <1>3, <3>1
    <3>4. Below(k, p, s)
      BY <1>2, <1>6, <3>1, <3>3, BeginsIs DEF Below
    <3> QED BY <2>3, <3>1, <3>2, <3>4 DEF UsesKey
  <2> QED BY <2>2, <2>3 DEF StateSegment
<1> QED BY <1>3, <1>5, <1>6

\* No queue with a valid name writes an index or a record of the library, but one
\* named "qtask": its processing lists are named like the registries of others.
THEOREM InternalKeysApart ==
    ASSUME NEW S, StateSegment \subseteq S, NEW p \in Seq(S), NEW k \in Seq(S),
           ValidName(p), UsesKey(p, k), IsInternal(k)
    PROVE  p = <<"qtask">> /\ k[2] = "processing"
<1>1. k # p
  BY DEF ValidName, IsInternal
<1>2. Len(p) < Len(k) /\ k[Len(p) + 1] \in StateSegment /\ \A i \in 1..Len(p) : p[i] = k[i]
  BY <1>1, KeyBegins
<1>3. Len(p) > 0 /\ ~(Len(p) > 1 /\ p[1] = "qtask")
  BY Zenon DEF ValidName
<1>4. Len(p) \in Nat /\ Len(p) > 0
  BY <1>3
<1>5. p[1] = "qtask"
  BY <1>2, <1>4 DEF IsInternal
<1>6. ~(Len(p) > 1)
  BY <1>3, <1>5, Zenon
<1>7. Len(p) = 1
  <2>1. \A n \in Nat : n > 0 /\ ~(n > 1) => n = 1
    OBVIOUS
  <2> QED BY <1>4, <1>6, <2>1
<1>8. p = <<"qtask">>
  BY <1>5, <1>7
<1>9. k[2] \in StateSegment /\ k[2] \in Internal
  BY <1>2, <1>7 DEF IsInternal
<1>10. k[2] = "processing"
  BY <1>9 DEF StateSegment, StateContainer, StateFamily, Internal
<1> QED BY <1>8, <1>10

\* delete_queue leaves nothing of a queue behind but the heartbeats of workers,
\* of which it has seen none, and dummies, which nobody writes.
THEOREM DeletionIsComplete ==
    ASSUME NEW p, NEW k, UsesKey(p, k), ~DeletesKey(p, k)
    PROVE  Below(k, p, "worker") \/ Below(k, p, "__qtask_dummy__")
BY DEF UsesKey, DeletesKey, StateFamily, Searched
=============================================================================
