----------------------------- MODULE TaskQueue -----------------------------
(***************************************************************************)
(* One queue shared by producers, workers and an administrator, with       *)
(* crashes, stalls, expiring keys and lost replies.                        *)
(***************************************************************************)
EXTENDS WorkerLoop, AdminOps

Enqueue(t, s, allowNew) ==
    /\ EnqueueV2(t, s, allowNew)
    /\ UNCHANGED <<clockVars, liveVars, localVars, ghostVars, requeueing>>

Tick ==
    /\ now < MaxTime
    /\ now' = now + 1
    /\ UNCHANGED <<taskVars, liveVars, localVars, ghostVars, requeueing>>

\* EXPIREAT of a finalized owner
OwnerExpires(k) ==
    /\ owner[k].outcome # "none" /\ now >= owner[k].until
    /\ owner' = [owner EXCEPT ![k] = NoOwner]
    /\ UNCHANGED <<box, rec, latest, lease, deadlines, retryWait, clockVars,
                   liveVars, localVars, ghostVars, requeueing>>

Holders(c) == {w \in Worker : \E m \in hand[w] : m.lease = lease[c]}

\* PX of a lease nobody renewed in time
LeaseExpires(c) ==
    /\ lease[c] # None
    /\ Holders(c) # {} => "stall" \in Faults
    /\ lease' = [lease EXCEPT ![c] = None]
    /\ late' = late \cup Holders(c)
    /\ UNCHANGED <<box, rec, owner, latest, deadlines, retryWait, clockVars,
                   liveVars, localVars, runs, requeueing>>

\* EX of a heartbeat: the worker is down, or stalled for longer than the TTL
HeartbeatExpires(w) ==
    /\ w \in heartbeat
    /\ pc[w] # "down" => "stall" \in Faults
    /\ heartbeat' = heartbeat \ {w}
    /\ UNCHANGED <<taskVars, clockVars, registry, localVars, ghostVars, requeueing>>

Crash(w) ==
    /\ "crash" \in Faults
    /\ pc[w] # "down"
    /\ Goto(w, "down") /\ Holds(w, {})
    /\ stop' = stop \ {w}
    /\ spent' = [spent EXCEPT ![w] = {}]
    /\ UNCHANGED <<taskVars, clockVars, liveVars, runs, requeueing>>

Environment ==
    \/ Tick
    \/ \E k \in Key : OwnerExpires(k)
    \/ \E c \in Conc : LeaseExpires(c)
    \/ \E w \in Worker : HeartbeatExpires(w) \/ Crash(w)

Producer ==
    \E t \in Task, s \in Submitted, allowNew \in BOOLEAN : Enqueue(t, s, allowNew)

Next ==
    \/ Producer
    \/ \E w \in Worker : WorkerStep(w)
    \/ AdminStep
    \/ Environment

Spec == Init /\ [][Next]_vars

\* What the code's scheduling gives: a supervisor restarts workers, every loop
\* and thread keeps running, handlers end, Redis expires the keys nobody
\* renews, and time passes.
Fairness ==
    /\ WF_vars(Tick)
    /\ \A c \in Conc : WF_vars(Holders(c) = {} /\ LeaseExpires(c))
    /\ \A w \in Worker :
          /\ WF_vars(Start(w)) /\ WF_vars(Ready(w)) /\ WF_vars(Exit(w))
          /\ WF_vars(HeartbeatLoop(w))
          /\ WF_vars(Poll(w)) /\ WF_vars(RecoverAbandoned(w)) /\ WF_vars(MoveRetry(w))
          /\ WF_vars(Pop(w) \/ PopNone(w))
          /\ WF_vars(BeginOther(w) \/ Begin(w))
          /\ WF_vars(Admit(w) \/ ReturnUnstarted(w))
          /\ WF_vars(Finish(w))
          /\ WF_vars(pc[w] = "down" /\ HeartbeatExpires(w))
          /\ \A v \in Worker : WF_vars(RecoverStale(w, v))

\* The steps without disturbance: no lost reply, crash, stop or stalled worker.
Undisturbed ==
    \/ Producer \/ AdminStep \/ Tick
    \/ \E k \in Key : OwnerExpires(k)
    \/ \E c \in Conc : Holders(c) = {} /\ LeaseExpires(c)
    \/ \E w \in Worker : Progress(w) \/ (pc[w] = "down" /\ HeartbeatExpires(w))

\* Any number of disturbances, but not for ever.
FairSpec == Spec /\ Fairness /\ <>[][Undisturbed]_vars

-----------------------------------------------------------------------------
\* Safety

\* A task has at most one message in Redis, whichever list it is in: no script,
\* no recovery and no lost reply ever duplicates one (an old message copied
\* back while the new one is in delay would run the task twice over).
OneMessage ==
    \A p, q \in Place : \A m \in box[p], n \in box[q] :
        m.task = n.task => p = q /\ m = n

\* No task is lost and none comes back: a live task has a message outside the
\* DLQ, and a message belongs to a live task, or sits in the DLQ and belongs to
\* a failed one.
MessageMatchesOutcome ==
    /\ \A t \in Task : Live(t) => \E p \in Place \ {"dlq"} : \E m \in box[p] : m.task = t
    /\ \A p \in Place : \A m \in box[p] :
          rec[m.task].outcome = (IF p = "dlq" THEN "failed" ELSE "live")

\* operational_message is what history cleaning, deletion and replay trust: it
\* is set exactly while the task has a message.
OperationalFlagExact ==
    \A t \in Task : rec[t].op <=> \E p \in Place : \E m \in box[p] : m.task = t

\* A handler never runs more often than max_attempts allows, however often
\* attempts are refunded, recovered, deferred or abandoned.
WithinBudget == \A t \in Task : runs[t] <= MaxAttempts

\* retry_wait.current counts the retry messages waiting in delay, exactly.
RetryWaitExact ==
    retryWait = Cardinality({m \in box["delay"] : m.reason = "retry"})

\* The start-deadline index holds exactly the live tasks with a deadline that
\* are not claimed: an entry too many shows a phantom deadline_missed task, one
\* too few hides a late one.
DeadlineIndexExact ==
    deadlines = {t \in Task : /\ Live(t) /\ rec[t].spec.deadline # None
                              /\ rec[t].location # "processing"}

\* Two handlers of one concurrency key overlap only when a lease expired under
\* one of them or its message was taken away from it.
KeyedConcurrency ==
    \A v, w \in Worker : \A m \in hand[v], n \in hand[w] :
        (/\ v # w
         /\ pc[v] = "running" /\ pc[w] = "running"
         /\ m \in box[v] /\ n \in box[w]
         /\ SpecOf(m).conc # None /\ SpecOf(m).conc = SpecOf(n).conc)
        => v \in late \/ w \in late

\* A live task keeps its logical key unless an ALLOW_NEW enqueue took it over.
IdentityHeld ==
    \A t \in Task :
        (Live(t) /\ rec[t].spec.key # None /\ owner[rec[t].spec.key].task # t)
        => \E u \in Task : rec[u].override = t

\* Whatever version a producer submits next, the script tells whether it is newer
\* than the stored one as the integers tell it, across signs and lengths.
NewerIsGreater ==
    \A s \in Sup : latest[s] # None =>
        \A v \in -20..20 : IntegerIsNewer(Text(v), Text(latest[s])) <=> v > latest[s]

\* An attempt starts only for the newest version of its supersede key that any
\* producer has submitted.
NoStaleStart ==
    [][\A t \in Task : rec'[t].attempt > rec[t].attempt =>
          ~\E u \in Task : /\ Exists(u) /\ rec[u].spec.sup # None
                           /\ rec[u].spec.sup = rec[t].spec.sup
                           /\ rec[u].spec.version > rec[t].spec.version]_vars

\* What a worker left behind when it went down can be found again: its
\* processing list is still reachable through the worker registry.
CrashedClaimsReachable ==
    \A w \in Worker : pc[w] = "down" /\ box[w] # {} => w \in registry

-----------------------------------------------------------------------------
\* What a producer may rely on, without lists, scripts and workers.
Lifecycle == INSTANCE TaskLifecycle
    WITH status <- [t \in Task |-> rec[t].outcome], starts <- runs

\* The queue implements the task lifecycle: accepted once, closed once and for
\* all, completed only after a handler ran, handlers within the budget.
ImplementsLifecycle == Lifecycle!Spec

\* Once disturbances cease, every accepted task reaches a terminal outcome: no
\* message stays in a processing list, behind a dead worker's lease or in delay.
Drains == \A t \in Task : Live(t) ~> rec[t].outcome \in Terminal
=============================================================================
