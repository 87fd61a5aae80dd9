------------------------------ MODULE AdminOps ------------------------------
(***************************************************************************)
(* What QTaskAdmin and SmartQueue offer an operator: purge, replay, requeue, *)
(* forced recovery and the pruning of dead workers.  Admin names the       *)
(* operations that are in use.                                             *)
(***************************************************************************)
EXTENDS TaskScripts

\* One message of clear() or delete_task().  A processing list is protected
\* by its worker's heartbeat unless force_active is given.
Purge(p, release) ==
    /\ "purge" \in Admin
    /\ p \in Worker => p \notin heartbeat \/ "force" \in Admin
    /\ \E m \in box[p] : CancelOrPurge(p, m, release)
    /\ UNCHANGED <<clockVars, liveVars, localVars, ghostVars, requeueing>>

\* Mutant: the DLQ message of the replayed task is left where it is.
ReplayLeavesMessage(t, u, deadline) ==
    LET s == ReplaySpec(t, deadline)
    IN  /\ "replay" \in Admin
        /\ rec[t].spec # None
        /\ s.deadline # None => s.deadline > now
        /\ ReplayTask(t, u, s, {})
        /\ UNCHANGED <<clockVars, liveVars, localVars, ghostVars, requeueing>>

\* replay_task: an operational failed task must come out of the DLQ.
Replay(t, u, deadline) ==
    LET source == {m \in box["dlq"] : m.task = t}
        s == ReplaySpec(t, deadline)
    IN  /\ "replay" \in Admin
        /\ rec[t].spec # None
        /\ s.deadline # None => s.deadline > now
        /\ rec[t].op => source # {}
        /\ ReplayTask(t, u, s, IF rec[t].op THEN source ELSE {})
        /\ UNCHANGED <<clockVars, liveVars, localVars, ghostVars, requeueing>>

\* recover(include_active=True): no heartbeat check.
ForceRecover(v) ==
    /\ "force" \in Admin
    /\ \E m \in box[v] : MoveToReady(v, m)
    /\ UNCHANGED <<clockVars, liveVars, localVars, ghostVars, requeueing>>

\* requeue_task from delay or from a dead worker's list: first the message ...
Requeue ==
    /\ "requeue" \in Admin
    /\ \/ \E m \in box["delay"] :
             /\ MoveDelayMessage(m)
             /\ requeueing' = requeueing \cup {m.task}
       \/ \E v \in Worker \ heartbeat : \E m \in box[v] :
             /\ MoveToReady(v, m)
             /\ requeueing' = requeueing \cup {m.task}
    /\ UNCHANGED <<clockVars, liveVars, localVars, ghostVars>>

\* ... then, in a second call, history.update(operational_message = 1).
RequeueUpdate(t) ==
    /\ t \in requeueing
    /\ requeueing' = requeueing \ {t}
    /\ rec' = [rec EXCEPT ![t] = [@ EXCEPT !.op = TRUE]]
    /\ UNCHANGED <<box, owner, latest, lease, deadlines, retryWait, clockVars,
                   liveVars, localVars, ghostVars>>

\* list_workers: PRUNE_WORKER_LUA
Prune(w) ==
    /\ "prune" \in Admin
    /\ w \in registry
    /\ w \notin heartbeat /\ box[w] = {}
    /\ registry' = registry \ {w}
    /\ UNCHANGED <<taskVars, clockVars, heartbeat, localVars, ghostVars, requeueing>>

AdminStep ==
    \/ \E p \in Place, release \in BOOLEAN : Purge(p, release)
    \/ \E t, u \in Task, d \in Time \cup {None} : Replay(t, u, d)
    \/ \E v \in Worker : ForceRecover(v)
    \/ Requeue
    \/ \E t \in Task : RequeueUpdate(t)
    \/ \E w \in Worker : Prune(w)
=============================================================================
