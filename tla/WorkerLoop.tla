----------------------------- MODULE WorkerLoop -----------------------------
(***************************************************************************)
(* A Worker with max_workers = 1: its start, its poll loop over            *)
(* SmartQueue.pop_claim, the handler and its settlement, its heartbeat and *)
(* maintenance threads, its stop, and the ways a Redis call of its may     *)
(* fail: the reply is lost after the script ran, or the call never         *)
(* arrives.                                                                *)
(***************************************************************************)
EXTENDS TaskScripts

Running(w) == pc[w] \notin {"down", "starting"}

Goto(w, stage) == pc' = [pc EXCEPT ![w] = stage]

Holds(w, ms) ==
    /\ hand' = [hand EXCEPT ![w] = ms]
    /\ late' = late \ {w}

\* An exception leaves _poll_once, or the claim is done: the claim is no
\* longer registered and the loop starts again.
BackToPoll(w) == Goto(w, "poll") /\ Holds(w, {})

-----------------------------------------------------------------------------
\* run(), heartbeat, maintenance, stop

\* run() begins.  A fixed worker_id may be reused while the heartbeat of the
\* process that crashed is still there; a generated one may not.
Start(w) ==
    /\ pc[w] = "down"
    /\ ReuseLiveId \/ w \notin heartbeat
    /\ Goto(w, "starting")
    /\ UNCHANGED <<taskVars, clockVars, liveVars, hand, stop, spent, ghostVars,
                   requeueing>>

\* Mutant: the heartbeat is refreshed before the stale list is recovered.
ReadyBeforeRecovery(w) ==
    /\ pc[w] = "starting"
    /\ heartbeat' = heartbeat \cup {w}
    /\ registry' = registry \cup {w}
    /\ Goto(w, "poll")
    /\ UNCHANGED <<taskVars, clockVars, hand, stop, spent, ghostVars, requeueing>>

\* recover_stale_processing has drained the worker's own list, or skipped it
\* because a heartbeat exists; then _refresh_heartbeat and the threads start.
Ready(w) ==
    /\ pc[w] = "starting"
    /\ w \in heartbeat \/ box[w] = {}
    /\ heartbeat' = heartbeat \cup {w}
    /\ registry' = registry \cup {w}
    /\ Goto(w, "poll")
    /\ UNCHANGED <<taskVars, clockVars, hand, stop, spent, ghostVars, requeueing>>

\* One pass of _heartbeat_loop (renewing a lease that is held changes nothing).
HeartbeatLoop(w) ==
    /\ Running(w)
    /\ heartbeat' = heartbeat \cup {w}
    /\ registry' = registry \cup {w}
    /\ UNCHANGED <<taskVars, clockVars, localVars, ghostVars, requeueing>>

\* Mutant: only the other registered workers are looked at.
RecoverStaleOthersOnly(u, v) ==
    /\ pc[u] # "down"
    /\ v \in registry /\ v # u
    /\ v \notin heartbeat
    /\ \E m \in box[v] : MoveToReady(v, m)
    /\ UNCHANGED <<clockVars, liveVars, localVars, ghostVars, requeueing>>

\* recover_stale_processing, by a starting worker or by the maintenance
\* leader u: one message of a list whose heartbeat is absent.
RecoverStale(u, v) ==
    /\ pc[u] # "down"
    /\ v \in registry \/ v = u
    /\ v \notin heartbeat
    /\ \E m \in box[v] : MoveToReady(v, m)
    /\ UNCHANGED <<clockVars, liveVars, localVars, ghostVars, requeueing>>

Stop(w) ==
    /\ "stop" \in Faults
    /\ pc[w] # "down"
    /\ w \notin stop
    /\ stop' = stop \cup {w}
    /\ UNCHANGED <<taskVars, clockVars, liveVars, pc, hand, spent, ghostVars,
                   requeueing>>

\* Mutant: the clean-up always unregisters the worker.
ExitUnregisters(w) ==
    /\ pc[w] = "poll" /\ w \in stop
    /\ registry' = registry \ {w}
    /\ heartbeat' = heartbeat \ {w}
    /\ Goto(w, "down")
    /\ stop' = stop \ {w}
    /\ spent' = [spent EXCEPT ![w] = {}]
    /\ UNCHANGED <<taskVars, clockVars, hand, ghostVars, requeueing>>

\* The loop ends; _cleanup_worker_state keeps the registration of a list that
\* still holds messages.
Exit(w) ==
    /\ pc[w] = "poll" /\ w \in stop
    /\ registry' = IF box[w] = {} THEN registry \ {w} ELSE registry
    /\ heartbeat' = heartbeat \ {w}
    /\ Goto(w, "down")
    /\ stop' = stop \ {w}
    /\ spent' = [spent EXCEPT ![w] = {}]
    /\ UNCHANGED <<taskVars, clockVars, hand, ghostVars, requeueing>>

-----------------------------------------------------------------------------
\* _poll_once

Poll(w) ==
    /\ pc[w] = "poll" /\ w \notin stop
    /\ heartbeat' = heartbeat \cup {w}
    /\ registry' = registry \cup {w}
    /\ Goto(w, "recover")
    /\ UNCHANGED <<taskVars, clockVars, hand, stop, spent, ghostVars, requeueing>>

RecoverAbandoned(w) ==
    /\ pc[w] = "recover"
    /\ \E m \in box[w] : RecoverAbandonedClaim(w, m)
    /\ UNCHANGED <<clockVars, liveVars, localVars, ghostVars, requeueing>>

\* Mutant: the poll does not promote what is due.
MoveRetryForgotten(w) ==
    /\ pc[w] = "recover" /\ box[w] = {}
    /\ spent' = [spent EXCEPT ![w] = {}]
    /\ Goto(w, "pop")
    /\ UNCHANGED <<taskVars, clockVars, liveVars, hand, stop, ghostVars, requeueing>>

\* All listed messages are handled: forget the spent attempts, then move_retry.
MoveRetry(w) ==
    /\ pc[w] = "recover" /\ box[w] = {}
    /\ spent' = [spent EXCEPT ![w] = {}]
    /\ MoveDueDelay
    /\ Goto(w, "pop")
    /\ UNCHANGED <<clockVars, liveVars, hand, stop, ghostVars, requeueing>>

\* BRPOPLPUSH.  It may be blocked in Redis when stop() is called.
Pop(w) ==
    /\ pc[w] = "pop"
    /\ \E m \in box["ready"] :
          /\ box' = Moved("ready", m, w, m)
          /\ Holds(w, {m})
    /\ Goto(w, "popped")
    /\ UNCHANGED <<rec, owner, latest, lease, deadlines, retryWait, clockVars,
                   liveVars, stop, spent, runs, requeueing>>

\* The reply is lost: "Pop failed", and the message sits in the list unseen.
PopLost(w) ==
    /\ "lost" \in Faults
    /\ pc[w] = "pop"
    /\ \E m \in box["ready"] : box' = Moved("ready", m, w, m)
    /\ BackToPoll(w)
    /\ UNCHANGED <<rec, owner, latest, lease, deadlines, retryWait, clockVars,
                   liveVars, stop, spent, runs, requeueing>>

\* BRPOPLPUSH timed out on an empty list, or pop_claim saw the stop request.
PopNone(w) ==
    /\ pc[w] = "pop"
    /\ box["ready"] = {} \/ w \in stop
    /\ BackToPoll(w)
    /\ UNCHANGED <<taskVars, clockVars, liveVars, stop, spent, runs, requeueing>>

\* A Redis call failed before it took effect, with no claim registered.
PollRaises(w) ==
    /\ "lost" \in Faults
    /\ pc[w] \in {"recover", "pop", "popped"}
    /\ BackToPoll(w)
    /\ UNCHANGED <<taskVars, clockVars, liveVars, stop, spent, runs, requeueing>>

\* BEGIN_ATTEMPT_LUA did not start the task: pop_claim pops the next one.
BeginOther(w) ==
    /\ pc[w] = "popped"
    /\ \E m \in hand[w] : \/ BeginEnds(w, m)
                          \/ BeginFailsBudget(w, m)
                          \/ BeginDefers(w, m)
                          \/ BeginIgnores(w, m)
    /\ Goto(w, "pop") /\ Holds(w, {})
    /\ UNCHANGED <<clockVars, liveVars, stop, spent, runs, requeueing>>

\* It did: the provisional claim is registered.
Begin(w) ==
    /\ pc[w] = "popped"
    /\ \E m \in hand[w], tok \in Token :
          /\ Fresh(tok)
          /\ BeginStarts(w, m, tok)
          /\ Holds(w, {Started(m, tok)})
    /\ Goto(w, "claimed")
    /\ UNCHANGED <<clockVars, liveVars, stop, spent, runs, requeueing>>

\* The script committed but its reply was lost: nothing is registered.
BeginLost(w) ==
    /\ "lost" \in Faults
    /\ pc[w] = "popped"
    /\ \E m \in hand[w] : \/ BeginEnds(w, m)
                          \/ BeginFailsBudget(w, m)
                          \/ BeginDefers(w, m)
                          \/ \E tok \in Token : Fresh(tok) /\ BeginStarts(w, m, tok)
    /\ BackToPoll(w)
    /\ UNCHANGED <<clockVars, liveVars, stop, spent, runs, requeueing>>

-----------------------------------------------------------------------------
\* The claim: payload, admission, handler, settlement

\* fail(): permanent, or the last attempt, goes to the DLQ; otherwise backoff,
\* jitter and retry_after choose a time (from a clock read by an earlier call).
Fail(w, m, permanent) ==
    \/ (permanent \/ m.attempt >= MaxAttempts) /\ FailTask(w, m)
    \/ /\ ~permanent /\ m.attempt < MaxAttempts
       /\ \E runAt \in Time : RetrySkips(w, m, runAt) \/ RetrySchedules(w, m, runAt)
    \/ NotOwned(w, m)

\* decode_payload failed, transiently or not (an unknown action fails alike).
PayloadFails(w) ==
    /\ pc[w] = "claimed"
    /\ \E m \in hand[w], permanent \in BOOLEAN : Fail(w, m, permanent)
    /\ Goto(w, "pop") /\ Holds(w, {})
    /\ UNCHANGED <<clockVars, liveVars, stop, spent, runs, requeueing>>

\* That fail() raised, with or without having committed: settlement_pending.
PayloadFailLost(w) ==
    /\ "lost" \in Faults
    /\ pc[w] = "claimed"
    /\ \E m \in hand[w] :
          /\ UNCHANGED taskVars \/ \E permanent \in BOOLEAN : Fail(w, m, permanent)
          /\ spent' = [spent EXCEPT ![w] = @ \cup {m.task}]
    /\ BackToPoll(w)
    /\ UNCHANGED <<clockVars, liveVars, stop, runs, requeueing>>

\* Admission under _handler_start_lock, and the handler starts.
Admit(w) ==
    /\ pc[w] = "claimed" /\ w \notin stop
    /\ Goto(w, "running")
    /\ \E m \in hand[w] :
          runs' = [runs EXCEPT ![m.task] = IF @ <= MaxAttempts THEN @ + 1 ELSE @]
    /\ UNCHANGED <<taskVars, clockVars, liveVars, hand, stop, spent, late, requeueing>>

\* Stop came first: give the attempt back.
ReturnUnstarted(w) ==
    /\ pc[w] = "claimed" /\ w \in stop
    /\ \E m \in hand[w] : \/ ReturnUnstartedClaim(w, m)
                          \/ ~Returnable(w, m) /\ UNCHANGED taskVars
    /\ BackToPoll(w)
    /\ UNCHANGED <<clockVars, liveVars, stop, spent, runs, requeueing>>

\* return_unstarted_claim raised: the claim is dropped, the message stays.
ReturnRaises(w) ==
    /\ "lost" \in Faults
    /\ pc[w] = "claimed" /\ w \in stop
    /\ spent' = [spent EXCEPT ![w] = @ \cup {m.task : m \in hand[w]}]
    /\ BackToPoll(w)
    /\ UNCHANGED <<taskVars, clockVars, liveVars, stop, runs, requeueing>>

\* The handler ended: ack, or fail by the class of its exception.
Settle(w) ==
    \E m \in hand[w] : \/ CompleteTask(w, m)
                       \/ \E permanent \in BOOLEAN : Fail(w, m, permanent)

Finish(w) ==
    /\ pc[w] = "running"
    /\ Settle(w)
    /\ BackToPoll(w)
    /\ UNCHANGED <<clockVars, liveVars, stop, spent, runs, requeueing>>

\* _settle_claim lost the reply and keeps the claim to try again.
FinishLost(w) ==
    /\ "lost" \in Faults
    /\ pc[w] = "running"
    /\ Settle(w)
    /\ UNCHANGED <<clockVars, liveVars, localVars, ghostVars, requeueing>>

\* _settle_claim gives up once the worker is stopping.
FinishAbandoned(w) ==
    /\ "lost" \in Faults
    /\ pc[w] = "running" /\ w \in stop
    /\ BackToPoll(w)
    /\ UNCHANGED <<taskVars, clockVars, liveVars, stop, spent, runs, requeueing>>

\* What a worker does when every call arrives, and every reply, ...
Progress(w) ==
    \/ Start(w) \/ Ready(w) \/ HeartbeatLoop(w) \/ Exit(w)
    \/ Poll(w) \/ RecoverAbandoned(w) \/ MoveRetry(w)
    \/ Pop(w) \/ PopNone(w) \/ BeginOther(w) \/ Begin(w)
    \/ PayloadFails(w) \/ Admit(w) \/ ReturnUnstarted(w) \/ Finish(w)
    \/ \E v \in Worker : RecoverStale(w, v)

\* ... and what else may happen to it.
Upset(w) ==
    \/ Stop(w) \/ PopLost(w) \/ PollRaises(w) \/ BeginLost(w)
    \/ PayloadFailLost(w) \/ ReturnRaises(w)
    \/ FinishLost(w) \/ FinishAbandoned(w)

WorkerStep(w) == Progress(w) \/ Upset(w)
=============================================================================
