---------------------------- MODULE TaskScripts ----------------------------
(***************************************************************************)
(* The Lua scripts of state.py and queue.py.  Redis runs a script          *)
(* atomically, so each is one action on taskVars.  A script that returns   *)
(* before its first write is the caller's "no effect" alternative.         *)
(***************************************************************************)
EXTENDS QueueState, DecimalText, FiniteSets

\* Mutant: any task carrying the key closes the identity.
FinalizedByAnyTask(t, outcome) ==
    LET k == rec[t].spec.key
    IN  IF k = None THEN owner
        ELSE [owner EXCEPT ![k] = IF @.until > now
                                  THEN [@ EXCEPT !.outcome = outcome]
                                  ELSE NoOwner]

\* finalize_owner: only the owner's own task closes the identity; it is kept
\* until dedup_until, or dropped at once.
Finalized(t, outcome) ==
    LET k == rec[t].spec.key
    IN  IF k = None \/ owner[k].task # t THEN owner
        ELSE [owner EXCEPT ![k] = IF @.until > now
                                  THEN [@ EXCEPT !.outcome = outcome]
                                  ELSE NoOwner]

\* Mutant: the lease key is deleted without comparing the token.
ReleasedBlindly(m) ==
    IF SpecOf(m).conc = None THEN lease
    ELSE [lease EXCEPT ![SpecOf(m).conc] = None]

\* DEL of the lease key, only when it still holds the message's lease_token.
Released(m) ==
    LET c == SpecOf(m).conc
    IN  IF c # None /\ m.lease # None /\ lease[c] = m.lease
        THEN [lease EXCEPT ![c] = None]
        ELSE lease

\* Mutant: the end of a task leaves operational_message as it was.
EndedFlagKept(t, outcome, operational) ==
    [rec EXCEPT ![t] = [@ EXCEPT !.outcome = outcome,
                           !.location = IF operational THEN "dlq" ELSE "history"]]

Ended(t, outcome, operational) ==
    [rec EXCEPT ![t] = [@ EXCEPT !.outcome = outcome, !.op = operational,
                           !.location = IF operational THEN "dlq" ELSE "history"]]

Relocated(t, location) == [rec EXCEPT ![t] = [@ EXCEPT !.location = location]]

\* Mutant: a message that waits again is not put back into the index.
IndexedOnlyOnce(t) == deadlines

Indexed(t) == IF rec[t].spec.deadline # None THEN deadlines \cup {t} ELSE deadlines

\* retry_wait.current never goes below zero.
Decremented(n) == IF retryWait > n THEN retryWait - n ELSE 0

-----------------------------------------------------------------------------
\* ENQUEUE_V2_LUA, and the half of REPLAY_TASK_LUA that creates the new task.

Destination(s) == IF s.notBefore > now THEN "delay" ELSE "ready"

NewMessage(t, s) ==
    [task |-> t, attempt |-> 0, claim |-> None, lease |-> None,
     reason |-> "new", at |-> IF s.notBefore > now THEN s.notBefore ELSE 0]

NewRecord(s, overridden) ==
    [spec |-> s, outcome |-> "live", attempt |-> 0,
     location |-> Destination(s), op |-> TRUE, claim |-> None,
     override |-> overridden]

CurrentOwner(s) == IF s.key = None THEN None ELSE owner[s.key].task

NewOwner(t, s) ==
    IF s.key = None THEN owner
    ELSE [owner EXCEPT ![s.key] =
             [task |-> t, outcome |-> "none", until |-> s.until]]

\* Mutant: the last producer wins, whatever its version.
NewLatestUnordered(s) ==
    IF s.sup # None THEN [latest EXCEPT ![s.sup] = s.version] ELSE latest

NewLatest(s) ==
    IF s.sup # None /\ (latest[s.sup] # None =>
                          IntegerIsNewer(Text(s.version), Text(latest[s.sup])))
    THEN [latest EXCEPT ![s.sup] = s.version]
    ELSE latest

NewDeadlines(t, s) == IF s.deadline # None THEN deadlines \cup {t} ELSE deadlines

EnqueueV2(t, s, allowNew) ==
    /\ ~Exists(t)
    /\ allowNew \/ CurrentOwner(s) = None
    /\ owner' = NewOwner(t, s)
    /\ rec' = [rec EXCEPT ![t] = NewRecord(s, CurrentOwner(s))]
    /\ deadlines' = NewDeadlines(t, s)
    /\ latest' = NewLatest(s)
    /\ box' = [box EXCEPT ![Destination(s)] = @ \cup {NewMessage(t, s)}]
    /\ UNCHANGED <<lease, retryWait>>

\* The spec replay_task rebuilds from the source record: not_before_at is not
\* carried over, the deadline may be replaced.
ReplaySpec(t, deadline) ==
    [rec[t].spec EXCEPT !.notBefore = 0,
                        !.deadline = IF deadline = None THEN @ ELSE deadline]

\* REPLAY_TASK_LUA: source is the DLQ message of t when there is one to take.
ReplayTask(t, u, s, source) ==
    /\ rec[t].outcome \in {"failed", "skipped", "cancelled"}
    /\ ~Exists(u)
    /\ CurrentOwner(s) \in {None, t}
    /\ source \subseteq box["dlq"]
    /\ box' = [box EXCEPT !["dlq"] = @ \ source,
                          !["ready"] = @ \cup {NewMessage(u, s)}]
    /\ rec' = [rec EXCEPT ![t] = [@ EXCEPT !.op = FALSE, !.location = "history"],
                          ![u] = NewRecord(s, None)]
    /\ owner' = NewOwner(u, s)
    /\ deadlines' = NewDeadlines(u, s)
    /\ latest' = NewLatest(s)
    /\ UNCHANGED <<lease, retryWait>>

-----------------------------------------------------------------------------
\* BEGIN_ATTEMPT_LUA on message m popped into the processing list of w.

DeadlineMissed(s) == s.deadline # None /\ now > s.deadline

Superseded(s) == s.sup # None /\ latest[s.sup] \notin {None, s.version}

BeginCode(w, m) ==
    LET s == SpecOf(m)
    IN  IF ~Owned(w, m) THEN "ignored"
        ELSE IF DeadlineMissed(s) THEN "skipped"
        ELSE IF Superseded(s) THEN "cancelled"
        ELSE IF rec[m.task].attempt >= MaxAttempts THEN "failed_budget"
        ELSE IF s.conc # None /\ lease[s.conc] # None THEN "deferred"
        ELSE "started"

\* terminalize without an operational message: "skipped" or "cancelled".
BeginEnds(w, m) ==
    /\ BeginCode(w, m) \in {"skipped", "cancelled"}
    /\ box' = Removed(w, m)
    /\ rec' = Ended(m.task, BeginCode(w, m), FALSE)
    /\ owner' = Finalized(m.task, BeginCode(w, m))
    /\ deadlines' = deadlines \ {m.task}
    /\ UNCHANGED <<latest, lease, retryWait>>

BeginFailsBudget(w, m) ==
    /\ BeginCode(w, m) = "failed_budget"
    /\ box' = Moved(w, m, "dlq", m)
    /\ rec' = Ended(m.task, "failed", TRUE)
    /\ owner' = Finalized(m.task, "failed")
    /\ deadlines' = deadlines \ {m.task}
    /\ UNCHANGED <<latest, lease, retryWait>>

\* The deferred envelope carries no lease_token.
Deferred(m) == [m EXCEPT !.lease = None, !.reason = "concurrency",
                         !.at = Later(ConcurrencyRetry)]

BeginDefers(w, m) ==
    /\ BeginCode(w, m) = "deferred"
    /\ box' = Moved(w, m, "delay", Deferred(m))
    /\ rec' = Relocated(m.task, "delay")
    /\ UNCHANGED <<owner, latest, lease, deadlines, retryWait>>

Started(m, tok) ==
    [m EXCEPT !.attempt = rec[m.task].attempt + 1, !.claim = tok,
              !.lease = IF SpecOf(m).conc # None THEN tok ELSE None]

BeginStarts(w, m, tok) ==
    LET c == SpecOf(m).conc
    IN  /\ BeginCode(w, m) = "started"
        /\ box' = Moved(w, m, w, Started(m, tok))
        /\ rec' = [rec EXCEPT ![m.task] =
                      [@ EXCEPT !.attempt = rec[m.task].attempt + 1, !.claim = tok,
                                !.location = "processing"]]
        /\ lease' = IF c # None THEN [lease EXCEPT ![c] = tok] ELSE lease
        /\ deadlines' = deadlines \ {m.task}
        /\ UNCHANGED <<owner, latest, retryWait>>

BeginIgnores(w, m) == BeginCode(w, m) = "ignored" /\ UNCHANGED taskVars

-----------------------------------------------------------------------------
\* Settlement scripts: without ownership they change nothing.

CompleteTask(w, m) ==
    /\ Owned(w, m)
    /\ box' = Removed(w, m)
    /\ rec' = Ended(m.task, "completed", FALSE)
    /\ owner' = Finalized(m.task, "completed")
    /\ lease' = Released(m)
    /\ deadlines' = deadlines \ {m.task}
    /\ UNCHANGED <<latest, retryWait>>

FailTask(w, m) ==
    /\ Owned(w, m)
    /\ box' = Moved(w, m, "dlq", m)
    /\ rec' = Ended(m.task, "failed", TRUE)
    /\ owner' = Finalized(m.task, "failed")
    /\ lease' = Released(m)
    /\ deadlines' = deadlines \ {m.task}
    /\ UNCHANGED <<latest, retryWait>>

Retried(m, runAt) == [m EXCEPT !.reason = "retry", !.at = runAt]

RetryTooLate(m, runAt) ==
    SpecOf(m).deadline # None /\ runAt >= SpecOf(m).deadline

\* RETRY_TASK_LUA, the branch that would miss the start deadline.
RetrySkips(w, m, runAt) ==
    /\ Owned(w, m)
    /\ RetryTooLate(m, runAt)
    /\ box' = Removed(w, m)
    /\ rec' = Ended(m.task, "skipped", FALSE)
    /\ owner' = Finalized(m.task, "skipped")
    /\ lease' = Released(m)
    /\ deadlines' = deadlines \ {m.task}
    /\ UNCHANGED <<latest, retryWait>>

RetrySchedules(w, m, runAt) ==
    /\ Owned(w, m)
    /\ ~RetryTooLate(m, runAt)
    /\ box' = Moved(w, m, "delay", Retried(m, runAt))
    /\ rec' = [rec EXCEPT ![m.task] =
                  [@ EXCEPT !.location = "delay", !.op = TRUE]]
    /\ lease' = Released(m)
    /\ deadlines' = Indexed(m.task)
    /\ retryWait' = retryWait + 1
    /\ UNCHANGED <<owner, latest>>

NotOwned(w, m) == ~Owned(w, m) /\ UNCHANGED taskVars

\* RETURN_UNSTARTED_CLAIM_LUA: the attempt number and the location must still
\* be the claim's own.
Returnable(w, m) ==
    /\ Owned(w, m)
    /\ rec[m.task].attempt = m.attempt
    /\ rec[m.task].location = "processing"

ReturnUnstartedClaim(w, m) ==
    /\ Returnable(w, m)
    /\ box' = Moved(w, m, "ready", m)
    /\ rec' = [rec EXCEPT ![m.task] =
                  [@ EXCEPT !.attempt = m.attempt - 1, !.location = "ready"]]
    /\ deadlines' = Indexed(m.task)
    /\ lease' = Released(m)
    /\ UNCHANGED <<owner, latest, retryWait>>

-----------------------------------------------------------------------------
\* MOVE_DUE_DELAY_LUA: what is due, the earliest first, up to the batch limit.

Due == {m \in box["delay"] : m.at <= now}

\* Mutant: all that is due leaves the set, a batch of it reaches ready.
MoveDueDelayDrops ==
    /\ \E batch \in SUBSET Due :
          /\ \/ batch = Due /\ Cardinality(Due) <= Batch
             \/ Cardinality(batch) = Batch
          /\ \A m \in batch, n \in Due \ batch : m.at <= n.at
          /\ box' = [box EXCEPT !["delay"] = @ \ Due, !["ready"] = @ \cup batch]
          /\ rec' = [t \in Task |-> IF \E m \in batch : m.task = t
                                    THEN [rec[t] EXCEPT !.location = "ready"]
                                    ELSE rec[t]]
          /\ retryWait' = Decremented(Cardinality({m \in batch : m.reason = "retry"}))
    /\ UNCHANGED <<owner, latest, lease, deadlines>>

MoveDueDelay ==
    /\ \E batch \in SUBSET Due :
          /\ \/ batch = Due /\ Cardinality(Due) <= Batch
             \/ Cardinality(batch) = Batch
          /\ \A m \in batch, n \in Due \ batch : m.at <= n.at
          /\ box' = [box EXCEPT !["delay"] = @ \ batch, !["ready"] = @ \cup batch]
          /\ rec' = [t \in Task |-> IF \E m \in batch : m.task = t
                                    THEN [rec[t] EXCEPT !.location = "ready"]
                                    ELSE rec[t]]
          /\ retryWait' = Decremented(Cardinality({m \in batch : m.reason = "retry"}))
    /\ UNCHANGED <<owner, latest, lease, deadlines>>

\* Mutant: the gauge is not told that a retry left delay.
MoveDelayMessageUncounted(m) ==
    /\ box' = Moved("delay", m, "ready", m)
    /\ rec' = Relocated(m.task, "ready")
    /\ UNCHANGED <<owner, latest, lease, deadlines, retryWait>>

\* _move_delay_message of the admin: one message, due or not.
MoveDelayMessage(m) ==
    /\ box' = Moved("delay", m, "ready", m)
    /\ rec' = Relocated(m.task, "ready")
    /\ retryWait' = Decremented(IF m.reason = "retry" THEN 1 ELSE 0)
    /\ UNCHANGED <<owner, latest, lease, deadlines>>

\* The script of recover_processing_key, and of _move_list_message: the
\* message goes back unchanged, the attempt stays counted, the lease stays.
MoveToReady(v, m) ==
    /\ box' = Moved(v, m, "ready", m)
    /\ rec' = Relocated(m.task, "ready")
    /\ deadlines' = Indexed(m.task)
    /\ UNCHANGED <<owner, latest, lease, retryWait>>

\* The script of recover_abandoned_claims.  The attempt is given back only for
\* the claim the record still names, and not when the caller knows it spent.
Refundable(w, m) ==
    /\ m.task \notin spent[w]
    /\ rec[m.task].location = "processing"
    /\ m.claim # None /\ rec[m.task].claim = m.claim
    /\ rec[m.task].attempt > 0 /\ rec[m.task].attempt = m.attempt

RecoverAbandonedClaim(w, m) ==
    LET t == m.task
        o == rec[t].outcome
    IN  /\ box' = IF o = "live" THEN Moved(w, m, "ready", m)
                  ELSE IF o = "failed" THEN Moved(w, m, "dlq", m)
                  ELSE Removed(w, m)
        /\ rec' = [rec EXCEPT ![t] =
                     IF o = "live"
                     THEN [@ EXCEPT !.location = "ready",
                                    !.attempt = rec[t].attempt -
                                        (IF Refundable(w, m) THEN 1 ELSE 0)]
                     ELSE IF o = "failed"
                     THEN [@ EXCEPT !.location = "dlq", !.op = TRUE]
                     ELSE @]
        /\ deadlines' = IF o = "live" THEN Indexed(t) ELSE deadlines
        /\ lease' = Released(m)
        /\ UNCHANGED <<owner, latest, retryWait>>

-----------------------------------------------------------------------------
\* CANCEL_OR_PURGE_LUA: a live task becomes cancelled, a failed one leaves the
\* DLQ and stays failed.

\* Mutants: a purge leaves a live task live; a purge rewrites a failed task.
PurgedOutcomeUnchanged(t) == rec[t].outcome
PurgedOutcomeCancelled(t) == "cancelled"

PurgedOutcome(t) == IF Live(t) THEN "cancelled" ELSE rec[t].outcome

PurgedOwner(t, release) ==
    LET k == rec[t].spec.key
    IN  IF release /\ k # None /\ owner[k].task = t
        THEN [owner EXCEPT ![k] = NoOwner]
        ELSE Finalized(t, PurgedOutcome(t))

CancelOrPurge(p, m, release) ==
    /\ box' = Removed(p, m)
    /\ rec' = Ended(m.task, PurgedOutcome(m.task), FALSE)
    /\ owner' = PurgedOwner(m.task, release)
    /\ deadlines' = deadlines \ {m.task}
    /\ retryWait' = Decremented(IF p = "delay" /\ m.reason = "retry" THEN 1 ELSE 0)
    /\ lease' = Released(m)
    /\ UNCHANGED latest
=============================================================================
