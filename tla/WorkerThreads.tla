--------------------------- MODULE WorkerThreads ---------------------------
(***************************************************************************)
(* The threads of one Worker process: the poll loop in the main thread,    *)
(* the pool that runs handlers when max_workers > 1, the heartbeat thread, *)
(* and stop(), called by another thread or by the signal handler on top of *)
(* whatever the main thread is doing.  They share the registry of active   *)
(* claims, the set of spent attempts, the semaphore and two locks.  Redis  *)
(* is reduced to where each task's message is and what it counts.          *)
(***************************************************************************)
EXTENDS Integers, FiniteSets

CONSTANTS
    Task,
    Workers,    \* max_workers
    Slots,      \* permits of the semaphore, max_workers * 2
    MaxClaims,  \* bound: how often a task is claimed here
    Faults      \* what may go wrong: see the actions that ask for it

\* Fewer permits than the code's make the poll loop wait for one sooner.
ASSUME CountAssumption ==
    /\ Workers \in Nat \ {0} /\ MaxClaims \in Nat \ {0}
    /\ Slots \in Workers..(2 * Workers)

ASSUME FaultAssumption ==
    Faults \subseteq {"poll", "decode", "settle", "due", "lapse", "exit",
                      "shutdown", "stop", "signal"}

Pooled == Workers > 1

VARIABLES
    \* Redis
    where,       \* the list that holds each task's message
    message,     \* the claim_token in it, 0 if it is not a begun message
    token,       \* claim_token of the record: claims of the task begun so far
    attempt,     \* the attempts its record charges
    processing,  \* tasks whose record has location processing
    heartbeat, registry,
    \* the main thread
    pc, cur,     \* where it is, and the task it has popped
    inside,      \* the lock it holds
    held,        \* acquired: it owns a permit
    seen, seenSpent,
    \* shared by the threads
    permits, active, spent, running, draining, event,
    \* the other threads
    thread,      \* the stage of each claim
    hb,          \* the heartbeat thread
    stopper, stopPc,
    \* history variable: handlers started for each task
    runs

redis  == <<where, message, token, attempt, processing>>
live   == <<heartbeat, registry>>
main   == <<pc, cur, inside, held, seen, seenSpent>>
flags  == <<running, draining, event>>
stops  == <<stopper, stopPc>>
claims == <<active, spent>>
vars   == <<redis, live, main, permits, claims, flags, thread, hb, stops, runs>>

Claim == Task \X (1..MaxClaims)

\* A claim is popped and begun by the main thread, waits in the pool, runs, and
\* ends; "interrupted", then "lost", when its thread left it to be recovered.
Waiting  == {"claimed", "queued"}
InFlight == Waiting \cup {"running"}
Ending   == {"ending", "interrupted"}
Ended    == {"over", "lost"}

TypeOK ==
    /\ where \in [Task -> {"ready", "box", "delay", "away"}]
    /\ message \in [Task -> 0..MaxClaims] /\ token \in [Task -> 0..MaxClaims]
    /\ attempt \in [Task -> 0..MaxClaims]
    /\ processing \subseteq Task
    /\ heartbeat \in BOOLEAN /\ registry \in BOOLEAN
    /\ pc \in {"loop", "permit", "refresh", "snapshot", "recover", "forget",
               "pop", "blocked", "popped", "register", "decode", "discard", "discardSpent",
               "submit", "inline", "release", "exiting", "joining", "down"}
    /\ cur \subseteq Task
    /\ inside \in {"none", "start", "claims"}
    /\ held \in BOOLEAN /\ permits \in 0..Slots
    /\ seen \in [Task -> 0..MaxClaims] /\ active \in [Task -> 0..MaxClaims]
    /\ seenSpent \subseteq Task /\ spent \subseteq Task
    /\ running \in BOOLEAN /\ draining \in BOOLEAN /\ event \in BOOLEAN
    /\ thread \in [Claim -> InFlight \cup Ending \cup Ended \cup {"none"}]
    /\ hb \in {"check", "recheck", "beat", "ended"}
    /\ stopper \in {"none", "other", "signal", "main"}
    /\ stopPc \in {"none", "asked", "locked", "drained", "flag"}
    /\ runs \in [Task -> Nat]

\* run() has recovered stale lists, set the heartbeat and started the threads.
Init ==
    /\ where = [t \in Task |-> "ready"]
    /\ message = [t \in Task |-> 0] /\ token = [t \in Task |-> 0]
    /\ attempt = [t \in Task |-> 0]
    /\ processing = {}
    /\ heartbeat = TRUE /\ registry = TRUE
    /\ pc = "loop" /\ cur = {} /\ inside = "none" /\ held = FALSE
    /\ seen = [t \in Task |-> 0] /\ seenSpent = {}
    /\ permits = Slots
    /\ active = [t \in Task |-> 0] /\ spent = {}
    /\ running = TRUE /\ draining = FALSE /\ event = FALSE
    /\ thread = [c \in Claim |-> "none"]
    /\ hb = "check" /\ stopper = "none" /\ stopPc = "none"
    /\ runs = [t \in Task |-> 0]

Current(t) == <<t, token[t]>>

\* The message of this very claim is in the processing list.
Owns(c) == where[c[1]] = "box" /\ message[c[1]] = c[2]

\* stop() in the signal handler suspends the main thread's own frame.
At(p) == pc = p /\ stopper # "signal"

\* Sections of the main thread under a lock.
Needs(p) ==
    CASE p \in {"snapshot", "forget", "register", "discard", "discardSpent"} -> "claims"
      [] p = "inline" -> "start"
      [] OTHER -> "none"

Enter ==
    /\ stopper # "signal"
    /\ Needs(pc) # "none" /\ inside = "none"
    /\ Needs(pc) = "start" =>
          (stopPc \in {"none", "asked"} /\ \A t \in cur : thread[Current(t)] = "claimed")
    /\ inside' = Needs(pc)
    /\ UNCHANGED <<redis, live, pc, cur, held, seen, seenSpent, permits, claims,
                   flags, thread, hb, stops, runs>>

Step(p, q) == At(p) /\ inside = Needs(p) /\ pc' = q /\ inside' = "none"

-----------------------------------------------------------------------------
\* _worker_loop and _poll_once

\* Mutant: the loop does not look at running.
LoopForever ==
    /\ Step("loop", IF Pooled THEN "permit" ELSE "refresh")
    /\ UNCHANGED <<redis, live, cur, held, seen, seenSpent, permits, claims, flags,
                   thread, hb, stops, runs>>

Loop ==
    /\ Step("loop", IF ~running THEN "exiting" ELSE IF Pooled THEN "permit" ELSE "refresh")
    /\ UNCHANGED <<redis, live, cur, held, seen, seenSpent, permits, claims, flags,
                   thread, hb, stops, runs>>

\* acquire(timeout=1), again and again while running.
Permit ==
    /\ permits > 0
    /\ Step("permit", "refresh")
    /\ permits' = permits - 1 /\ held' = TRUE
    /\ UNCHANGED <<redis, live, cur, seen, seenSpent, claims, flags, thread, hb,
                   stops, runs>>

PermitStopped ==
    /\ ~running
    /\ Step("permit", "loop")
    /\ UNCHANGED <<redis, live, cur, held, seen, seenSpent, permits, claims, flags,
                   thread, hb, stops, runs>>

Refresh ==
    /\ Step("refresh", "snapshot")
    /\ heartbeat' = TRUE /\ registry' = TRUE
    /\ UNCHANGED <<redis, cur, held, seen, seenSpent, permits, claims, flags, thread,
                   hb, stops, runs>>

\* protected and spent_attempts, under one lock.
Snapshot ==
    /\ Step("snapshot", "recover")
    /\ seen' = active /\ seenSpent' = spent
    /\ UNCHANGED <<redis, live, cur, held, permits, claims, flags, thread, hb, stops,
                   runs>>

Unprotected(t) == where[t] = "box" /\ (message[t] = 0 \/ seen[t] # message[t])

GoesBack(t) ==
    /\ where' = [where EXCEPT ![t] = "ready"]
    /\ processing' = processing \ {t}

\* recover_abandoned_claims: a message that no registered claim holds goes back;
\* the attempt it began is given back unless it is known to have been used.
RecoverAbandoned(t) ==
    /\ At("recover")
    /\ Unprotected(t) /\ GoesBack(t)
    /\ attempt' = [attempt EXCEPT ![t] =
           IF t \in processing \ seenSpent /\ message[t] = token[t] /\ @ > 0
           THEN @ - 1 ELSE @]
    /\ UNCHANGED <<message, token, live, main, permits, claims, flags, thread, hb,
                   stops, runs>>

Recovered ==
    /\ ~\E t \in Task : Unprotected(t)
    /\ Step("recover", "forget")
    /\ UNCHANGED <<redis, live, cur, held, seen, seenSpent, permits, claims, flags,
                   thread, hb, stops, runs>>

\* Only the spent attempts that recovery was told of are forgotten.
Forget ==
    /\ Step("forget", "pop")
    /\ spent' = spent \ seenSpent
    /\ UNCHANGED <<redis, live, cur, held, seen, seenSpent, permits, active, flags,
                   thread, hb, stops, runs>>

\* pop_claim looks at the stop request before each BRPOPLPUSH, ...
PopLoop ==
    /\ Step("pop", IF event THEN "release" ELSE "blocked")
    /\ UNCHANGED <<redis, live, cur, held, seen, seenSpent, permits, claims, flags,
                   thread, hb, stops, runs>>

\* ... which may return after it; the reply may be lost.
Pop(t) ==
    /\ where[t] = "ready" /\ token[t] < MaxClaims
    /\ where' = [where EXCEPT ![t] = "box"]
    /\ \/ Step("blocked", "popped") /\ cur' = {t}
       \/ "poll" \in Faults /\ Step("blocked", "release") /\ UNCHANGED cur
    /\ UNCHANGED <<message, token, attempt, processing, live, held, seen, seenSpent,
                   permits, claims, flags, thread, hb, stops, runs>>

PopNone ==
    /\ \A t \in Task : where[t] # "ready" \/ token[t] = MaxClaims
    /\ Step("blocked", "release")
    /\ UNCHANGED <<redis, live, cur, held, seen, seenSpent, permits, claims, flags,
                   thread, hb, stops, runs>>

\* A retry is due and promoted, by this worker's move_retry or another's.  It is
\* due later than the thread that asked for it ends, unless the backoff is 0.
MoveRetry(t) ==
    /\ where[t] = "delay"
    /\ "due" \in Faults \/ thread[Current(t)] \in Ended
    /\ where' = [where EXCEPT ![t] = "ready"]
    /\ UNCHANGED <<message, token, attempt, processing, live, main, permits, claims,
                   flags, thread, hb, stops, runs>>

\* A Redis call of the poll fails before it takes effect.
PollRaises ==
    /\ "poll" \in Faults
    /\ \E p \in {"refresh", "recover", "popped"} : Step(p, "release")
    /\ cur' = {}
    /\ UNCHANGED <<redis, live, held, seen, seenSpent, permits, claims, flags, thread,
                   hb, stops, runs>>

\* BEGIN_ATTEMPT_LUA: the task starts if its message is still there.  When the
\* reply is lost nothing is registered.
Begin(t) ==
    /\ t \in cur /\ where[t] = "box"
    /\ message' = [message EXCEPT ![t] = token[t] + 1]
    /\ token' = [token EXCEPT ![t] = @ + 1]
    /\ attempt' = [attempt EXCEPT ![t] = @ + 1]
    /\ processing' = processing \cup {t}
    /\ \/ /\ Step("popped", "register")
          /\ thread' = [thread EXCEPT ![<<t, token[t] + 1>>] = "claimed"]
          /\ UNCHANGED cur
       \/ /\ "poll" \in Faults /\ Step("popped", "release")
          /\ cur' = {} /\ UNCHANGED thread
    /\ UNCHANGED <<where, live, held, seen, seenSpent, permits, claims, flags, hb,
                   stops, runs>>

BeginNothing(t) ==
    /\ t \in cur /\ where[t] # "box"
    /\ Step("popped", "pop")
    /\ cur' = {}
    /\ UNCHANGED <<redis, live, held, seen, seenSpent, permits, claims, flags, thread,
                   hb, stops, runs>>

\* Mutant: the claim is not registered before its payload is read.
RegisterLate(t) ==
    /\ t \in cur
    /\ Step("register", "decode")
    /\ UNCHANGED <<redis, live, cur, held, seen, seenSpent, permits, claims, flags,
                   thread, hb, stops, runs>>

\* _register_claim, by task id.
Register(t) ==
    /\ t \in cur
    /\ Step("register", "decode")
    /\ active' = [active EXCEPT ![t] = token[t]]
    /\ UNCHANGED <<redis, live, cur, held, seen, seenSpent, permits, spent, flags,
                   thread, hb, stops, runs>>

Decoded ==
    /\ Step("decode", "submit")
    /\ UNCHANGED <<redis, live, cur, held, seen, seenSpent, permits, claims, flags,
                   thread, hb, stops, runs>>

\* What a settlement script does for the claim c: nothing unless it owns the
\* message; otherwise the task ends, or waits for its retry with a new message.
Settles(c) ==
    \/ ~Owns(c) /\ UNCHANGED redis
    \/ /\ Owns(c)
       /\ processing' = processing \ {c[1]}
       /\ UNCHANGED <<token, attempt>>
       /\ \/ where' = [where EXCEPT ![c[1]] = "away"] /\ UNCHANGED message
          \/ /\ where' = [where EXCEPT ![c[1]] = "delay"]
             /\ message' = [message EXCEPT ![c[1]] = 0]

\* The payload cannot be read: fail(); if that raises too, settlement_pending.
DecodeFails(t) ==
    /\ "decode" \in Faults
    /\ t \in cur
    /\ \/ Settles(Current(t)) /\ Step("decode", "discard")
       \/ /\ "poll" \in Faults
          /\ Settles(Current(t)) \/ UNCHANGED redis
          /\ Step("decode", "discardSpent")
    /\ UNCHANGED <<live, cur, held, seen, seenSpent, permits, claims, flags, thread,
                   hb, stops, runs>>

\* _discard_claim; pop_claim then pops the next message, or its exception
\* leaves _poll_once.
Discard(t) ==
    /\ t \in cur
    /\ \/ Step("discard", "pop") /\ UNCHANGED spent
       \/ Step("discardSpent", "release") /\ spent' = spent \cup {t}
    /\ active' = [active EXCEPT ![t] = 0]
    /\ thread' = [thread EXCEPT ![Current(t)] = "over"]
    /\ cur' = {}
    /\ UNCHANGED <<redis, live, held, seen, seenSpent, permits, flags, hb, stops, runs>>

\* Mutant: the poll keeps the permit it has handed over with the claim.
SubmitKeepsPermit(t) ==
    /\ t \in cur
    /\ Pooled /\ Step("submit", "release") /\ cur' = {}
    /\ thread' = [thread EXCEPT ![Current(t)] = "queued"]
    /\ UNCHANGED <<redis, live, held, seen, seenSpent, permits, claims, flags, hb,
                   stops, runs>>

\* executor.submit: the permit now belongs to the claim.  If it raises, and
\* without a pool, the main thread runs the claim itself.
Submit(t) ==
    /\ t \in cur
    /\ held' = FALSE
    /\ \/ /\ Pooled /\ Step("submit", "release") /\ cur' = {}
          /\ thread' = [thread EXCEPT ![Current(t)] = "queued"]
       \/ /\ Pooled => "shutdown" \in Faults
          /\ Step("submit", "inline")
          /\ UNCHANGED <<cur, thread>>
    /\ UNCHANGED <<redis, live, seen, seenSpent, permits, claims, flags, hb, stops,
                   runs>>

\* The finally of _poll_once.
Release ==
    /\ Step("release", "loop")
    /\ permits' = IF held THEN permits + 1 ELSE permits
    /\ held' = FALSE
    /\ cur' = {}
    /\ UNCHANGED <<redis, live, seen, seenSpent, claims, flags, thread, hb, stops, runs>>

-----------------------------------------------------------------------------
\* _process_task_with_semaphore, in the pool or in the main thread

Inline(c) == pc = "inline" /\ c[1] \in cur /\ c = Current(c[1])

Busy == {c \in Claim : thread[c] \in {"running"} \cup Ending /\ ~Inline(c)}

\* The main thread under its lock, or a pool thread that is free to take it.
MayAdmit(c) ==
    \/ Inline(c) /\ inside = "start" /\ thread[c] = "claimed"
    \/ /\ thread[c] = "queued" /\ Cardinality(Busy) < Workers
       /\ inside # "start" /\ stopPc \in {"none", "asked"}

MayRun(c, stages) == thread[c] \in stages /\ (Inline(c) => stopper # "signal")

Stage(c, stage) == thread' = [thread EXCEPT ![c] = stage]

\* stop() has not been called: the handler starts.
Admit(c) ==
    /\ MayAdmit(c) /\ MayRun(c, Waiting) /\ ~event
    /\ Stage(c, "running")
    /\ inside' = IF Inline(c) THEN "none" ELSE inside
    /\ runs' = [runs EXCEPT ![c[1]] = @ + 1]
    /\ UNCHANGED <<redis, live, pc, cur, held, seen, seenSpent, permits, claims, flags,
                   hb, stops>>

\* Mutant: the message goes back and its attempt stays charged.
ReturnCharged(c) ==
    /\ MayAdmit(c) /\ MayRun(c, Waiting) /\ event
    /\ inside' = IF Inline(c) THEN "none" ELSE inside
    /\ Stage(c, "ending")
    /\ IF Owns(c) /\ c[1] \in processing
       THEN GoesBack(c[1]) /\ UNCHANGED <<message, token, attempt>>
       ELSE UNCHANGED redis
    /\ UNCHANGED <<live, pc, cur, held, seen, seenSpent, permits, claims, flags, hb,
                   stops, runs>>

\* RETURN_UNSTARTED_CLAIM_LUA, or an exception from it.
ReturnUnstarted(c) ==
    /\ MayAdmit(c) /\ MayRun(c, Waiting) /\ event
    /\ inside' = IF Inline(c) THEN "none" ELSE inside
    /\ \/ /\ Stage(c, "ending")
          /\ IF Owns(c) /\ c[1] \in processing
             THEN /\ GoesBack(c[1])
                  /\ attempt' = [attempt EXCEPT ![c[1]] = @ - 1]
                  /\ UNCHANGED <<message, token>>
             ELSE UNCHANGED redis
       \/ /\ "settle" \in Faults /\ Stage(c, "interrupted") /\ UNCHANGED redis
    /\ UNCHANGED <<live, pc, cur, held, seen, seenSpent, permits, claims, flags, hb,
                   stops, runs>>

\* The handler ends and _settle_claim has an answer.
Settle(c) ==
    /\ MayRun(c, {"running"})
    /\ Settles(c)
    /\ Stage(c, "ending")
    /\ UNCHANGED <<live, main, permits, claims, flags, hb, stops, runs>>

\* It has none: try again, or give up once the worker is stopping.
SettleLost(c) ==
    /\ "settle" \in Faults
    /\ MayRun(c, {"running"})
    /\ \/ Settles(c) /\ UNCHANGED thread
       \/ event /\ Stage(c, "ending") /\ UNCHANGED redis
    /\ UNCHANGED <<live, main, permits, claims, flags, hb, stops, runs>>

\* The handler raises a BaseException: no settlement.
Interrupted(c) ==
    /\ "exit" \in Faults
    /\ MayRun(c, {"running"})
    /\ Stage(c, "interrupted")
    /\ UNCHANGED <<redis, live, main, permits, claims, flags, hb, stops, runs>>

\* Mutant: the claim is unregistered and its attempt never marked as used.
EndForgets(c) ==
    /\ MayRun(c, Ending) /\ inside # "claims"
    /\ Stage(c, "over")
    /\ active' = [active EXCEPT ![c[1]] = 0]
    /\ permits' = IF Pooled THEN permits + 1 ELSE permits
    /\ IF Inline(c) THEN pc' = "release" /\ cur' = {} ELSE UNCHANGED <<pc, cur>>
    /\ UNCHANGED <<redis, live, inside, held, seen, seenSpent, spent, flags, hb, stops,
                   runs>>

\* The finally: the registration under this task id goes, the permit is free.
End(c) ==
    /\ MayRun(c, Ending) /\ inside # "claims"
    /\ Stage(c, IF thread[c] = "interrupted" THEN "lost" ELSE "over")
    /\ active' = [active EXCEPT ![c[1]] = 0]
    /\ spent' = IF thread[c] = "interrupted" THEN spent \cup {c[1]} ELSE spent
    /\ permits' = IF Pooled THEN permits + 1 ELSE permits
    /\ IF Inline(c) THEN /\ pc' = IF thread[c] = "interrupted" THEN "exiting" ELSE "release"
                         /\ cur' = {}
       ELSE UNCHANGED <<pc, cur>>
    /\ UNCHANGED <<redis, live, inside, held, seen, seenSpent, flags, hb, stops, runs>>

-----------------------------------------------------------------------------
\* stop(), the end of run(), the heartbeat

\* Called by another thread, by a signal, and by the main thread's finally.
StopCalled(who) ==
    /\ stopper = "none"
    /\ CASE who = "other"  -> "stop" \in Faults /\ ~event
         [] who = "signal" -> "signal" \in Faults /\ running /\ pc # "down"
         [] who = "main"   -> pc = "exiting"
    /\ stopper' = who /\ stopPc' = "asked"
    /\ UNCHANGED <<redis, live, main, permits, claims, flags, thread, hb, runs>>

StopLocks ==
    /\ stopPc = "asked" /\ inside # "start"
    /\ stopPc' = "locked"
    /\ UNCHANGED <<redis, live, main, permits, claims, flags, thread, hb, stopper, runs>>

\* Mutant: running is cleared and draining never set.
DrainsNever ==
    /\ stopPc = "locked"
    /\ stopPc' = "drained"
    /\ running' = FALSE
    /\ UNCHANGED <<redis, live, main, permits, claims, draining, event, thread, hb,
                   stopper, runs>>

\* draining is set, under the claims lock, before running is cleared.
StopDrains ==
    /\ stopPc = "locked"
    /\ running => inside # "claims"
    /\ stopPc' = IF running THEN "drained" ELSE "flag"
    /\ draining' = (draining \/ running)
    /\ UNCHANGED <<redis, live, main, permits, claims, running, event, thread, hb,
                   stopper, runs>>

StopRunning ==
    /\ stopPc = "drained"
    /\ stopPc' = "flag"
    /\ running' = FALSE
    /\ UNCHANGED <<redis, live, main, permits, claims, draining, event, thread, hb,
                   stopper, runs>>

StopFlags ==
    /\ stopPc = "flag"
    /\ stopPc' = "none" /\ stopper' = "none"
    /\ event' = TRUE
    /\ pc' = IF stopper = "main" THEN "joining" ELSE pc
    /\ UNCHANGED <<redis, live, cur, inside, held, seen, seenSpent, permits, claims,
                   running, draining, thread, hb, runs>>

\* executor.shutdown(wait=True), the threads are joined, _cleanup_worker_state.
Join ==
    /\ \A c \in Claim : thread[c] \in {"none"} \cup Ended
    /\ Step("joining", "down")
    /\ draining' = FALSE /\ heartbeat' = FALSE
    /\ registry' = (registry /\ \E t \in Task : where[t] = "box")
    /\ UNCHANGED <<redis, cur, held, seen, seenSpent, permits, claims, running, event,
                   thread, hb, stops, runs>>

\* while self.running or self._draining: two reads, then one beat.
HeartbeatLoop ==
    /\ \/ hb = "check" /\ hb' = (IF running THEN "beat" ELSE "recheck") /\ UNCHANGED live
       \/ hb = "recheck" /\ hb' = (IF draining THEN "beat" ELSE "ended") /\ UNCHANGED live
       \/ /\ hb = "beat" /\ hb' = "check" /\ pc # "down"
          /\ heartbeat' = TRUE /\ registry' = TRUE
    /\ UNCHANGED <<redis, main, permits, claims, flags, thread, stops, runs>>

\* The heartbeat key expires when nobody refreshes it in time.
Lapse ==
    /\ "lapse" \in Faults \/ hb = "ended"
    /\ heartbeat /\ heartbeat' = FALSE
    /\ UNCHANGED <<redis, registry, main, permits, claims, flags, thread, hb, stops, runs>>

\* Another worker recovers the stale list: it takes the task itself, or this
\* worker pops it again; "due": while a thread still has an older claim of it.
TakenOver(t) ==
    /\ ~heartbeat /\ registry /\ where[t] = "box"
    /\ \/ where' = [where EXCEPT ![t] = "away"] /\ processing' = processing \ {t}
       \/ /\ "due" \in Faults \/ \A n \in 1..MaxClaims : thread[<<t, n>>] \in {"none"} \cup Ended
          /\ GoesBack(t)
    /\ UNCHANGED <<message, token, attempt, live, main, permits, claims, flags, thread,
                   hb, stops, runs>>

MainStep ==
    \/ Enter \/ Loop \/ Permit \/ PermitStopped \/ Refresh \/ Snapshot \/ Recovered
    \/ Forget \/ PopLoop \/ PopNone \/ Decoded \/ Release \/ Join \/ StopCalled("main")
    \/ \E t \in Task : \/ RecoverAbandoned(t) \/ Pop(t) \/ Begin(t) \/ BeginNothing(t)
                       \/ Register(t) \/ DecodeFails(t) \/ Discard(t) \/ Submit(t)

ClaimStep(c) == Admit(c) \/ ReturnUnstarted(c) \/ Settle(c) \/ End(c)

StopStep == StopLocks \/ StopDrains \/ StopRunning \/ StopFlags

Next ==
    \/ MainStep \/ StopStep \/ HeartbeatLoop \/ PollRaises \/ Lapse
    \/ StopCalled("other") \/ StopCalled("signal")
    \/ \E c \in Claim : ClaimStep(c) \/ SettleLost(c) \/ Interrupted(c)
    \/ \E t \in Task : TakenOver(t) \/ MoveRetry(t)

Spec == Init /\ [][Next]_vars

\* Threads are scheduled, handlers end, Redis answers in the end; a thread that
\* waits for a lock which the main thread takes again and again gets it once.
Fairness ==
    /\ WF_vars(MainStep) /\ SF_vars(StopStep) /\ WF_vars(HeartbeatLoop)
    /\ \A c \in Claim : WF_vars(ClaimStep(c))

FairSpec == Spec /\ Fairness

-----------------------------------------------------------------------------
\* The semaphore counts what it should: every permit is free, held by the poll
\* loop, or owned by one claim between submit and the end of its finally.
PermitsConserved ==
    Pooled =>
        permits + (IF held THEN 1 ELSE 0)
          + Cardinality({c \in Claim : \/ thread[c] \in {"queued", "running"} \cup Ending
                                       \/ Inline(c) /\ thread[c] \in Waiting})
          = Slots

\* A claim waiting for the pool or running is registered, so that its lease is
\* renewed and its message is not given back, however an older claim of the
\* same task ends.  (What is still waiting when stop() comes is returned.)
ClaimRegistered ==
    \A c \in Claim :
        /\ thread[c] \in (IF event THEN {"running"} ELSE InFlight)
        /\ Owns(c) /\ ~(c[1] \in cur /\ pc = "register")
        => active[c[1]] = c[2]

\* A handler that started has used its attempt: recovery may give back what a
\* lost reply or a stop left unused, never what a handler has used.
UsedAttemptKept == \A t \in Task : runs[t] <= attempt[t]

\* The heartbeat thread outlives every claim: it may end only when run() has
\* no claim in flight, however stop() and its two reads interleave.
HeartbeatCoversClaims ==
    hb = "ended" => \A c \in Claim : thread[c] \in {"none"} \cup Ended

\* After run(): a message left behind is in a list that the others look at, and a
\* task is charged for no handler that did not run, unless its return failed.
NothingStranded ==
    pc = "down" => \A t \in Task :
        /\ where[t] = "box" => registry
        /\ where[t] = "ready" /\ (\A n \in 1..MaxClaims : thread[<<t, n>>] # "lost") =>
              attempt[t] <= runs[t]

\* stop() stops the worker: its handlers end, what waits is returned, the
\* threads end.  Nobody waits for a permit or a lock for ever.
Drains == (stopper # "none" \/ ~running) ~> pc = "down"
=============================================================================
