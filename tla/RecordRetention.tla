-------------------------- MODULE RecordRetention --------------------------
(***************************************************************************)
(* How long the record of a task is kept: the task scripts that end it,    *)
(* and the jobs that look at records and containers in several Redis calls *)
(* and then write or delete: clean_expired, the SQLite archiver, the safe  *)
(* repair of check_consistency and the administrator's delete_task.  A     *)
(* message is its task's, so a container is the tasks whose message is in  *)
(* it.  Jobs look at one task at a time: what they do for the others of a  *)
(* batch lies between two of its steps.                                    *)
(***************************************************************************)
EXTENDS Integers, Sequences

CONSTANTS
    Task,
    Jobs,        \* jobs that run: clean, archive, repair, delete
    Ops,         \* what operators do: replay, purge, clear, drop, lose, cut, slow
    HistoryTtl,  \* ttl_seconds of a finished task's record
    CleanAge,    \* the retention clean_expired is called with
    ArchiveAge,  \* days_ago of the archiver
    MaxTime,     \* bound on the clock
    None

ASSUME BoundsAssumption ==
    /\ HistoryTtl \in Nat \ {0} /\ CleanAge \in Nat /\ ArchiveAge \in Nat
    /\ MaxTime \in Nat
    /\ Jobs \subseteq {"clean", "archive", "repair", "delete"}
    /\ Ops \subseteq {"replay", "purge", "clear", "drop", "lose", "cut", "slow"}

VARIABLES
    now,
    place,    \* the container of each task's message
    hold,     \* what the worker in whose list the message is does with it
    late,     \* the workers that go on although the message was taken from them
    rec,      \* qtask:task:{id}
    ttl,      \* when the record expires, None while it is persistent
    index,    \* qtask:hist:{queue}, scored by created
    created,
    job,      \* the task, the step and the reads of each job
    archive   \* task_history, in SQLite

queue == <<place, hold, late>>
store == <<rec, ttl, index, created>>
vars  == <<now, queue, store, job, archive>>

Time == 0..MaxTime

\* Who lost the message before the record was looked for, or before a lost one was
\* written again.  Afterwards every script asks for the message and finds none.  Of
\* several such workers at one point of one task, one is modelled.
Late == Task \X {"popped", "absent"}

Lagging(t) == <<t, "popped">> \in late \/ <<t, "absent">> \in late

\* The containers in the order in which every job lists them.
Order == <<"ready", "dlq", "processing", "delay">>

Terminal == {"completed", "failed", "skipped"}

\* bare: only the field a job has set.
Record == [outcome: Terminal \cup {"none"}, op: BOOLEAN, finished: Time, bare: BOOLEAN]

ASSUME NoneAssumption == None \notin Record \cup Int

Idle == [task |-> None, step |-> "idle", cutoff |-> 0, read |-> None, found |-> FALSE]

Step == {"idle", "read", "scan1", "scan2", "scan3", "scan4", "unindex", "flag",
         "insert", "drop", "check", "purge1", "purge2", "purge3", "purge4", "recheck"}

TypeOK ==
    /\ now \in Time
    /\ place \in [Task -> {"none", "ready", "processing", "delay", "dlq"}]
    /\ rec \in [Task -> Record \cup {None}]
    /\ ttl \in [Task -> 0..(MaxTime + HistoryTtl) \cup {None}]
    /\ index \subseteq Task
    /\ created \in [Task -> Time \cup {None}]
    /\ hold \in [Task -> {"none", "popped", "absent", "begin", "running"}]
    /\ late \subseteq Late
    /\ job \in [Jobs -> [task: Task \cup {None}, step: Step, cutoff: -MaxTime..MaxTime,
                         read: Record \cup {None}, found: BOOLEAN]]
    /\ \A j \in Jobs \cap {"clean", "archive"} :
          job[j].step \notin {"idle", "read", "unindex"} => job[j].read # None
    /\ archive \in [Task -> Record \cup {None}]

Init ==
    /\ now = 0
    /\ place = [t \in Task |-> "none"] /\ rec = [t \in Task |-> None]
    /\ ttl = [t \in Task |-> None]
    /\ index = {} /\ created = [t \in Task |-> None]
    /\ hold = [t \in Task |-> "none"] /\ late = {}
    /\ job = [j \in Jobs |-> Idle]
    /\ archive = [t \in Task |-> None]

Fresh == [outcome |-> "none", op |-> TRUE, finished |-> 0, bare |-> FALSE]

Flagged(t, op) ==
    IF rec[t] = None THEN [Fresh EXCEPT !.op = op, !.bare = TRUE]
    ELSE [rec[t] EXCEPT !.op = op]

MayEnd(t) == rec[t] # None /\ rec[t].outcome = "none"

MayBegin(t) == place[t] = "processing" /\ MayEnd(t) /\ ~rec[t].bare

-----------------------------------------------------------------------------
\* The scripts, each atomic

Enqueue(t) ==
    /\ created[t] = None
    /\ created' = [created EXCEPT ![t] = now]
    /\ index' = index \cup {t}
    /\ rec' = [rec EXCEPT ![t] = Fresh]
    /\ place' = [place EXCEPT ![t] = "ready"]
    /\ UNCHANGED <<now, ttl, hold, late, job, archive>>

\* Mutant: a task that leaves a message in the DLQ ends like any other.
EndsAlike(t, outcome, op) ==
    /\ rec' = [rec EXCEPT ![t] = [Flagged(t, FALSE) EXCEPT !.outcome = outcome,
                                                           !.finished = now]]
    /\ ttl' = [ttl EXCEPT ![t] = now + HistoryTtl]
    /\ place' = [place EXCEPT ![t] = IF op THEN "dlq" ELSE "none"]

\* The end of a task, with or without a message left in the DLQ.
Ends(t, outcome, op) ==
    /\ rec' = [rec EXCEPT ![t] = [Flagged(t, op) EXCEPT !.outcome = outcome,
                                                        !.finished = now]]
    /\ ttl' = [ttl EXCEPT ![t] = IF op THEN @ ELSE now + HistoryTtl]
    /\ place' = [place EXCEPT ![t] = IF op THEN "dlq" ELSE "none"]

Pop(t) ==
    /\ place[t] = "ready"
    /\ place' = [place EXCEPT ![t] = "processing"]
    /\ hold' = [hold EXCEPT ![t] = "popped"]
    /\ UNCHANGED <<now, late, store, job, archive>>

\* _ensure_task_record: is there a record?
EnsureReads(t) ==
    /\ hold[t] = "popped"
    /\ hold' = [hold EXCEPT ![t] = IF rec[t] = None THEN "absent" ELSE "begin"]
    /\ UNCHANGED <<now, place, late, store, job, archive>>

\* Mutant: a lost record is not restored before the attempt begins.
EnsureSkips(t) ==
    /\ hold[t] = "absent"
    /\ hold' = [hold EXCEPT ![t] = "begin"]
    /\ UNCHANGED <<now, place, late, store, job, archive>>

\* If not, record() writes one from the message, whatever is there by now.
EnsureWrites(t) ==
    /\ hold[t] = "absent"
    /\ rec' = [rec EXCEPT ![t] = Fresh]
    /\ ttl' = [ttl EXCEPT ![t] = None]
    /\ index' = index \cup {t}
    /\ hold' = [hold EXCEPT ![t] = "begin"]
    /\ UNCHANGED <<now, place, late, created, job, archive>>

\* A worker without the message still looks for its record,
LateReads(t) ==
    /\ <<t, "popped">> \in late
    /\ late' = (late \ {<<t, "popped">>})
                   \cup IF rec[t] = None THEN {<<t, "absent">>} ELSE {}
    /\ UNCHANGED <<now, place, hold, store, job, archive>>

\* and writes one over whatever has become of the task.
LateWrites(t) ==
    /\ <<t, "absent">> \in late
    /\ late' = late \ {<<t, "absent">>}
    /\ rec' = [rec EXCEPT ![t] = Fresh]
    /\ ttl' = [ttl EXCEPT ![t] = None]
    /\ index' = index \cup {t}
    /\ UNCHANGED <<now, place, hold, created, job, archive>>

\* BEGIN_ATTEMPT_LUA starts the task, skips it, or does nothing.
Begin(t) ==
    /\ hold[t] = "begin"
    /\ \/ /\ MayBegin(t)
          /\ hold' = [hold EXCEPT ![t] = "running"]
          /\ UNCHANGED <<place, rec, ttl>>
       \/ /\ MayBegin(t)
          /\ Ends(t, "skipped", FALSE)
          /\ hold' = [hold EXCEPT ![t] = "none"]
       \/ /\ ~MayBegin(t)
          /\ hold' = [hold EXCEPT ![t] = "none"]
          /\ UNCHANGED <<place, rec, ttl>>
    /\ UNCHANGED <<now, late, index, created, job, archive>>

\* COMPLETE, FAIL or RETRY; without ownership they change nothing.
Settle(t) ==
    /\ hold[t] = "running"
    /\ hold' = [hold EXCEPT ![t] = "none"]
    /\ IF place[t] = "processing" /\ (rec[t] = None \/ MayEnd(t))
       THEN \/ Ends(t, "completed", FALSE)
            \/ Ends(t, "failed", TRUE)
            \/ place' = [place EXCEPT ![t] = "delay"] /\ UNCHANGED <<rec, ttl>>
       ELSE UNCHANGED <<place, rec, ttl>>
    /\ UNCHANGED <<now, late, index, created, job, archive>>

\* The worker dies; the message stays in its list.
Crash(t) ==
    /\ hold[t] # "none"
    /\ hold' = [hold EXCEPT ![t] = "none"]
    /\ UNCHANGED <<now, place, late, store, job, archive>>

\* What is in nobody's hand, or in that of a worker whose heartbeat has lapsed, is
\* taken from the list; the worker does not know.
Untended(t) == hold[t] = "none" \/ "slow" \in Ops

TakenFrom(gone) ==
    /\ hold' = [t \in Task |-> IF t \in gone THEN "none" ELSE hold[t]]
    /\ late' = late \cup {l \in Late : l[1] \in gone /\ hold[l[1]] = l[2]}

\* A retry is due, or the list of a worker is recovered.
BackToReady(t) ==
    /\ place[t] \in {"delay", "processing"}
    /\ Untended(t)
    /\ place' = [place EXCEPT ![t] = "ready"]
    /\ TakenFrom({t})
    /\ UNCHANGED <<now, store, job, archive>>

\* REPLAY_TASK_LUA: t leaves the DLQ, or is in the history; u is its new task.
Replay(t, u) ==
    /\ "replay" \in Ops
    /\ created[u] = None /\ u # t
    /\ rec[t] # None /\ ~rec[t].bare /\ rec[t].outcome \in {"failed", "skipped"}
    /\ rec[t].op => place[t] = "dlq"
    /\ place' = [place EXCEPT ![u] = "ready", ![t] = IF rec[t].op THEN "none" ELSE @]
    /\ rec' = [rec EXCEPT ![u] = Fresh, ![t] = [@ EXCEPT !.op = FALSE]]
    /\ ttl' = [ttl EXCEPT ![t] = now + HistoryTtl]
    /\ created' = [created EXCEPT ![u] = now]
    /\ index' = index \cup {u}
    /\ UNCHANGED <<now, hold, late, job, archive>>

\* CANCEL_OR_PURGE_LUA, for a message that no active worker has; the task is
\* cancelled if need be.  Where there is no record, only the message goes.
Purged(t) ==
    /\ place[t] # "none" /\ Untended(t)
    /\ place' = [place EXCEPT ![t] = "none"]
    /\ TakenFrom({t})
    /\ IF rec[t] = None THEN UNCHANGED <<rec, ttl>>
       ELSE /\ rec' = [rec EXCEPT ![t] =
                   IF @.outcome = "none"
                   THEN [@ EXCEPT !.op = FALSE, !.outcome = "skipped", !.finished = now]
                   ELSE [@ EXCEPT !.op = FALSE]]
            /\ ttl' = [ttl EXCEPT ![t] = now + HistoryTtl]

Purge(t) ==
    /\ "purge" \in Ops
    /\ Purged(t)
    /\ UNCHANGED <<now, index, created, job, archive>>

Archivable(r) == r # None /\ r.outcome \in Terminal /\ ~r.op

\* clear_terminal, for one task: one script checks and deletes.
ClearTerminal(t) ==
    /\ "clear" \in Ops
    /\ t \in index
    /\ rec[t] = None \/ Archivable(rec[t])
    /\ rec' = [rec EXCEPT ![t] = None] /\ ttl' = [ttl EXCEPT ![t] = None]
    /\ index' = index \ {t}
    /\ UNCHANGED <<now, queue, created, job, archive>>

\* Mutant: records are left behind, without message and without index.
DeleteQueueLeaves ==
    /\ "drop" \in Ops
    /\ \A t \in Task : Untended(t)
    /\ place' = [t \in Task |-> "none"] /\ index' = {}
    /\ TakenFrom(Task)
    /\ UNCHANGED <<now, rec, ttl, created, job, archive>>

\* DELETE_QUEUE_LUA, with no heartbeat left: messages, records and index at once.
DeleteQueue ==
    /\ "drop" \in Ops
    /\ \A t \in Task : Untended(t)
    /\ LET gone == {t \in Task : place[t] # "none" \/ t \in index}
       IN  /\ gone # {}
           /\ rec' = [t \in Task |-> IF t \in gone THEN None ELSE rec[t]]
           /\ ttl' = [t \in Task |-> IF t \in gone THEN None ELSE ttl[t]]
    /\ place' = [t \in Task |-> "none"] /\ index' = {}
    /\ TakenFrom(Task)
    /\ UNCHANGED <<now, created, job, archive>>

\* Redis loses the record of a waiting message: an eviction, a key deleted by hand.
Lose(t) ==
    /\ "lose" \in Ops
    /\ place[t] = "ready" /\ rec[t] # None
    /\ rec' = [rec EXCEPT ![t] = None] /\ ttl' = [ttl EXCEPT ![t] = None]
    /\ UNCHANGED <<now, queue, index, created, job, archive>>

\* Redis drops a record at its EXPIRE.
Expire(t) ==
    /\ rec[t] # None /\ ttl[t] # None /\ ttl[t] <= now
    /\ rec' = [rec EXCEPT ![t] = None] /\ ttl' = [ttl EXCEPT ![t] = None]
    /\ UNCHANGED <<now, queue, index, created, job, archive>>

-----------------------------------------------------------------------------
\* The jobs.  Each takes a task of the index that is old enough.

Stepped(j, s) == job' = [job EXCEPT ![j] = [@ EXCEPT !.step = s]]

At(j, t, s) == job[j].task = t /\ job[j].step = s

Age(j) == IF j = "clean" THEN CleanAge ELSE IF j = "archive" THEN ArchiveAge ELSE 0

First(j) == IF j = "repair" THEN "scan1" ELSE IF j = "delete" THEN "check" ELSE "read"

Take(j, t) ==
    /\ job[j] = Idle
    /\ created[t] # None
    /\ j \in {"clean", "archive"} => t \in index /\ created[t] <= now - Age(j)
    /\ job' = [job EXCEPT ![j] = [Idle EXCEPT !.task = t, !.step = First(j),
                                              !.cutoff = now - Age(j)]]
    /\ UNCHANGED <<now, queue, store, archive>>

Leave(j) == job' = [job EXCEPT ![j] = Idle]

\* Mutant: a task without a record is judged as one that has ended.
ReadMissing(j, t) ==
    /\ At(j, t, "read") /\ j \in {"clean", "archive"}
    /\ IF rec[t] = None \/ rec[t].outcome \in Terminal
       THEN job' = [job EXCEPT ![j] = [@ EXCEPT !.step = "scan1", !.read = rec[t]]]
       ELSE Leave(j)
    /\ UNCHANGED <<now, queue, store, archive>>

\* The record is read.  None: remove the index entry.  Otherwise clean_expired
\* and the archiver go on with finished tasks, the archiver with the flag off.
Read(j, t) ==
    /\ At(j, t, "read") /\ j \in {"clean", "archive"}
    /\ IF rec[t] = None THEN Stepped(j, "unindex")
       ELSE IF rec[t].outcome \in Terminal /\ (j = "archive" => ~rec[t].op)
       THEN job' = [job EXCEPT ![j] = [@ EXCEPT !.step = "scan1", !.read = rec[t]]]
       ELSE Leave(j)
    /\ UNCHANGED <<now, queue, store, archive>>

\* repair reads the record after the scan; the flag may disagree with it.
ReadAfterScan(t) ==
    /\ At("repair", t, "read")
    /\ IF t \notin index THEN Leave("repair")
       ELSE IF rec[t] = None THEN Stepped("repair", "unindex")
       ELSE IF rec[t].outcome \in Terminal /\ rec[t].op # job["repair"].found
       THEN Stepped("repair", "flag")
       ELSE Leave("repair")
    /\ UNCHANGED <<now, queue, store, archive>>

Found(j) ==
    \/ j = "clean" /\ Stepped(j, "flag")
    \/ j = "archive" /\ Leave(j)
    \/ j = "repair" /\ job' = [job EXCEPT ![j] = [@ EXCEPT !.step = "read",
                                                        !.found = TRUE]]

OldEnough(j) ==
    IF j = "clean" THEN job[j].read.finished <= job[j].cutoff
    ELSE job[j].read.finished < job[j].cutoff

NotFound(j) ==
    IF j = "repair" THEN Stepped(j, "read")
    ELSE IF ~OldEnough(j) THEN Leave(j)
    ELSE Stepped(j, IF j = "clean" THEN "drop" ELSE "insert")

\* One container after the other is listed, while messages move.
Scan(j, t, k) ==
    /\ At(j, t, <<"scan1", "scan2", "scan3", "scan4">>[k])
    /\ IF place[t] = Order[k] THEN Found(j)
       ELSE IF k < 4 THEN Stepped(j, <<"scan2", "scan3", "scan4">>[k])
       ELSE NotFound(j)
    /\ UNCHANGED <<now, queue, store, archive>>

\* HSET operational_message: it creates the key when the record is gone.
SetFlag(j, t) ==
    /\ At(j, t, "flag")
    /\ rec' = [rec EXCEPT ![t] = Flagged(t, j = "clean" \/ job[j].found)]
    /\ Leave(j)
    /\ UNCHANGED <<now, queue, ttl, index, created, archive>>

\* _delete_if_still_archivable: the script checks again.
CleanDrops(t) ==
    /\ At("clean", t, "drop")
    /\ IF rec[t] = None \/ (Archivable(rec[t]) /\ rec[t].finished <= job["clean"].cutoff)
       THEN /\ rec' = [rec EXCEPT ![t] = None] /\ ttl' = [ttl EXCEPT ![t] = None]
            /\ index' = index \ {t}
       ELSE UNCHANGED <<rec, ttl, index>>
    /\ Leave("clean")
    /\ UNCHANGED <<now, queue, created, archive>>

\* Mutant: the row is written after the record is gone.
InsertLater(t) ==
    /\ At("archive", t, "insert")
    /\ Stepped("archive", "drop")
    /\ UNCHANGED <<now, queue, store, archive>>

\* INSERT OR REPLACE of what was read, committed; only then ZREM and DEL.
Insert(t) ==
    /\ At("archive", t, "insert")
    /\ archive' = [archive EXCEPT ![t] = job["archive"].read]
    /\ Stepped("archive", "drop")
    /\ UNCHANGED <<now, queue, store>>

ArchiveDrops(t) ==
    /\ At("archive", t, "drop")
    /\ rec' = [rec EXCEPT ![t] = None] /\ ttl' = [ttl EXCEPT ![t] = None]
    /\ index' = index \ {t}
    /\ Leave("archive")
    /\ UNCHANGED <<now, queue, created, archive>>

\* Mutant: an index entry without a record is left alone.
UnindexForgets(j, t) ==
    /\ At(j, t, "unindex")
    /\ Leave(j)
    /\ UNCHANGED <<now, queue, store, archive>>

\* ZREM of an entry without a record, and the last step of delete_task.
Unindex(j, t) ==
    /\ At(j, t, "unindex")
    /\ index' = index \ {t}
    /\ Leave(j)
    /\ UNCHANGED <<now, queue, rec, ttl, created, archive>>

\* delete_task: no active handler, then purge container by container.
DeleteChecks(t) ==
    /\ At("delete", t, "check")
    /\ \/ hold[t] # "none" /\ Leave("delete")
       \/ Untended(t) /\ Stepped("delete", "purge1")
    /\ UNCHANGED <<now, queue, store, archive>>

PurgeOrder == <<"ready", "processing", "dlq", "delay">>

DeletePurges(t, k) ==
    /\ At("delete", t, <<"purge1", "purge2", "purge3", "purge4">>[k])
    /\ \/ /\ place[t] # PurgeOrder[k]
          /\ Stepped("delete", <<"purge2", "purge3", "purge4", "recheck">>[k])
          /\ UNCHANGED <<queue, rec, ttl>>
       \/ /\ place[t] = PurgeOrder[k] /\ hold[t] # "none"
          /\ Leave("delete")
          /\ UNCHANGED <<queue, rec, ttl>>
       \/ /\ place[t] = PurgeOrder[k] /\ Purged(t)
          /\ Stepped("delete", <<"purge2", "purge3", "purge4", "recheck">>[k])
    /\ UNCHANGED <<now, index, created, archive>>

\* Mutant: the record is not read again after the purge.
DeleteTrusts(t) ==
    /\ At("delete", t, "recheck")
    /\ Stepped("delete", "drop")
    /\ UNCHANGED <<now, queue, store, archive>>

\* A message on the move was missed: the record stays.
DeleteRechecks(t) ==
    /\ At("delete", t, "recheck")
    /\ IF rec[t] # None /\ rec[t].op THEN Leave("delete") ELSE Stepped("delete", "drop")
    /\ UNCHANGED <<now, queue, store, archive>>

DeleteDrops(t) ==
    /\ At("delete", t, "drop")
    /\ rec' = [rec EXCEPT ![t] = None] /\ ttl' = [ttl EXCEPT ![t] = None]
    /\ Stepped("delete", "unindex")
    /\ UNCHANGED <<now, queue, index, created, archive>>

\* The process of a job ends between two of its steps.
Abandon(j) ==
    /\ "cut" \in Ops
    /\ job[j] # Idle
    /\ Leave(j)
    /\ UNCHANGED <<now, queue, store, archive>>

Tick == now < MaxTime /\ now' = now + 1 /\ UNCHANGED <<queue, store, job, archive>>

Script(t) ==
    \/ Enqueue(t) \/ Pop(t) \/ EnsureReads(t) \/ EnsureWrites(t) \/ Begin(t)
    \/ LateReads(t) \/ LateWrites(t)
    \/ Settle(t) \/ Crash(t) \/ BackToReady(t) \/ Purge(t) \/ ClearTerminal(t) \/ Lose(t) \/ Expire(t)
    \/ \E u \in Task : Replay(t, u)

JobStep(j, t) ==
    \/ Take(j, t)
    \/ Read(j, t) \/ SetFlag(j, t) \/ Unindex(j, t)
    \/ j # "delete" /\ \E k \in 1..4 : Scan(j, t, k)
    \/ j = "repair" /\ ReadAfterScan(t)
    \/ j = "clean" /\ CleanDrops(t)
    \/ j = "archive" /\ (Insert(t) \/ ArchiveDrops(t))
    \/ /\ j = "delete"
       /\ \/ DeleteChecks(t) \/ DeleteRechecks(t) \/ DeleteDrops(t)
          \/ \E k \in 1..4 : DeletePurges(t, k)

Next ==
    \/ Tick \/ DeleteQueue
    \/ \E t \in Task : Script(t) \/ \E j \in Jobs : JobStep(j, t)
    \/ \E j \in Jobs : Abandon(j)

Spec == Init /\ [][Next]_vars

\* Redis drops what has expired, and the maintenance loop archives again and
\* again; clean_expired runs only when somebody asks for it.
Fairness ==
    /\ WF_vars(Tick)
    /\ \A t \in Task :
          /\ WF_vars(Expire(t))
          /\ \A j \in Jobs \cap {"archive"} :
                /\ SF_vars(Take(j, t))
                /\ WF_vars(JobStep(j, t) /\ job[j] # Idle)

FairSpec == Spec /\ Fairness

-----------------------------------------------------------------------------
\* No job, expiry or cleaning takes the record from under a message, whatever
\* moves between its reads and its writes.
RecordWhileMessage == \A t \in Task : place[t] # "none" => rec[t] # None

\* A record that Redis lost is back before an attempt of its task begins, and a
\* message does not reach the delay set or the DLQ without one.
RecordRestored ==
    \A t \in Task : hold[t] \in {"begin", "running"} \/ place[t] \in {"delay", "dlq"} =>
        rec[t] # None

\* A record says that its task has a message exactly when it has one; it is whole,
\* no bare flag that outlived a deletion, and the index of the history leads to it.
RecordExact ==
    \A t \in Task : rec[t] # None =>
        /\ rec[t].op <=> place[t] # "none"
        /\ ~rec[t].bare /\ t \in index

\* What expires or may be cleaned has ended and has no message left.
RetentionStartsAtEnd ==
    \A t \in Task : rec[t] # None /\ ttl[t] # None =>
        rec[t].outcome \in Terminal /\ place[t] = "none"

\* The archiver takes out of Redis what is in SQLite, as it ended.
ArchivedBeforeDropped ==
    [][\A t \in Task : ArchiveDrops(t) /\ rec[t] # None /\ ~rec[t].bare =>
          archive[t] # None /\ archive[t].outcome = rec[t].outcome
                            /\ archive[t].finished = rec[t].finished]_vars

Finished ==
    {r \in Record : r.outcome \in Terminal /\ r.finished + HistoryTtl <= MaxTime}

\* A finished task without a message leaves Redis, its index entry too; all that
\* may be left is a bare flag that a slow HSET wrote.  Not asked for: a record that a
\* late worker is about to open again, and one of a task that ends so late that it
\* outlives the bounded clock.
HistoryEnds ==
    \A t \in Task :
        place[t] = "none" /\ rec[t] \in Finished /\ ~Lagging(t)
            ~> IF rec[t] = None THEN t \notin index ELSE rec[t].bare
=============================================================================
