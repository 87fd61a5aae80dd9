--------------------------- MODULE PayloadStorage ---------------------------
(***************************************************************************)
(* The large payloads a queue keeps outside Redis: the storage server with *)
(* its upload, delete and retain requests and its two cleaners, the Redis  *)
(* logs it shares with the task scripts (pending uploads and garbage), and *)
(* the producers that upload an object and then enqueue or replay the task *)
(* that owns it.  A new object has a random key of its own, so an object   *)
(* stands for one upload and for the one task that may refer to it.  File  *)
(* contents are not modelled; the server's clock and Redis TIME are one.   *)
(***************************************************************************)
EXTENDS Integers

CONSTANTS
    Object,      \* storage keys, each made by one upload
    Grace,       \* PENDING_GRACE_SECONDS, in ticks
    Slack,       \* the hour added to the provisional retention
    HistoryTtl,  \* ttl_seconds of a finished task's record
    FileTtl,     \* _ttl_seconds of the server, > 0
    LastUpload,  \* bound: no upload starts later
    MaxTime,     \* bound on the clock
    Faults,      \* fault classes that may occur: crash, lost, delay, resend
    Asked,       \* requests of others: retain
    None         \* "no such value"

VARIABLES
    now,      \* the clock
    file,     \* objects whose content file exists
    born,     \* st_mtime of each content file
    meta,     \* the {key}.meta.json files
    pending,  \* qtask:storage:pending:{id}: when an unused upload lapses
    gc,       \* qtask:storage:gc:{id}: when an object may be deleted
    task,     \* the task record that refers to each object
    expire,   \* EXPIRE of a finished task's record
    source,   \* the object of the task that the upload's task replays
    pc,       \* where the upload and enqueue of each object is
    sent,     \* enqueue or replay calls given up by the client, not yet run
    job       \* deletions under way: by request, garbage or TTL cleaner

logs     == <<pending, gc>>
files    == <<file, born, meta>>
tasks    == <<task, expire>>
requests == <<source, pc, sent>>
vars     == <<now, logs, files, tasks, requests, job>>

\* 0 is "for ever" in retain_until, so the clock starts at 1.
Time == 1..MaxTime
Meta == [retain: Time \cup {0}, dedicated: BOOLEAN]
Doer == {"request", "garbage", "ttl"}

Stage == {"idle", "write", "meta", "log", "persist", "undo", "unmeta",
          "prepared", "unsure", "unseen", "cleanup", "done", "kept"}

\* Where the server's upload handler runs, and a crash of it ends the upload.
Handling == {"write", "meta", "log", "persist", "undo", "unmeta"}

\* "gone": the record expired or was deleted; "none": there never was one.
Owning == {"live", "dlq"}
TaskState == Owning \cup {"none", "history", "gone"}

ASSUME BoundsAssumption ==
    /\ Grace \in Nat \ {0} /\ Slack \in Nat /\ HistoryTtl \in Nat /\ FileTtl \in Nat
    /\ LastUpload \in Nat /\ MaxTime \in Nat \ {0}
    /\ LastUpload + Grace + Slack <= MaxTime

ASSUME NoneAssumption == None \notin Object \cup Meta \cup Time \cup {0}

TypeOK ==
    /\ now \in Time
    /\ file \subseteq Object
    /\ born \in [Object -> Time]
    /\ meta \in [Object -> Meta \cup {None}]
    /\ pending \in [Object -> Time \cup {None}]
    /\ gc \in [Object -> Time \cup {None}]
    /\ task \in [Object -> TaskState]
    /\ expire \in [Object -> Time]
    /\ source \in [Object -> Object \cup {None}]
    /\ pc \in [Object -> Stage]
    /\ sent \subseteq Object
    /\ job \in [Doer -> [Object -> {"none", "unlink", "unmeta", "unlog"}]]

Init ==
    /\ now = 1
    /\ file = {} /\ born = [o \in Object |-> 1] /\ meta = [o \in Object |-> None]
    /\ pending = [o \in Object |-> None] /\ gc = [o \in Object |-> None]
    /\ task = [o \in Object |-> "none"]
    /\ expire = [o \in Object |-> 1]
    /\ source = [o \in Object |-> None] /\ pc = [o \in Object |-> "idle"]
    /\ sent = {}
    /\ job = [d \in Doer |-> [o \in Object |-> "none"]]

Later(d) == IF now + d <= MaxTime THEN now + d ELSE MaxTime

Due(log, o) == log[o] # None /\ log[o] <= now

Goto(o, stage) == pc' = [pc EXCEPT ![o] = stage]

\* A record that is past its EXPIRE is not there, for Redis or for a script.
Replayable(o) == task[o] = "dlq" \/ (task[o] = "history" /\ now < expire[o])

Visible(o) == task[o] = "live" \/ Replayable(o)

-----------------------------------------------------------------------------
\* The upload request, up to its answer.

\* Mutant: the last request counts, not the one that keeps the object longest.
ExtendReplaces(known, requested) == requested

\* _extend_retention: retain_until only grows, and 0 is its greatest value.
ExtendRetention(known, requested) ==
    IF 0 \in {known, requested} THEN 0
    ELSE IF known = None \/ known < requested THEN requested ELSE known

RetainOf(o) == IF meta[o] = None THEN None ELSE meta[o].retain

\* enqueue(): codec.prepare uploads the payload before any Redis write.
Upload(o) ==
    /\ pc[o] = "idle" /\ now <= LastUpload
    /\ Goto(o, "write")
    /\ UNCHANGED <<now, logs, files, tasks, source, sent, job>>

\* replay_task(): the payload of the old task is loaded, and uploaded again.
UploadReplay(o, src) ==
    /\ pc[o] = "idle" /\ now <= LastUpload
    /\ Replayable(src) /\ src \in file
    /\ source' = [source EXCEPT ![o] = src]
    /\ Goto(o, "write")
    /\ UNCHANGED <<now, logs, files, tasks, sent, job>>

WriteFile(o) ==
    /\ pc[o] = "write"
    /\ file' = file \cup {o}
    /\ born' = [born EXCEPT ![o] = now]
    /\ Goto(o, "meta")
    /\ UNCHANGED <<now, logs, meta, tasks, source, sent, job>>

\* Mutant: the object is kept for ever before the pending log knows it.
WritePersistentMeta(o) ==
    /\ pc[o] = "meta"
    /\ meta' = [meta EXCEPT ![o] = [retain |-> 0, dedicated |-> TRUE]]
    /\ Goto(o, "log")
    /\ UNCHANGED <<now, logs, file, born, tasks, source, sent, job>>

\* A retention that ends soon after the grace period, in case of a crash.
WriteMeta(o) ==
    /\ pc[o] = "meta"
    /\ meta' = [meta EXCEPT ![o] =
           [retain |-> ExtendRetention(RetainOf(o), Later(Grace + Slack)),
            dedicated |-> TRUE]]
    /\ Goto(o, "log")
    /\ UNCHANGED <<now, logs, file, born, tasks, source, sent, job>>

LogPending(o) ==
    /\ pc[o] = "log"
    /\ pending' = [pending EXCEPT ![o] = Later(Grace)]
    /\ Goto(o, "persist")
    /\ UNCHANGED <<now, gc, files, tasks, source, sent, job>>

\* ZADD raised, with or without effect: undo the upload and answer 503.
LogFails(o) ==
    /\ "lost" \in Faults
    /\ pc[o] = "log"
    /\ \/ UNCHANGED pending
       \/ pending' = [pending EXCEPT ![o] = Later(Grace)]
    /\ Goto(o, "undo")
    /\ UNCHANGED <<now, gc, files, tasks, source, sent, job>>

UndoFile(o) ==
    /\ pc[o] = "undo"
    /\ file' = file \ {o}
    /\ Goto(o, "unmeta")
    /\ UNCHANGED <<now, logs, born, meta, tasks, source, sent, job>>

UndoMeta(o) ==
    /\ pc[o] = "unmeta"
    /\ meta' = [meta EXCEPT ![o] = None]
    /\ Goto(o, "done")
    /\ UNCHANGED <<now, logs, file, born, tasks, source, sent, job>>

\* The pending log now covers the object: keep the file until it is told.
\* A lost answer makes the client give up.
Persist(o) ==
    /\ pc[o] = "persist"
    /\ meta' = [meta EXCEPT ![o] =
           [retain |-> ExtendRetention(RetainOf(o), 0), dedicated |-> TRUE]]
    /\ \/ Goto(o, "prepared")
       \/ "lost" \in Faults /\ Goto(o, "done")
    /\ UNCHANGED <<now, logs, file, born, tasks, source, sent, job>>

-----------------------------------------------------------------------------
\* ENQUEUE_V2_LUA and REPLAY_TASK_LUA, as far as objects are concerned.

\* Mutant: the script does not ask the pending log about the object.
AcceptUnchecked(o) ==
    /\ task[o] = "none"
    /\ pending' = [pending EXCEPT ![o] = None]
    /\ IF source[o] = None
       THEN /\ task' = [task EXCEPT ![o] = "live"]
            /\ UNCHANGED <<gc, expire>>
       ELSE /\ Replayable(source[o])
            /\ task' = [task EXCEPT ![o] = "live", ![source[o]] = "history"]
            /\ gc' = [gc EXCEPT ![source[o]] = Later(HistoryTtl)]
            /\ expire' = [expire EXCEPT ![source[o]] = Later(HistoryTtl)]

\* The task is created and its object leaves the pending log; a task that is
\* replayed leaves the DLQ and its own object gets a garbage entry.
Accept(o) ==
    /\ task[o] = "none"
    /\ pending[o] # None
    /\ pending' = [pending EXCEPT ![o] = None]
    /\ IF source[o] = None
       THEN /\ task' = [task EXCEPT ![o] = "live"]
            /\ UNCHANGED <<gc, expire>>
       ELSE /\ Replayable(source[o])
            /\ task' = [task EXCEPT ![o] = "live", ![source[o]] = "history"]
            /\ gc' = [gc EXCEPT ![source[o]] = Later(HistoryTtl)]
            /\ expire' = [expire EXCEPT ![source[o]] = Later(HistoryTtl)]

\* payload_expired, a duplicate, a missing source: nothing is written.
Refuse == UNCHANGED <<logs, tasks>>

Enqueue(o) ==
    /\ pc[o] = "prepared"
    /\ \/ Accept(o) /\ Goto(o, "done")
       \/ Refuse /\ Goto(o, "cleanup")
    /\ UNCHANGED <<now, files, source, sent, job>>

\* The answer is lost: the call ran, or it never will ...
EnqueueLost(o) ==
    /\ "lost" \in Faults
    /\ pc[o] = "prepared"
    /\ Accept(o) \/ Refuse
    /\ Goto(o, "unsure")
    /\ UNCHANGED <<now, files, source, sent, job>>

\* ... or it is still on its way ...
EnqueueDelayed(o) ==
    /\ "delay" \in Faults
    /\ pc[o] = "prepared"
    /\ sent' = sent \cup {o}
    /\ Goto(o, "unsure")
    /\ UNCHANGED <<now, logs, files, tasks, source, job>>

EnqueueArrives(o) ==
    /\ o \in sent
    /\ sent' = sent \ {o}
    /\ Accept(o) \/ Refuse
    /\ UNCHANGED <<now, files, source, pc, job>>

\* ... or the Redis client sends it again, and is told task_id_collision.
EnqueueResent(o) ==
    /\ "resend" \in Faults
    /\ pc[o] = "prepared"
    /\ Accept(o)
    /\ Goto(o, "cleanup")
    /\ UNCHANGED <<now, files, source, sent, job>>

\* Is enqueue_confirmed set?  Then does the record exist at all?
Confirm(o) ==
    /\ pc[o] = "unsure"
    /\ Goto(o, IF Visible(o) THEN "done" ELSE "unseen")
    /\ UNCHANGED <<now, logs, files, tasks, source, sent, job>>

Recheck(o) ==
    /\ pc[o] = "unseen"
    /\ Goto(o, IF Visible(o) THEN "done" ELSE "cleanup")
    /\ UNCHANGED <<now, logs, files, tasks, source, sent, job>>

\* The producer ends, or Redis stays unreachable: nothing is cleaned up.
GiveUp(o) ==
    /\ {"crash", "lost"} \cap Faults # {}
    /\ pc[o] \in {"prepared", "unsure", "unseen", "cleanup"}
    /\ Goto(o, "done")
    /\ UNCHANGED <<now, logs, files, tasks, source, sent, job>>

-----------------------------------------------------------------------------
\* Deletions: by request, by the garbage log, by the TTL.

Working(d, o, stage) == job' = [job EXCEPT ![d] = [@ EXCEPT ![o] = stage]]

\* _promote_pending_gc: an object that may still be enqueued becomes garbage.
Promote(o) ==
    /\ pending' = [pending EXCEPT ![o] = None]
    /\ gc' = [gc EXCEPT ![o] = now]

\* Mutant: the file is deleted before the pending entry is revoked.
CleanupUnrevoked(o) ==
    /\ pc[o] = "cleanup"
    /\ Goto(o, "done")
    /\ UNCHANGED logs
    /\ Working("request", o, IF o \in file THEN "unlink" ELSE "unmeta")
    /\ UNCHANGED <<now, files, tasks, source, sent>>

\* _cleanup_prepared_if_unreferenced: DELETE the object.  Whatever the log
\* says, the handler goes on to the files.
Cleanup(o) ==
    /\ pc[o] = "cleanup"
    /\ Goto(o, "done")
    /\ IF pending[o] # None THEN Promote(o) ELSE UNCHANGED logs
    /\ Working("request", o, IF o \in file THEN "unlink" ELSE "unmeta")
    /\ UNCHANGED <<now, files, tasks, source, sent>>

\* Mutant: what is due in the pending log is dropped, not made garbage.
PromoteDropped(o) ==
    /\ Due(pending, o)
    /\ pending' = [pending EXCEPT ![o] = None]
    /\ UNCHANGED <<now, gc, files, tasks, requests, job>>

\* _cleanup_storage_gc: pending entries that are due become garbage, ...
PromoteDue(o) ==
    /\ Due(pending, o)
    /\ Promote(o)
    /\ UNCHANGED <<now, files, tasks, requests, job>>

\* Mutant: due entries of the garbage log are acted on a tick early.
SweepEarly(o) ==
    /\ gc[o] # None /\ gc[o] <= now + 1 /\ job["garbage"][o] = "none"
    /\ o \in file => meta[o] # None /\ meta[o].dedicated
    /\ Working("garbage", o, IF o \in file THEN "unlink" ELSE "unmeta")
    /\ UNCHANGED <<now, logs, files, tasks, requests>>

\* ... and garbage that is due is deleted, if it belongs to one task.
Sweep(o) ==
    /\ Due(gc, o) /\ job["garbage"][o] = "none"
    /\ o \in file => meta[o] # None /\ meta[o].dedicated
    /\ Working("garbage", o, IF o \in file THEN "unlink" ELSE "unmeta")
    /\ UNCHANGED <<now, logs, files, tasks, requests>>

\* _cleanup_expired: 0 keeps the file, a later retain_until too; without one
\* the age of the file decides.
Expired(o, t) ==
    /\ o \in file
    /\ IF RetainOf(o) = None THEN t - born[o] > FileTtl
       ELSE RetainOf(o) # 0 /\ RetainOf(o) <= t

ExpireFile(o) ==
    /\ Expired(o, now) /\ job["ttl"][o] = "none"
    /\ Working("ttl", o, "unlink")
    /\ UNCHANGED <<now, logs, files, tasks, requests>>

\* A request that finds the file gone raises; the cleaners do not mind.
Unlink(d, o) ==
    /\ job[d][o] = "unlink"
    /\ file' = file \ {o}
    /\ Working(d, o, IF d # "garbage" /\ o \notin file THEN "none" ELSE "unmeta")
    /\ UNCHANGED <<now, logs, born, meta, tasks, requests>>

Unmeta(d, o) ==
    /\ job[d][o] = "unmeta"
    /\ meta' = [meta EXCEPT ![o] = None]
    /\ Working(d, o, IF d = "ttl" THEN "none" ELSE "unlog")
    /\ UNCHANGED <<now, logs, file, born, tasks, requests>>

Unlog(d, o) ==
    /\ job[d][o] = "unlog"
    /\ gc' = [gc EXCEPT ![o] = None]
    /\ Working(d, o, "none")
    /\ UNCHANGED <<now, pending, files, tasks, requests>>

\* The server stops between two steps: uploads fail, deletions stop half-way.
ServerCrash ==
    /\ "crash" \in Faults
    /\ job' = [d \in Doer |-> [o \in Object |-> "none"]]
    /\ pc' = [o \in Object |->
                 IF pc[o] \in Handling THEN "done" ELSE pc[o]]
    /\ UNCHANGED <<now, logs, files, tasks, source, sent>>

\* save_bytes(): an object outside any queue, which its owner asks to keep.
SaveBytes(o, until) ==
    /\ "retain" \in Asked
    /\ pc[o] = "idle"
    /\ file' = file \cup {o} /\ born' = [born EXCEPT ![o] = now]
    /\ meta' = [meta EXCEPT ![o] =
           [retain |-> ExtendRetention(RetainOf(o), until), dedicated |-> TRUE]]
    /\ Goto(o, "kept")
    /\ UNCHANGED <<now, logs, tasks, source, sent, job>>

\* retain(): prolong an existing object whose key the caller was given.
Retain(o, until) ==
    /\ "retain" \in Asked
    /\ o \in file /\ (pc[o] = "kept" \/ Visible(o))
    /\ meta' = [meta EXCEPT ![o] =
           [retain |-> ExtendRetention(RetainOf(o), until),
            dedicated |-> meta[o] # None /\ meta[o].dedicated]]
    /\ UNCHANGED <<now, logs, file, born, tasks, requests, job>>

-----------------------------------------------------------------------------
\* The task that refers to the object.

\* A script ends the task with no message left: its record and its object
\* get the same time to live.
Finish(o) ==
    /\ task[o] \in Owning
    /\ task' = [task EXCEPT ![o] = "history"]
    /\ gc' = [gc EXCEPT ![o] = Later(HistoryTtl)]
    /\ expire' = [expire EXCEPT ![o] = Later(HistoryTtl)]
    /\ UNCHANGED <<now, pending, files, requests, job>>

\* FAIL_TASK_LUA: the message stays in the DLQ and keeps its object.
Fail(o) ==
    /\ task[o] = "live"
    /\ task' = [task EXCEPT ![o] = "dlq"]
    /\ UNCHANGED <<now, logs, files, expire, requests, job>>

\* The record is cleaned before its time to live ends.
Forget(o) ==
    /\ task[o] = "history" /\ now < expire[o]
    /\ task' = [task EXCEPT ![o] = "gone"]
    /\ UNCHANGED <<now, logs, files, expire, requests, job>>

\* DELETE_QUEUE_LUA: every record goes, and every object is garbage at once.
DeleteQueue ==
    /\ \E o \in Object : Visible(o)
    /\ task' = [o \in Object |-> IF Visible(o) THEN "gone" ELSE task[o]]
    /\ gc' = [o \in Object |-> IF Visible(o) THEN now ELSE gc[o]]
    /\ UNCHANGED <<now, pending, files, expire, requests, job>>

\* An upload handler does not stall for a day: the provisional retention
\* does not end, nor the file get old, before its next step.
Tick ==
    /\ now < MaxTime
    /\ \A o \in Object :
          /\ pc[o] \in Handling => ~Expired(o, now + 1)
          /\ pc[o] \in {"write", "meta"} => now < LastUpload
    /\ now' = now + 1
    /\ UNCHANGED <<logs, files, tasks, requests, job>>

Request(o) ==
    \/ Upload(o) \/ WriteFile(o) \/ WriteMeta(o) \/ LogPending(o)
    \/ UndoFile(o) \/ UndoMeta(o) \/ Persist(o)
    \/ Enqueue(o) \/ EnqueueArrives(o) \/ Confirm(o) \/ Recheck(o) \/ Cleanup(o)
    \/ \E src \in Object : UploadReplay(o, src)

Upset(o) ==
    \/ LogFails(o) \/ EnqueueLost(o) \/ EnqueueDelayed(o) \/ EnqueueResent(o)
    \/ GiveUp(o)

Clean(o) ==
    \/ PromoteDue(o) \/ Sweep(o) \/ ExpireFile(o)
    \/ \E d \in Doer : Unlink(d, o) \/ Unmeta(d, o) \/ Unlog(d, o)

Next ==
    \/ Tick \/ ServerCrash \/ DeleteQueue
    \/ \E o \in Object :
          \/ Request(o) \/ Upset(o) \/ Clean(o)
          \/ Finish(o) \/ Fail(o) \/ Forget(o)
          \/ \E until \in Time \cup {0} : SaveBytes(o, until) \/ Retain(o, until)

Spec == Init /\ [][Next]_vars

-----------------------------------------------------------------------------
\* Fairness: the server's cleaning thread runs every minute and the handlers
\* end, the clock goes on, a producer that waits for an answer gets one.
\* Nothing makes a task finish or a queue end.
Fairness ==
    /\ WF_vars(Tick)
    /\ \A o \in Object :
          /\ WF_vars(Request(o) /\ pc[o] # "idle")
          /\ WF_vars(PromoteDue(o)) /\ WF_vars(Sweep(o)) /\ WF_vars(ExpireFile(o))
          /\ \A d \in Doer : WF_vars(Unlink(d, o) \/ Unmeta(d, o) \/ Unlog(d, o))

\* Crashes end: a server that never runs for a minute cleans nothing.
FairSpec == Spec /\ Fairness /\ <>[][~ServerCrash]_vars

\* While a task is live or in the DLQ the object it refers to is there, kept
\* without limit, and in no list of things to delete: no cleaner, no producer
\* unsure of its enqueue and no duplicate or replay may take it away.
OperationalObjectKept ==
    \A o \in Object : task[o] \in Owning =>
        /\ o \in file
        /\ meta[o] # None /\ RetainOf(o) = 0
        /\ pending[o] = None /\ gc[o] = None

\* The payload of a finished task outlives its record, whatever replay, purge
\* or cleaning does to them: while the record can be replayed, it can be read.
ReplayWindowKept ==
    \A o \in Object : Replayable(o) => o \in file

\* The scripts see a deletion before the files do: a call to enqueue that can
\* still run finds its object, or finds it revoked.
RevokedBeforeDeleted ==
    \A o \in Object :
        (pc[o] = "prepared" \/ o \in sent) /\ pending[o] # None => o \in file

\* Nothing is forgotten: a file nobody needs any more is in one of the logs, or
\* its retention ends, or its deletion is under way.
NothingForgotten ==
    \A o \in file :
        \/ task[o] \in Owning
        \/ pc[o] \notin {"idle", "done"}
        \/ pending[o] # None \/ gc[o] # None
        \/ RetainOf(o) # 0

\* Every object whose task is gone, or was never created, is deleted in the end.
GarbageCollected ==
    \A o \in Object :
        pc[o] = "done" /\ ~Visible(o) /\ o \notin sent ~> o \notin file

\* While a file is there its retention only grows, whoever writes it: the
\* upload that makes it persistent, its owner, or another caller's shorter wish.
RetentionMonotone ==
    [][\A o \in Object : o \in file /\ o \in file' /\ meta[o] # None =>
          /\ meta'[o] # None
          /\ \/ meta'[o].retain = 0
             \/ meta[o].retain # 0 /\ meta[o].retain <= meta'[o].retain]_vars
=============================================================================
