----------------------------- MODULE QueueState -----------------------------
(***************************************************************************)
(* The state of one qtask_list queue: what Redis holds (the ready list,    *)
(* the delay zset, the DLQ, one processing list per worker, the task       *)
(* records, identity owners, leases, indexes and heartbeats) and what each *)
(* worker process keeps in memory.  Raw messages are abstracted to the     *)
(* envelope fields the scripts read; lists and zsets to sets of messages   *)
(* (delivery order is not modelled); uuids to tokens; clock readings to    *)
(* ticks 0..MaxTime.                                                       *)
(***************************************************************************)
EXTENDS Integers

CONSTANTS
    Task,             \* task ids, each used by one enqueue or replay
    Worker,           \* worker ids (one processing list each)
    Key,              \* logical keys (identity / deduplication)
    Conc,             \* concurrency keys (leases)
    Sup,              \* supersede keys
    Version,          \* supersede versions, integers
    Token,            \* claim and lease uuids, naturals
    Submitted,        \* the TaskSpecs producers submit
    MaxAttempts,      \* max_attempts of the queue
    MaxTime,          \* bound on the clock
    ConcurrencyRetry, \* concurrency_retry_seconds, in ticks
    Batch,            \* MOVE_DELAY_BATCH
    Faults,           \* fault classes that may occur: lost, crash, stall, stop
    Admin,            \* administrator operations that may be issued
    ReuseLiveId,      \* may a worker restart with the id of a live heartbeat?
    None              \* "no such value"

VARIABLES
    now,        \* Redis TIME
    box,        \* container or processing list -> messages in it
    rec,        \* qtask:task:{id} hashes
    owner,      \* dedup owner hash of each logical key
    latest,     \* highest supersede version seen per supersede key
    lease,      \* token holding each concurrency key
    deadlines,  \* tasks in the start-deadline index
    retryWait,  \* metrics field retry_wait.current
    heartbeat,  \* workers whose heartbeat key exists
    registry,   \* qtask:workers:{queue}
    pc,         \* where each worker's main thread is
    hand,       \* the message (at most one) that thread works on
    stop,       \* workers whose shutdown event is set
    spent,      \* _abandoned_attempts of each worker
    requeueing, \* admin requeues that moved the message, record not yet updated
    runs,       \* history variable: handler executions per task
    late        \* history variable: workers whose lease expired under them

clockVars == <<now>>
taskVars  == <<box, rec, owner, latest, lease, deadlines, retryWait>>
liveVars  == <<heartbeat, registry>>
localVars == <<pc, hand, stop, spent>>
ghostVars == <<runs, late>>
vars == <<taskVars, clockVars, liveVars, localVars, ghostVars, requeueing>>

Time == 0..MaxTime

Container == {"ready", "delay", "dlq"}
Place     == Container \cup Worker

Terminal == {"completed", "failed", "skipped", "cancelled"}
Outcome  == {"absent", "live"} \cup Terminal
Location == {"none", "ready", "delay", "processing", "dlq", "history"}
Reason   == {"new", "retry", "concurrency"}

\* not_before_at and dedup_until are 0 when the TaskSpec leaves them out.
TaskSpec == [key: Key \cup {None}, until: Time, conc: Conc \cup {None},
             sup: Sup \cup {None}, version: Version,
             deadline: Time \cup {None}, notBefore: Time]

Message == [task: Task, attempt: 0..MaxAttempts, claim: Token \cup {None},
            lease: Token \cup {None}, reason: Reason, at: Time]

Record == [spec: TaskSpec \cup {None}, outcome: Outcome,
           attempt: 0..MaxAttempts, location: Location, op: BOOLEAN,
           claim: Token \cup {None}, override: Task \cup {None}]

Owner == [task: Task \cup {None}, outcome: {"none"} \cup Terminal, until: Time]

Stage == {"down", "starting", "poll", "recover", "pop", "popped", "claimed",
          "running"}

ASSUME BoundsAssumption ==
    /\ MaxAttempts \in Nat \ {0}
    /\ MaxTime \in Nat
    /\ ConcurrencyRetry \in Nat
    /\ Batch \in Nat \ {0}
    /\ ReuseLiveId \in BOOLEAN

ASSUME DomainAssumption ==
    /\ Container \cap Worker = {}
    /\ None \notin Task \cup Key \cup Conc \cup Sup \cup Token \cup Time \cup Version
    /\ None \notin TaskSpec
    /\ Version \subseteq Int
    /\ Token \subseteq Nat
    /\ Submitted \subseteq TaskSpec

NoRecord == [spec |-> None, outcome |-> "absent", attempt |-> 0,
             location |-> "none", op |-> FALSE, claim |-> None,
             override |-> None]

NoOwner == [task |-> None, outcome |-> "none", until |-> 0]

TypeOK ==
    /\ now \in Time
    /\ box \in [Place -> SUBSET Message]
    /\ rec \in [Task -> Record]
    /\ owner \in [Key -> Owner]
    /\ latest \in [Sup -> Version \cup {None}]
    /\ lease \in [Conc -> Token \cup {None}]
    /\ deadlines \subseteq Task
    /\ retryWait \in Nat
    /\ heartbeat \subseteq Worker
    /\ registry \subseteq Worker
    /\ pc \in [Worker -> Stage]
    /\ hand \in [Worker -> SUBSET Message]
    /\ stop \subseteq Worker
    /\ spent \in [Worker -> SUBSET Task]
    /\ requeueing \subseteq Task
    /\ runs \in [Task -> 0..(MaxAttempts + 1)]
    /\ late \subseteq Worker

Init ==
    /\ now = 0
    /\ box = [p \in Place |-> {}]
    /\ rec = [t \in Task |-> NoRecord]
    /\ owner = [k \in Key |-> NoOwner]
    /\ latest = [s \in Sup |-> None]
    /\ lease = [c \in Conc |-> None]
    /\ deadlines = {}
    /\ retryWait = 0
    /\ heartbeat = {}
    /\ registry = {}
    /\ pc = [w \in Worker |-> "down"]
    /\ hand = [w \in Worker |-> {}]
    /\ stop = {}
    /\ spent = [w \in Worker |-> {}]
    /\ requeueing = {}
    /\ runs = [t \in Task |-> 0]
    /\ late = {}

-----------------------------------------------------------------------------
\* State functions shared by the scripts and the actors.

Live(t) == rec[t].outcome = "live"

Exists(t) == rec[t].outcome # "absent"

SpecOf(m) == rec[m.task].spec

\* Mutant: the settlement scripts trust the task record and skip the LREM check.
OwnedByRecord(w, m) == Live(m.task)

\* The message is still in the processing list of w and the task is live:
\* what every settlement script checks before it writes.
Owned(w, m) == Live(m.task) /\ m \in box[w]

Later(d) == IF now + d <= MaxTime THEN now + d ELSE MaxTime

InUse(tok) ==
    \/ \E t \in Task : rec[t].claim = tok
    \/ \E p \in Place : \E m \in box[p] : tok \in {m.claim, m.lease}
    \/ \E w \in Worker : \E m \in hand[w] : tok \in {m.claim, m.lease}
    \/ \E c \in Conc : lease[c] = tok

\* uuid4: a value nobody holds.  Tokens are only compared for equality, so
\* taking the least unused one loses no behaviour.
Fresh(tok) == ~InUse(tok) /\ \A k \in Token : k < tok => InUse(k)

\* LREM/ZREM m from p, then LPUSH/ZADD n to q.
Moved(p, m, q, n) ==
    LET taken == [box EXCEPT ![p] = @ \ {m}]
    IN  [taken EXCEPT ![q] = @ \cup {n}]

Removed(p, m) == [box EXCEPT ![p] = @ \ {m}]
=============================================================================
