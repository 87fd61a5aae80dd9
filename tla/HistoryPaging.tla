---------------------------- MODULE HistoryPaging ----------------------------
(***************************************************************************)
(* The search of the administrator: pages of the tasks in the history      *)
(* indexes of several queues, merged by creation, and after them of the    *)
(* messages that no index knows, while tasks come, move and go.  Between   *)
(* two pages only the cursor is kept.  A task is a number, its rank in the *)
(* byte order of task ids.  A queue has one container of the state that is *)
(* searched; its messages are listed in the order in which pages read it.  *)
(***************************************************************************)
EXTENDS Integers, SequencesExt

CONSTANTS
    Tasks,       \* tasks are 1..Tasks
    Queues,      \* the names of a search, sorted, are 1..Queues
    Home(_),     \* the queue of a task
    Limit,       \* limit: rows of a page
    ScanLimit,   \* scan_limit: tasks looked at for a page
    Batch,       \* 50: entries of one read, after the first
    Containers,  \* the searched state is a container: ready, delay, dlq, ...
    Insertions,  \* ... where a message may come between others: delay
    MaxTime,     \* bound on the clock
    Events       \* what happens meanwhile: late, legacy, leave, rush, return, forget

ASSUME HomeAssumption == \A t \in 1..Tasks : Home(t) \in 1..Queues

ASSUME BoundsAssumption ==
    /\ {Tasks, Queues, Limit, Batch, MaxTime} \subseteq Nat \ {0}
    /\ ScanLimit \in Nat /\ ScanLimit >= Limit
    /\ {Containers, Insertions} \subseteq BOOLEAN
    /\ Events \subseteq {"late", "legacy", "leave", "rush", "return", "forget"}

Task  == 1..Tasks
Queue == 1..Queues

VARIABLES
    now,
    created,   \* created_at of each task, 0 before it is enqueued
    index,     \* the tasks in qtask:hist:{queue} of their queue
    found,     \* the record: none, none before it is sent, or does its state match
    line,      \* the container of each queue
    phase,     \* of the search
    cursor,
    page,      \* the local variables of search_tasks_page
    reported,  \* how often each task was in a page
    steady     \* history variable: matches since then that nothing touched

data   == <<created, index, found, line>>
search == <<phase, cursor, page, reported>>
vars   == <<now, data, search, steady>>

NoAnchor == <<MaxTime + 1, 0>>

\* raw: the queue, offset and stamp to go on with; queue 0: from the start.
NoRaw == [queue |-> 0, offset |-> 0, stamp |-> <<>>]

EmptyPage ==
    [buffer |-> [q \in Queue |-> <<>>], size |-> [q \in Queue |-> 1],
     dry |-> [q \in Queue |-> FALSE], rows |-> 0, scanned |-> 0,
     queue |-> 0, offset |-> 0, total |-> 0, stamp |-> <<>>, messages |-> <<>>]

Phase == {"idle", "between", "history", "open", "raw", "done", "refused"}

TypeOK ==
    /\ now \in 1..MaxTime
    /\ created \in [Task -> 0..MaxTime]
    /\ index \subseteq Task
    /\ found \in [Task -> {"none", "unsent", "match", "other"}]
    /\ \A q \in Queue : \A i \in DOMAIN line[q] : Home(line[q][i]) = q
    /\ \A q \in Queue : IsInjective(line[q])
    /\ phase \in Phase
    /\ cursor.cutoff \in 0..MaxTime
    /\ page.rows <= Limit /\ page.scanned <= ScanLimit
    /\ reported \in [Task -> 0..2]

Init ==
    /\ now = 1
    /\ created = [t \in Task |-> 0]
    /\ index = {} /\ found = [t \in Task |-> "none"]
    /\ line = [q \in Queue |-> <<>>]
    /\ phase = "idle"
    /\ cursor = [cutoff |-> 0, anchor |-> [q \in Queue |-> NoAnchor],
                 historyDone |-> FALSE, rawDone |-> FALSE, raw |-> NoRaw]
    /\ page = EmptyPage
    /\ reported = [t \in Task |-> 0]
    /\ steady = {}

-----------------------------------------------------------------------------
\* The pages

\* Mutant: the anchor's whole score is skipped.
EligibleByScore(t, q) ==
    /\ t \in index /\ Home(t) = q
    /\ created[t] <= cursor.cutoff
    /\ created[t] < cursor.anchor[q][1]

\* Mutant: the anchor itself is read again.
EligibleAgain(t, q) ==
    /\ t \in index /\ Home(t) = q
    /\ created[t] <= cursor.cutoff
    /\ \/ created[t] < cursor.anchor[q][1]
       \/ created[t] = cursor.anchor[q][1] /\ t <= cursor.anchor[q][2]

\* Mutant: later pages do not ask when the search began.
EligibleAnyTime(t, q) ==
    /\ t \in index /\ Home(t) = q
    /\ \/ created[t] < cursor.anchor[q][1]
       \/ created[t] = cursor.anchor[q][1] /\ t < cursor.anchor[q][2]

\* READ_HISTORY_PAGE_LUA: entries not after the cutoff and before the anchor,
\* even if the anchor itself has been removed.
Eligible(t, q) ==
    /\ t \in index /\ Home(t) = q
    /\ created[t] <= cursor.cutoff
    /\ \/ created[t] < cursor.anchor[q][1]
       \/ created[t] = cursor.anchor[q][1] /\ t < cursor.anchor[q][2]

Newer(t, u) == created[t] > created[u] \/ (created[t] = created[u] /\ t > u)

Rank(t, tasks) == 1 + Cardinality({u \in tasks : Newer(u, t)})

\* The n newest of a set of tasks, in the order of ZREVRANGEBYSCORE.
Newest(tasks, n) ==
    [i \in 1..(IF n < Cardinality(tasks) THEN n ELSE Cardinality(tasks)) |->
        CHOOSE t \in tasks : Rank(t, tasks) = i]

FirstOf(s, n) == SubSeq(s, 1, IF n < Len(s) THEN n ELSE Len(s))

Start ==
    /\ phase = "idle"
    /\ now < MaxTime /\ now' = now + 1
    /\ cursor' = [cursor EXCEPT !.cutoff = now, !.rawDone = ~Containers]
    /\ phase' = "between"
    /\ steady' = {t \in Task :
           \/ t \in index /\ found[t] = "match"
           \/ Containers /\ found[t] = "none"
                         /\ \E i \in DOMAIN line[Home(t)] : line[Home(t)][i] = t}
    /\ UNCHANGED <<data, page, reported>>

BeginPage ==
    /\ phase = "between"
    /\ phase' = "history"
    /\ page' = [EmptyPage EXCEPT !.dry = [q \in Queue |-> cursor.historyDone]]
    /\ UNCHANGED <<now, data, cursor, reported, steady>>

ToFill(q) == page.buffer[q] = <<>> /\ ~page.dry[q]

\* fill(): the next entries of one queue, one at first and then a batch, and
\* their records.
Fill(q) ==
    /\ phase = "history"
    /\ ToFill(q) /\ \A p \in 1..(q - 1) : ~ToFill(p)
    /\ LET read == Newest({t \in Task : Eligible(t, q)}, page.size[q])
       IN page' = [page EXCEPT
              !.buffer[q] = [i \in 1..Len(read) |-> [task |-> read[i], row |-> found[read[i]]]],
              !.size[q]   = Batch,
              !.dry[q]    = read = <<>>]
    /\ UNCHANGED <<now, data, phase, cursor, reported, steady>>

\* Mutant: the limits are looked at one row too late.
FullOverruns == page.rows > Limit \/ page.scanned > ScanLimit

Full == page.rows = Limit \/ page.scanned = ScanLimit

Available == {q \in Queue : page.buffer[q] # <<>>}

Report(t) == reported' = [reported EXCEPT ![t] = IF @ = 2 THEN 2 ELSE @ + 1]

\* Mutant: the cursor stays where the page began.
MergeForgets(q) ==
    /\ phase = "history"
    /\ ~Full /\ \A p \in Queue : ~ToFill(p)
    /\ q \in Available
    /\ LET head == Head(page.buffer[q])
       IN  /\ \A p \in Available \ {q} : Newer(head.task, Head(page.buffer[p]).task)
           /\ page' = [page EXCEPT
                  !.buffer[q] = Tail(@),
                  !.scanned   = @ + 1,
                  !.rows      = IF head.row = "match" THEN @ + 1 ELSE @]
           /\ IF head.row = "match" THEN Report(head.task) ELSE UNCHANGED reported
    /\ UNCHANGED <<now, data, phase, cursor, steady>>

\* The newest entry of all queues is taken, and its queue's anchor moved to it.
Merge(q) ==
    /\ phase = "history"
    /\ ~Full /\ \A p \in Queue : ~ToFill(p)
    /\ q \in Available
    /\ LET head == Head(page.buffer[q])
       IN  /\ \A p \in Available \ {q} : Newer(head.task, Head(page.buffer[p]).task)
           /\ cursor' = [cursor EXCEPT !.anchor[q] = <<created[head.task], head.task>>]
           /\ page' = [page EXCEPT
                  !.buffer[q] = Tail(@),
                  !.scanned   = @ + 1,
                  !.rows      = IF head.row = "match" THEN @ + 1 ELSE @]
           /\ IF head.row = "match" THEN Report(head.task) ELSE UNCHANGED reported
    /\ UNCHANGED <<now, data, phase, steady>>

\* The loop ends; the containers come when the history is over and the page
\* is not full.  Without both the cursor goes back to the caller.
HistoryEnds ==
    /\ phase = "history"
    /\ \A q \in Queue : ~ToFill(q)
    /\ Full \/ Available = {}
    /\ LET over == Available = {}
       IN  /\ phase' = IF over /\ ~cursor.rawDone /\ ~Full THEN "open"
                       ELSE IF over /\ cursor.rawDone THEN "done" ELSE "between"
           /\ cursor' = [cursor EXCEPT !.historyDone = over]
    /\ UNCHANGED <<now, data, page, reported, steady>>

Stamp(q) == <<Len(line[q]), FirstOf(line[q], 1), FirstOf(Reverse(line[q]), 1)>>

\* _unindexed_tasks_page looks at the next container; the one the cursor stands
\* in must have its length and its ends, or the caller has to begin again.
Open ==
    /\ phase = "open"
    /\ LET resumed == cursor.raw.queue # 0 /\ page.queue = 0
           q       == IF resumed THEN cursor.raw.queue ELSE page.queue + 1
       IN  /\ phase' = IF resumed /\ cursor.raw.stamp # Stamp(q) THEN "refused" ELSE "raw"
           /\ page' = [page EXCEPT !.queue = q, !.total = Len(line[q]), !.stamp = Stamp(q),
                  !.offset = IF resumed THEN cursor.raw.offset ELSE 0]
    /\ UNCHANGED <<now, data, cursor, reported, steady>>

\* The next messages at the offset, and what index and records say of them.
RawRead ==
    /\ phase = "raw" /\ page.messages = <<>>
    /\ page.offset < page.total /\ ~Full
    /\ LET room == ScanLimit - page.scanned
           take == IF Batch < room THEN Batch ELSE room
           read == FirstOf(SubSeq(line[page.queue], page.offset + 1, Len(line[page.queue])), take)
       IN  IF read = <<>>
           THEN page' = [page EXCEPT !.total = page.offset]
           ELSE page' = [page EXCEPT !.messages =
               [i \in 1..Len(read) |->
                   [task |-> read[i],
                    row  |-> /\ ~(read[i] \in index /\ found[read[i]] # "none")
                             /\ created[read[i]] <= cursor.cutoff]]]
    /\ UNCHANGED <<now, data, phase, cursor, reported, steady>>

RawTake ==
    /\ phase = "raw" /\ page.messages # <<>> /\ ~Full
    /\ LET head == Head(page.messages)
       IN  /\ page' = [page EXCEPT !.messages = Tail(@), !.offset = @ + 1, !.scanned = @ + 1,
                                   !.rows = IF head.row THEN @ + 1 ELSE @]
           /\ IF head.row THEN Report(head.task) ELSE UNCHANGED reported
    /\ UNCHANGED <<now, data, phase, cursor, steady>>

RawEnds ==
    /\ phase = "raw"
    /\ LET left == page.messages # <<>> \/ page.offset < page.total
       IN  \/ /\ left /\ Full
              /\ cursor' = [cursor EXCEPT !.raw =
                    [queue |-> page.queue, offset |-> page.offset, stamp |-> page.stamp]]
              /\ phase' = "between"
           \/ /\ ~left /\ page.queue < Queues
              /\ phase' = "open"
              /\ UNCHANGED cursor
           \/ /\ ~left /\ page.queue = Queues
              /\ cursor' = [cursor EXCEPT !.rawDone = TRUE]
              /\ phase' = "done"
    /\ UNCHANGED <<now, data, page, reported, steady>>

-----------------------------------------------------------------------------
\* What happens meanwhile

Touch(t) == steady' = steady \ {t}

\* LPUSH puts a message behind those that pages read; ZADD anywhere.
Arrives(t) ==
    \E k \in 1..(Len(line[Home(t)]) + 1) :
        /\ Insertions \/ k = Len(line[Home(t)]) + 1
        /\ line' = [line EXCEPT ![Home(t)] = InsertAt(@, k, t)]

\* The producer takes created_at from its clock ...
Prepare(t) ==
    /\ created[t] = 0
    /\ created' = [created EXCEPT ![t] = now]
    /\ now' \in {now, now + 1} /\ now' <= MaxTime
    /\ IF "late" \in Events
       THEN found' = [found EXCEPT ![t] = "unsent"] /\ UNCHANGED <<index, line>>
       ELSE /\ index' = index \cup {t} /\ found' = [found EXCEPT ![t] = "match"]
            /\ Arrives(t)
    /\ Touch(t)
    /\ UNCHANGED <<search>>

\* ... and later, with the payload uploaded, runs ENQUEUE_V2_LUA.
Commit(t) ==
    /\ found[t] = "unsent"
    /\ index' = index \cup {t} /\ found' = [found EXCEPT ![t] = "match"]
    /\ Arrives(t)
    /\ Touch(t)
    /\ UNCHANGED <<now, created, search>>

\* A message of an older release, without record and index entry.
Legacy(t) ==
    /\ "legacy" \in Events
    /\ phase = "idle" /\ created[t] = 0
    /\ created' = [created EXCEPT ![t] = now]
    /\ Arrives(t)
    /\ UNCHANGED <<now, index, found, search, steady>>

\* The first message leaves, for a worker or the ready list: the task now has
\* an entry and a record in another state.  rush: even between two reads of one
\* page.
Leave(t) ==
    /\ "leave" \in Events
    /\ "rush" \in Events \/ phase # "raw"
    /\ line[Home(t)] # <<>> /\ Head(line[Home(t)]) = t
    /\ line' = [line EXCEPT ![Home(t)] = Tail(@)]
    /\ index' = index \cup {t} /\ found' = [found EXCEPT ![t] = "other"]
    /\ Touch(t)
    /\ UNCHANGED <<now, created, search>>

\* A retry, a recovery: the message comes back.
Return(t) ==
    /\ "return" \in Events
    /\ found[t] = "other"
    /\ found' = [found EXCEPT ![t] = "match"]
    /\ Arrives(t)
    /\ Touch(t)
    /\ UNCHANGED <<now, created, index, search>>

\* The finished task is archived or cleaned.
Forget(t) ==
    /\ "forget" \in Events
    /\ found[t] = "other"
    /\ found' = [found EXCEPT ![t] = "none"] /\ index' = index \ {t}
    /\ Touch(t)
    /\ UNCHANGED <<now, created, line, search>>

Read == BeginPage \/ HistoryEnds \/ Open \/ RawRead \/ RawTake \/ RawEnds
            \/ \E q \in Queue : Fill(q) \/ Merge(q)

Next ==
    \/ Start \/ Read
    \/ \E t \in Task : Prepare(t) \/ Commit(t) \/ Legacy(t) \/ Leave(t) \/ Return(t) \/ Forget(t)

Spec == Init /\ [][Next]_vars

\* A caller who asks for pages goes on asking.
FairSpec == Spec /\ WF_vars(Read)

-----------------------------------------------------------------------------
\* A search that comes to its end has shown every task that matched when it
\* began and that nothing has touched since, from whichever queue.
Complete ==
    phase = "done" => \A t \in steady : reported[t] > 0

\* No task is shown twice, however the indexes and containers shift.
Once == \A t \in Task : reported[t] < 2

\* A search shows the tasks created before it began: those that come while it
\* runs do not get into its later pages, wherever indexes and lists put them.
NoneInserted == \A t \in Task : reported[t] > 0 => created[t] <= cursor.cutoff

\* Every search ends, with all pages or with the demand to begin again.
Ends == phase = "between" ~> phase \in {"done", "refused"}
=============================================================================
