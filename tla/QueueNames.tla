----------------------------- MODULE QueueNames -----------------------------
(***************************************************************************)
(* The Redis keys of several queues.  A name and a key are the sequences   *)
(* of their segments, what ':' separates; two queues whose names overlap   *)
(* are refused before anything is written.                                 *)
(***************************************************************************)
EXTENDS Integers, SequencesExt

\* Lists and zsets of a queue, named by one segment.
StateContainer == {"processing", "retry", "dlq", "delay"}

\* Keys of a queue that name a worker, a task or a business key after the segment.
StateFamily == {"processing", "worker", "dedup", "supersede", "lease", "maintenance",
                "__qtask_dummy__"}

StateSegment == StateContainer \cup StateFamily

\* Families delete_queue looks for by pattern: it runs while no worker beats, and
\* nobody writes a dummy.
Searched == {"processing", "dedup", "supersede", "lease", "maintenance"}

\* Keys that belong to no queue's name: indexes and records under "qtask:".
Internal == {"queues", "workers", "processing", "metrics", "deadline", "hist",
             "owner", "task", "storage"}

\* SmartQueue.__init__, but for glob characters within a segment.
ValidName(name) ==
    /\ Len(name) > 0 /\ \A i \in 1..Len(name) : name[i] # ""
    /\ ~(Len(name) > 1 /\ name[1] = "qtask")

Below(key, name, segment) ==
    IsPrefix(Append(name, segment), key) /\ Len(key) > Len(name) + 1

\* The keys a queue may read or write, but for a processing key of its own choice.
UsesKey(name, key) ==
    \/ key = name
    \/ \E s \in StateContainer : key = Append(name, s)
    \/ \E s \in StateFamily : Below(key, name, s)

\* The keys delete_queue removes, but for registered processing keys of a worker's
\* own choice and the internal ones.
DeletesKey(name, key) ==
    \/ key = name
    \/ \E s \in StateContainer : key = Append(name, s)
    \/ \E s \in Searched : Below(key, name, s)

IsInternal(key) == Len(key) > 1 /\ key[1] = "qtask" /\ key[2] \in Internal

state_path_overlaps(parent, child) ==
    \E s \in StateSegment : IsPrefix(Append(parent, s), child)

\* assert_queue_namespace: what every script that registers a queue requires.
assert_queue_namespace(registered, name) ==
    \A existing \in registered \ {name} :
        ~state_path_overlaps(existing, name) /\ ~state_path_overlaps(name, existing)
=============================================================================
