---------------------------- MODULE MCTaskQueue ----------------------------
(***************************************************************************)
(* Instances of TaskQueue for TLC.  Each set of submitted specs switches   *)
(* on the task features one run is about.  What holds of names and counters *)
(* alone is evaluated here over small ones.                                *)
(***************************************************************************)
EXTENDS TaskQueue, QueueNames, TLC

CONSTANTS k1, c1, s1

Plain == [key |-> None, until |-> 0, conc |-> None, sup |-> None,
          version |-> 1, deadline |-> None, notBefore |-> 0]

PlainSpecs == {Plain}

\* A start deadline and a lease.
DeadlineSpecs == {[Plain EXCEPT !.deadline = 1, !.conc = c1]}

KeyedSpecs == {[Plain EXCEPT !.conc = c1]}

\* Of both signs and of two lengths (a cfg has no negative numbers).
MixedVersions == {-10, 9}

\* Every kind of key that tasks share.
SharedSpecs == {[Plain EXCEPT !.key = k1, !.until = MaxTime, !.conc = c1, !.sup = s1,
                              !.version = v] : v \in Version}

Symmetry == Permutations(Task) \cup Permutations(Worker)

-----------------------------------------------------------------------------
\* Names and keys of up to three segments, plain ones and state segments.
SmallKey == UNION {[1..n -> {"jobs", "delay", "worker", "qtask"}] : n \in 1..3}
SmallName == {name \in SmallKey : ValidName(name)}

\* Two queues that may write one key cannot both be registered.
ASSUME SharedKeysAreRefused ==
    \A p, q \in {name \in SmallName : Len(name) < 3} : p # q =>
        \A k \in SmallKey : UsesKey(p, k) /\ UsesKey(q, k) => ~assert_queue_namespace({p}, q)

\* Who is refused would share a key, or is below another's retry, dlq or delay.
ASSUME OnlyOverlapsAreRefused ==
    \A p, q \in SmallName : state_path_overlaps(p, q) =>
        \/ \E k \in {q, Append(q, "processing")} : UsesKey(p, k) /\ UsesKey(q, k)
        \/ \E s \in {"retry", "dlq", "delay"} : Below(q, p, s)

\* A counter beyond the limit, of either sign, is refused, and no other.
ASSUME CountersAreBounded ==
    \A n \in -120..120, limit \in {0, 9, 98, 100} :
        CounterOverflows(Text(n), limit) <=> n > limit \/ n < -limit
=============================================================================
