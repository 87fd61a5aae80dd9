-------------------------- MODULE TaskQueueProofs --------------------------
(***************************************************************************)
(* Proofs about TaskQueue for every value of the constants.  TaskInv is    *)
(* the part of the inductive invariant the Lua scripts must preserve,      *)
(* LocalInv the part about the memory of workers and administrators.       *)
(***************************************************************************)
EXTENDS TaskQueue, FiniteSetTheorems, TLAPS

TaskTypes ==
    /\ box \in [Place -> SUBSET Message]
    /\ rec \in [Task -> Record]
    /\ owner \in [Key -> Owner]
    /\ latest \in [Sup -> Version \cup {None}]
    /\ lease \in [Conc -> Token \cup {None}]
    /\ deadlines \subseteq Task
    /\ retryWait \in Nat

LocalTypes ==
    /\ now \in Time
    /\ heartbeat \subseteq Worker
    /\ registry \subseteq Worker
    /\ pc \in [Worker -> Stage]
    /\ hand \in [Worker -> SUBSET Message]
    /\ stop \subseteq Worker
    /\ spent \in [Worker -> SUBSET Task]
    /\ requeueing \subseteq Task
    /\ runs \in [Task -> 0..(MaxAttempts + 1)]
    /\ late \subseteq Worker

\* Only finitely many messages are anywhere: what makes the number of due
\* retries a natural number.
BoxFinite == \A p \in Place : IsFiniteSet(box[p])

\* A record that exists knows its spec.
SpecKnown == \A t \in Task : Exists(t) => rec[t].spec \in TaskSpec

\* A claim carries an attempt number, so that giving it back stays in range.
ClaimNumbered ==
    \A w \in Worker : pc[w] \in {"claimed", "running"} =>
        \A m \in hand[w] : m.attempt >= 1

TaskInv ==
    /\ TaskTypes
    /\ BoxFinite
    /\ SpecKnown
    /\ OneMessage
    /\ MessageMatchesOutcome

LocalInv == LocalTypes /\ ClaimNumbered

Inv == TaskInv /\ LocalInv

-----------------------------------------------------------------------------
\* What moving, removing and adding one message does to the two container
\* invariants.

LEMMA MovedMessage ==
    ASSUME TaskInv,
           NEW p \in Place, NEW q \in Place, NEW m \in box[p], NEW n \in Message,
           n.task = m.task,
           box' = Moved(p, m, q, n),
           rec' \in [Task -> Record],
           \A t \in Task \ {m.task} : rec'[t].outcome = rec[t].outcome,
           rec'[m.task].outcome = IF q = "dlq" THEN "failed" ELSE "live"
    PROVE  /\ box' \in [Place -> SUBSET Message]
           /\ BoxFinite'
           /\ OneMessage'
           /\ MessageMatchesOutcome'
<1>1. box' \in [Place -> SUBSET Message]
  BY DEF TaskInv, TaskTypes, Moved
<1>2. BoxFinite'
  <2>1. \A r \in Place : IsFiniteSet(box[r] \ {m})
    BY FS_RemoveElement DEF TaskInv, BoxFinite
  <2>2. \A r \in Place : IsFiniteSet(box[r] \cup {n}) /\ IsFiniteSet((box[r] \ {m}) \cup {n})
    BY <2>1, FS_AddElement DEF TaskInv, BoxFinite
  <2>3. \A r \in Place : box'[r] \in {box[r], box[r] \ {m}, box[r] \cup {n}, (box[r] \ {m}) \cup {n}}
    BY DEF TaskInv, TaskTypes, Moved
  <2> QED
    BY <2>1, <2>2, <2>3 DEF TaskInv, BoxFinite
<1>3. m \in Message /\ m.task \in Task /\ n.task \in Task
  BY DEF TaskInv, TaskTypes, Message
<1>4. \A r \in Place : \A x \in box'[r] :
         \/ x = n /\ r = q
         \/ x \in box[r] /\ x.task # m.task
  <2>1. \A r \in Place : \A x \in box'[r] :
           (x = n /\ r = q) \/ (x \in box[r] /\ ~(r = p /\ x = m))
    BY DEF TaskInv, TaskTypes, Moved
  <2> QED
    BY <2>1 DEF TaskInv, OneMessage
<1>5. OneMessage'
  BY <1>3, <1>4 DEF TaskInv, OneMessage
<1>6. \A r \in Place : \A x \in box'[r] :
         rec'[x.task].outcome = (IF r = "dlq" THEN "failed" ELSE "live")
  BY <1>1, <1>3, <1>4 DEF TaskInv, MessageMatchesOutcome, TaskTypes, Message
<1>7. ASSUME NEW t \in Task, Live(t)'
      PROVE  \E r \in Place \ {"dlq"} : \E x \in box'[r] : x.task = t
  <2>1. CASE t = m.task
    <3>1. n \in box'[q] /\ q # "dlq"
      BY <1>7, <2>1 DEF TaskInv, TaskTypes, Moved, Live
    <3> QED
      BY <3>1, <2>1
  <2>2. CASE t # m.task
    <3>1. Live(t)
      BY <1>7, <2>2 DEF Live
    <3>2. PICK r \in Place \ {"dlq"} : \E x \in box[r] : x.task = t
      BY <3>1 DEF TaskInv, MessageMatchesOutcome
    <3>3. PICK x \in box[r] : x.task = t
      BY <3>2
    <3>4. x \in box'[r]
      BY <3>3, <2>2 DEF TaskInv, TaskTypes, Moved
    <3> QED
      BY <3>3, <3>4
  <2> QED
    BY <2>1, <2>2
<1> QED
  BY <1>1, <1>2, <1>5, <1>6, <1>7 DEF MessageMatchesOutcome

LEMMA RemovedMessage ==
    ASSUME TaskInv,
           NEW p \in Place, NEW m \in box[p],
           box' = Removed(p, m),
           rec' \in [Task -> Record],
           \A t \in Task \ {m.task} : rec'[t].outcome = rec[t].outcome,
           rec'[m.task].outcome # "live"
    PROVE  /\ box' \in [Place -> SUBSET Message]
           /\ BoxFinite'
           /\ OneMessage'
           /\ MessageMatchesOutcome'
<1>1. box' \in [Place -> SUBSET Message]
  BY DEF TaskInv, TaskTypes, Removed
<1>2. BoxFinite'
  <2>1. \A r \in Place : IsFiniteSet(box[r] \ {m})
    BY FS_RemoveElement DEF TaskInv, BoxFinite
  <2>2. \A r \in Place : box'[r] \in {box[r], box[r] \ {m}}
    BY DEF TaskInv, TaskTypes, Removed
  <2> QED
    BY <2>1, <2>2 DEF TaskInv, BoxFinite
<1>3. m.task \in Task
  BY DEF TaskInv, TaskTypes, Message
<1>4. \A r \in Place : \A x \in box'[r] : x \in box[r] /\ x.task # m.task
  <2>1. \A r \in Place : \A x \in box'[r] : x \in box[r] /\ ~(r = p /\ x = m)
    BY DEF TaskInv, TaskTypes, Removed
  <2> QED
    BY <2>1 DEF TaskInv, OneMessage
<1>5. OneMessage'
  BY <1>4 DEF TaskInv, OneMessage
<1>6. \A r \in Place : \A x \in box'[r] :
         rec'[x.task].outcome = (IF r = "dlq" THEN "failed" ELSE "live")
  BY <1>1, <1>4 DEF TaskInv, MessageMatchesOutcome, TaskTypes, Message
<1>7. ASSUME NEW t \in Task, Live(t)'
      PROVE  \E r \in Place \ {"dlq"} : \E x \in box'[r] : x.task = t
  <2>1. t # m.task /\ Live(t)
    BY <1>7, <1>3 DEF Live
  <2>2. PICK r \in Place \ {"dlq"} : \E x \in box[r] : x.task = t
    BY <2>1 DEF TaskInv, MessageMatchesOutcome
  <2>3. PICK x \in box[r] : x.task = t
    BY <2>2
  <2>4. x \in box'[r]
    BY <2>3, <2>1 DEF TaskInv, TaskTypes, Removed
  <2> QED
    BY <2>3, <2>4
<1> QED
  BY <1>1, <1>2, <1>5, <1>6, <1>7 DEF MessageMatchesOutcome

LEMMA AddedMessage ==
    ASSUME TaskInv,
           NEW q \in {"ready", "delay"}, NEW n \in Message,
           box' = [box EXCEPT ![q] = @ \cup {n}],
           rec' \in [Task -> Record],
           \A t \in Task \ {n.task} : rec'[t].outcome = rec[t].outcome,
           rec[n.task].outcome = "absent",
           rec'[n.task].outcome = "live"
    PROVE  /\ box' \in [Place -> SUBSET Message]
           /\ BoxFinite'
           /\ OneMessage'
           /\ MessageMatchesOutcome'
<1> q \in Place \ {"dlq"}
  BY DEF Place, Container
<1>1. box' \in [Place -> SUBSET Message]
  BY DEF TaskInv, TaskTypes
<1>2. BoxFinite'
  <2>1. \A r \in Place : IsFiniteSet(box[r] \cup {n})
    BY FS_AddElement DEF TaskInv, BoxFinite
  <2>2. \A r \in Place : box'[r] \in {box[r], box[r] \cup {n}}
    BY DEF TaskInv, TaskTypes
  <2> QED
    BY <2>1, <2>2 DEF TaskInv, BoxFinite
<1>3. n.task \in Task
  BY DEF Message
<1>4. \A r \in Place : \A x \in box[r] : x.task # n.task
  BY DEF TaskInv, MessageMatchesOutcome
<1>5. \A r \in Place : \A x \in box'[r] :
         \/ x = n /\ r = q
         \/ x \in box[r] /\ x.task # n.task
  BY <1>4 DEF TaskInv, TaskTypes
<1>6. OneMessage'
  BY <1>5 DEF TaskInv, OneMessage
<1>7. \A r \in Place : \A x \in box'[r] :
         rec'[x.task].outcome = (IF r = "dlq" THEN "failed" ELSE "live")
  BY <1>1, <1>3, <1>5 DEF TaskInv, MessageMatchesOutcome, TaskTypes, Message
<1>8. ASSUME NEW t \in Task, Live(t)'
      PROVE  \E r \in Place \ {"dlq"} : \E x \in box'[r] : x.task = t
  <2>1. CASE t = n.task
    <3>1. n \in box'[q]
      BY DEF TaskInv, TaskTypes
    <3> QED
      BY <3>1, <2>1
  <2>2. CASE t # n.task
    <3>1. Live(t)
      BY <1>8, <2>2 DEF Live
    <3>2. PICK r \in Place \ {"dlq"} : \E x \in box[r] : x.task = t
      BY <3>1 DEF TaskInv, MessageMatchesOutcome
    <3>3. \A x \in box[r] : x \in box'[r]
      BY DEF TaskInv, TaskTypes
    <3> QED
      BY <3>2, <3>3
  <2> QED
    BY <2>1, <2>2
<1> QED
  BY <1>1, <1>2, <1>6, <1>7, <1>8 DEF MessageMatchesOutcome

\* The container invariants read records only through their outcomes.
LEMMA SameMessages ==
    ASSUME TaskInv,
           box' = box,
           \A t \in Task : rec'[t].outcome = rec[t].outcome
    PROVE  BoxFinite' /\ OneMessage' /\ MessageMatchesOutcome'
<1>1. \A p \in Place : \A m \in box[p] : m.task \in Task
  BY DEF TaskInv, TaskTypes, Message
<1> QED
  BY <1>1 DEF TaskInv, BoxFinite, OneMessage, MessageMatchesOutcome, Live

\* A record that keeps its spec and is neither created nor deleted.
LEMMA SpecKept ==
    ASSUME TaskInv,
           \A t \in Task : /\ rec'[t].spec = rec[t].spec
                           /\ Exists(t)' => Exists(t)
    PROVE  SpecKnown'
BY DEF TaskInv, SpecKnown, Exists

\* The task of a message exists, and its spec is known.
LEMMA MessageTask ==
    ASSUME TaskInv, NEW p \in Place, NEW m \in box[p]
    PROVE  /\ m \in Message
           /\ m.task \in Task
           /\ Exists(m.task)
           /\ p # "dlq" => Live(m.task)
           /\ rec[m.task].spec \in TaskSpec
BY DEF TaskInv, TaskTypes, SpecKnown, MessageMatchesOutcome, Message, Exists, Live

-----------------------------------------------------------------------------
\* Types of the values the scripts write.

LEMMA FinalizedType ==
    ASSUME TaskTypes, NEW t \in Task, NEW outcome \in Terminal
    PROVE  Finalized(t, outcome) \in [Key -> Owner]
<1> DEFINE k == rec[t].spec.key
           new == IF owner[k].until > now THEN [owner[k] EXCEPT !.outcome = outcome]
                  ELSE NoOwner
<1>1. NoOwner \in Owner
  BY BoundsAssumption DEF NoOwner, Owner, Time
<1>2. ASSUME k \in Key PROVE new \in Owner
  <2>1. owner[k] \in Owner
    BY <1>2 DEF TaskTypes
  <2>2. [owner[k] EXCEPT !.outcome = outcome] \in Owner
    BY <2>1 DEF Owner
  <2> QED
    BY <1>1, <2>2
<1>3. Finalized(t, outcome) = owner \/ Finalized(t, outcome) = [owner EXCEPT ![k] = new]
  BY DEF Finalized
<1> HIDE DEF k, new
<1> QED
  BY <1>2, <1>3 DEF TaskTypes

LEMMA ReleasedType ==
    ASSUME TaskTypes, NEW m
    PROVE  Released(m) \in [Conc -> Token \cup {None}]
BY DEF TaskTypes, Released

LEMMA EndedType ==
    ASSUME TaskTypes, NEW t \in Task, NEW outcome \in Terminal, NEW op \in BOOLEAN
    PROVE  /\ Ended(t, outcome, op) \in [Task -> Record]
           /\ Ended(t, outcome, op)[t].outcome = outcome
           /\ Ended(t, outcome, op)[t].spec = rec[t].spec
           /\ \A u \in Task \ {t} : Ended(t, outcome, op)[u] = rec[u]
<1> DEFINE new == [rec[t] EXCEPT !.outcome = outcome, !.op = op,
                                !.location = IF op THEN "dlq" ELSE "history"]
<1>1. /\ rec[t] \in Record
      /\ outcome \in Outcome
      /\ (IF op THEN "dlq" ELSE "history") \in Location
  BY DEF TaskTypes, Terminal, Outcome, Location
<1>2. new \in Record /\ new.outcome = outcome /\ new.spec = rec[t].spec
  BY <1>1 DEF Record
<1>3. Ended(t, outcome, op) = [rec EXCEPT ![t] = new]
  BY DEF Ended
<1> HIDE DEF new
<1> QED
  BY <1>2, <1>3 DEF TaskTypes

LEMMA RelocatedType ==
    ASSUME TaskTypes, NEW t \in Task, NEW location \in Location
    PROVE  /\ Relocated(t, location) \in [Task -> Record]
           /\ \A u \in Task : /\ Relocated(t, location)[u].outcome = rec[u].outcome
                              /\ Relocated(t, location)[u].spec = rec[u].spec
BY DEF TaskTypes, Relocated, Record

LEMMA DecrementedType ==
    ASSUME retryWait \in Nat, NEW n \in Nat
    PROVE  Decremented(n) \in Nat
BY DEF Decremented

LEMMA TimeHasZero == 0 \in Time
BY BoundsAssumption DEF Time

LEMMA WorkerPlace ==
    ASSUME NEW w \in Worker
    PROVE  w \in Place /\ w # "dlq" /\ w # "ready" /\ w # "delay"
BY DomainAssumption DEF Place, Container

LEMMA NewOwnerType ==
    ASSUME TaskTypes, NEW t \in Task, NEW s \in TaskSpec
    PROVE  NewOwner(t, s) \in [Key -> Owner]
<1>1. [task |-> t, outcome |-> "none", until |-> s.until] \in Owner
  BY DEF Owner, TaskSpec
<1> QED
  BY <1>1 DEF TaskTypes, NewOwner

LEMMA NewLatestType ==
    ASSUME TaskTypes, NEW s \in TaskSpec
    PROVE  NewLatest(s) \in [Sup -> Version \cup {None}]
<1>1. s.version \in Version
  BY DEF TaskSpec
<1> QED
  BY <1>1 DEF TaskTypes, NewLatest

LEMMA NewMessageType ==
    ASSUME NEW t \in Task, NEW s \in TaskSpec
    PROVE  NewMessage(t, s) \in Message /\ NewMessage(t, s).task = t
<1>1. s.notBefore \in Time
  BY DEF TaskSpec
<1>2. 0 \in 0..MaxAttempts
  BY BoundsAssumption
<1> QED
  BY <1>1, <1>2, TimeHasZero DEF NewMessage, Message, Reason

LEMMA NewRecordType ==
    ASSUME NEW s \in TaskSpec, NEW o \in Task \cup {None}
    PROVE  /\ NewRecord(s, o) \in Record
           /\ NewRecord(s, o).outcome = "live"
           /\ NewRecord(s, o).spec = s
<1>1. 0 \in 0..MaxAttempts
  BY BoundsAssumption
<1> QED
  BY <1>1 DEF NewRecord, Record, Outcome, Location, Destination

LEMMA CurrentOwnerType ==
    ASSUME TaskTypes, NEW s \in TaskSpec
    PROVE  CurrentOwner(s) \in Task \cup {None}
<1>1. s.key = None \/ s.key \in Key
  BY DEF TaskSpec
<1> QED
  BY <1>1 DEF TaskTypes, CurrentOwner, Owner

-----------------------------------------------------------------------------
\* Every script preserves TaskInv.

LEMMA EnqueueV2Inv ==
    ASSUME TaskInv, now \in Time,
           NEW t \in Task, NEW s \in Submitted, NEW allowNew \in BOOLEAN,
           EnqueueV2(t, s, allowNew)
    PROVE  TaskInv'
<1>1. s \in TaskSpec
  BY DomainAssumption
<1>2. NewRecord(s, CurrentOwner(s)) \in Record
      /\ NewRecord(s, CurrentOwner(s)).outcome = "live"
      /\ NewRecord(s, CurrentOwner(s)).spec = s
  BY <1>1, NewRecordType, CurrentOwnerType DEF TaskInv
<1>3. /\ rec' \in [Task -> Record]
      /\ rec'[t].outcome = "live" /\ rec'[t].spec = s
      /\ \A u \in Task \ {t} : rec'[u] = rec[u]
      /\ rec[t].outcome = "absent"
  BY <1>2 DEF TaskInv, TaskTypes, EnqueueV2, Exists
<1>4. /\ box' \in [Place -> SUBSET Message]
      /\ BoxFinite' /\ OneMessage' /\ MessageMatchesOutcome'
  <2>1. NewMessage(t, s) \in Message /\ NewMessage(t, s).task = t
    BY <1>1, NewMessageType
  <2>2. Destination(s) \in {"ready", "delay"}
    BY DEF Destination
  <2>3. box' = [box EXCEPT ![Destination(s)] = @ \cup {NewMessage(t, s)}]
    BY DEF EnqueueV2
  <2> HIDE DEF EnqueueV2
  <2> QED
    BY <1>3, <2>1, <2>2, <2>3, AddedMessage
<1>5. SpecKnown'
  BY <1>1, <1>3 DEF TaskInv, SpecKnown, Exists
<1>6. /\ owner' \in [Key -> Owner]
      /\ latest' \in [Sup -> Version \cup {None}]
      /\ lease' \in [Conc -> Token \cup {None}]
      /\ deadlines' \subseteq Task
      /\ retryWait' \in Nat
  BY <1>1, NewOwnerType, NewLatestType DEF TaskInv, TaskTypes, EnqueueV2, NewDeadlines
<1> QED
  BY <1>3, <1>4, <1>5, <1>6 DEF TaskInv, TaskTypes

\* A script that ends a task and takes its message away.
LEMMA EndsWithoutMessage ==
    ASSUME TaskInv,
           NEW p \in Place, NEW m \in box[p], NEW outcome \in Terminal,
           box' = Removed(p, m),
           rec' = Ended(m.task, outcome, FALSE),
           owner' = Finalized(m.task, outcome),
           lease' = lease \/ lease' = Released(m),
           deadlines' = deadlines \ {m.task},
           UNCHANGED <<latest, retryWait>>
    PROVE  TaskInv'
<1>1. m.task \in Task /\ Exists(m.task)
  BY MessageTask
<1>2. /\ rec' \in [Task -> Record]
      /\ rec'[m.task].outcome = outcome /\ outcome # "live"
      /\ rec'[m.task].spec = rec[m.task].spec
      /\ \A t \in Task \ {m.task} : rec'[t] = rec[t]
  BY <1>1, EndedType DEF TaskInv, Terminal
<1>3. /\ box' \in [Place -> SUBSET Message]
      /\ BoxFinite' /\ OneMessage' /\ MessageMatchesOutcome'
  BY <1>2, RemovedMessage
<1>4. SpecKnown'
  BY <1>1, <1>2, SpecKept DEF Exists
<1>5. /\ owner' \in [Key -> Owner]
      /\ lease' \in [Conc -> Token \cup {None}]
  BY <1>1, FinalizedType, ReleasedType DEF TaskInv, TaskTypes
<1> QED
  BY <1>2, <1>3, <1>4, <1>5 DEF TaskInv, TaskTypes

\* A script that fails a task and puts its message into the DLQ.
LEMMA FailsIntoDLQ ==
    ASSUME TaskInv,
           NEW p \in Place, NEW m \in box[p],
           box' = Moved(p, m, "dlq", m),
           rec' = Ended(m.task, "failed", TRUE),
           owner' = Finalized(m.task, "failed"),
           lease' = lease \/ lease' = Released(m),
           deadlines' = deadlines \ {m.task},
           UNCHANGED <<latest, retryWait>>
    PROVE  TaskInv'
<1>1. m \in Message /\ m.task \in Task /\ Exists(m.task) /\ "dlq" \in Place
  BY MessageTask DEF Place, Container
<1>2. /\ rec' \in [Task -> Record]
      /\ rec'[m.task].outcome = "failed"
      /\ rec'[m.task].spec = rec[m.task].spec
      /\ \A t \in Task \ {m.task} : rec'[t] = rec[t]
  BY <1>1, EndedType DEF TaskInv, Terminal
<1>3. /\ box' \in [Place -> SUBSET Message]
      /\ BoxFinite' /\ OneMessage' /\ MessageMatchesOutcome'
  BY <1>1, <1>2, MovedMessage
<1>4. SpecKnown'
  BY <1>1, <1>2, SpecKept DEF Exists
<1>5. /\ owner' \in [Key -> Owner]
      /\ lease' \in [Conc -> Token \cup {None}]
  BY <1>1, FinalizedType, ReleasedType DEF TaskInv, TaskTypes, Terminal
<1> QED
  BY <1>2, <1>3, <1>4, <1>5 DEF TaskInv, TaskTypes

\* A script that moves the message of a live task and leaves the task live.
LEMMA MovesLiveTask ==
    ASSUME TaskInv,
           NEW p \in Place, NEW q \in Place, p # "dlq", q # "dlq",
           NEW m \in box[p], NEW n \in Message, n.task = m.task,
           box' = Moved(p, m, q, n),
           rec' \in [Task -> Record],
           \A t \in Task : /\ rec'[t].outcome = rec[t].outcome
                           /\ rec'[t].spec = rec[t].spec,
           lease' \in [Conc -> Token \cup {None}],
           deadlines' \subseteq Task,
           retryWait' \in Nat,
           UNCHANGED <<owner, latest>>
    PROVE  TaskInv'
<1>1. m.task \in Task /\ rec[m.task].outcome = "live"
  BY MessageTask DEF Live
<1>2. /\ box' \in [Place -> SUBSET Message]
      /\ BoxFinite' /\ OneMessage' /\ MessageMatchesOutcome'
  BY <1>1, MovedMessage
<1>3. SpecKnown'
  BY SpecKept DEF Exists
<1> QED
  BY <1>2, <1>3 DEF TaskInv, TaskTypes

LEMMA BeginEndsInv ==
    ASSUME TaskInv, NEW w \in Worker, NEW m, BeginEnds(w, m)
    PROVE  TaskInv'
<1>1. w \in Place /\ m \in box[w]
  BY WorkerPlace DEF BeginEnds, BeginCode, Owned
<1>2. BeginCode(w, m) \in Terminal
  BY DEF BeginEnds, Terminal
<1> QED
  BY <1>1, <1>2, EndsWithoutMessage DEF BeginEnds

LEMMA BeginFailsBudgetInv ==
    ASSUME TaskInv, NEW w \in Worker, NEW m, BeginFailsBudget(w, m)
    PROVE  TaskInv'
<1>1. w \in Place /\ m \in box[w]
  BY WorkerPlace DEF BeginFailsBudget, BeginCode, Owned
<1> QED
  BY <1>1, FailsIntoDLQ DEF BeginFailsBudget

LEMMA BeginDefersInv ==
    ASSUME TaskInv, now \in Time, NEW w \in Worker, NEW m, BeginDefers(w, m)
    PROVE  TaskInv'
<1>1. w \in Place /\ w # "dlq" /\ m \in box[w] /\ "delay" \in Place
  BY WorkerPlace DEF BeginDefers, BeginCode, Owned, Place, Container
<1>2. m \in Message /\ m.task \in Task
  BY <1>1, MessageTask
<1>3. Later(ConcurrencyRetry) \in Time
  BY BoundsAssumption DEF Later, Time
<1>4. Deferred(m) \in Message /\ Deferred(m).task = m.task
  BY <1>2, <1>3 DEF Deferred, Message, Reason
<1>5. /\ rec' \in [Task -> Record]
      /\ \A t \in Task : rec'[t].outcome = rec[t].outcome /\ rec'[t].spec = rec[t].spec
  BY <1>2, RelocatedType DEF TaskInv, BeginDefers, Location
<1>6. /\ box' = Moved(w, m, "delay", Deferred(m))
      /\ lease' \in [Conc -> Token \cup {None}]
      /\ deadlines' \subseteq Task
      /\ retryWait' \in Nat
      /\ UNCHANGED <<owner, latest>>
  BY DEF TaskInv, TaskTypes, BeginDefers
<1> QED
  BY <1>1, <1>4, <1>5, <1>6, MovesLiveTask

LEMMA StartedType ==
    ASSUME TaskInv, NEW w \in Worker, NEW m, NEW tok \in Token,
           BeginCode(w, m) = "started"
    PROVE  /\ rec[m.task].attempt + 1 \in 1..MaxAttempts
           /\ Started(m, tok) \in Message
           /\ Started(m, tok).task = m.task
           /\ Started(m, tok).attempt >= 1
<1>1. m \in Message /\ m.task \in Task
  BY WorkerPlace, MessageTask DEF BeginCode, Owned
<1>2. rec[m.task].attempt \in 0..MaxAttempts /\ ~(rec[m.task].attempt >= MaxAttempts)
  BY <1>1 DEF TaskInv, TaskTypes, Record, BeginCode
<1>3. rec[m.task].attempt + 1 \in 1..MaxAttempts
  BY <1>2, BoundsAssumption
<1> DEFINE l == IF SpecOf(m).conc # None THEN tok ELSE None
           a == rec[m.task].attempt + 1
<1>4. Started(m, tok) = [m EXCEPT !.attempt = a, !.claim = tok, !.lease = l]
  BY DEF Started
<1>5. l \in Token \cup {None} /\ a \in 0..MaxAttempts /\ a >= 1
  BY <1>3, BoundsAssumption
<1> HIDE DEF l, a
<1>6. Started(m, tok) \in Message /\ Started(m, tok).task = m.task
      /\ Started(m, tok).attempt = a
  BY <1>1, <1>4, <1>5 DEF Message
<1> QED
  BY <1>3, <1>5, <1>6

LEMMA BeginStartsInv ==
    ASSUME TaskInv, NEW w \in Worker, NEW m, NEW tok \in Token,
           BeginStarts(w, m, tok)
    PROVE  TaskInv'
<1>1. w \in Place /\ w # "dlq" /\ m \in box[w] /\ BeginCode(w, m) = "started"
  BY WorkerPlace DEF BeginStarts, BeginCode, Owned
<1>2. m.task \in Task
  BY <1>1, MessageTask
<1>3. /\ rec[m.task].attempt + 1 \in 0..MaxAttempts
      /\ Started(m, tok) \in Message /\ Started(m, tok).task = m.task
  BY <1>1, StartedType
<1> DEFINE new == [rec[m.task] EXCEPT !.attempt = rec[m.task].attempt + 1, !.claim = tok,
                                      !.location = "processing"]
<1>4. rec[m.task] \in Record
  BY <1>2 DEF TaskInv, TaskTypes
<1>5. /\ new \in Record
      /\ new.outcome = rec[m.task].outcome /\ new.spec = rec[m.task].spec
  BY <1>3, <1>4 DEF Record, Location
<1>6. rec' = [rec EXCEPT ![m.task] = new]
  BY DEF BeginStarts
<1> HIDE DEF new
<1>7. /\ rec' \in [Task -> Record]
      /\ \A t \in Task : rec'[t].outcome = rec[t].outcome /\ rec'[t].spec = rec[t].spec
  BY <1>5, <1>6 DEF TaskInv, TaskTypes
<1>8. /\ box' = Moved(w, m, w, Started(m, tok))
      /\ lease' \in [Conc -> Token \cup {None}]
      /\ deadlines' \subseteq Task
      /\ retryWait' \in Nat
      /\ UNCHANGED <<owner, latest>>
  BY DEF TaskInv, TaskTypes, BeginStarts
<1> QED
  BY <1>1, <1>3, <1>7, <1>8, MovesLiveTask

LEMMA CompleteTaskInv ==
    ASSUME TaskInv, NEW w \in Worker, NEW m, CompleteTask(w, m)
    PROVE  TaskInv'
<1>1. w \in Place /\ m \in box[w]
  BY WorkerPlace DEF CompleteTask, Owned
<1> QED
  BY <1>1, EndsWithoutMessage DEF CompleteTask, Terminal

LEMMA FailTaskInv ==
    ASSUME TaskInv, NEW w \in Worker, NEW m, FailTask(w, m)
    PROVE  TaskInv'
<1>1. w \in Place /\ m \in box[w]
  BY WorkerPlace DEF FailTask, Owned
<1> QED
  BY <1>1, FailsIntoDLQ DEF FailTask

LEMMA RetrySkipsInv ==
    ASSUME TaskInv, NEW w \in Worker, NEW m, NEW runAt, RetrySkips(w, m, runAt)
    PROVE  TaskInv'
<1>1. w \in Place /\ m \in box[w]
  BY WorkerPlace DEF RetrySkips, Owned
<1> QED
  BY <1>1, EndsWithoutMessage DEF RetrySkips, Terminal

LEMMA RetrySchedulesInv ==
    ASSUME TaskInv, NEW w \in Worker, NEW m, NEW runAt \in Time,
           RetrySchedules(w, m, runAt)
    PROVE  TaskInv'
<1>1. w \in Place /\ w # "dlq" /\ m \in box[w] /\ "delay" \in Place
  BY WorkerPlace DEF RetrySchedules, Owned, Place, Container
<1>2. m \in Message /\ m.task \in Task
  BY <1>1, MessageTask
<1>3. Retried(m, runAt) \in Message /\ Retried(m, runAt).task = m.task
  BY <1>2 DEF Retried, Message, Reason
<1> DEFINE new == [rec[m.task] EXCEPT !.location = "delay", !.op = TRUE]
<1>4. rec[m.task] \in Record
  BY <1>2 DEF TaskInv, TaskTypes
<1>5. /\ new \in Record
      /\ new.outcome = rec[m.task].outcome /\ new.spec = rec[m.task].spec
  BY <1>4 DEF Record, Location
<1>6. rec' = [rec EXCEPT ![m.task] = new]
  BY DEF RetrySchedules
<1> HIDE DEF new
<1>7. /\ rec' \in [Task -> Record]
      /\ \A t \in Task : rec'[t].outcome = rec[t].outcome /\ rec'[t].spec = rec[t].spec
  BY <1>5, <1>6 DEF TaskInv, TaskTypes
<1>8. lease' \in [Conc -> Token \cup {None}]
  BY ReleasedType DEF TaskInv, RetrySchedules
<1>9. /\ box' = Moved(w, m, "delay", Retried(m, runAt))
      /\ deadlines' \subseteq Task
      /\ retryWait' \in Nat
      /\ UNCHANGED <<owner, latest>>
  BY <1>2 DEF TaskInv, TaskTypes, RetrySchedules, Indexed
<1> QED
  BY <1>1, <1>3, <1>7, <1>8, <1>9, MovesLiveTask

LEMMA ReturnUnstartedClaimInv ==
    ASSUME TaskInv, NEW w \in Worker, NEW m, m.attempt >= 1,
           ReturnUnstartedClaim(w, m)
    PROVE  TaskInv'
<1>1. w \in Place /\ w # "dlq" /\ m \in box[w] /\ "ready" \in Place
  BY WorkerPlace DEF ReturnUnstartedClaim, Returnable, Owned, Place, Container
<1>2. m \in Message /\ m.task \in Task
  BY <1>1, MessageTask
<1>3. m.attempt - 1 \in 0..MaxAttempts
  BY <1>2, BoundsAssumption DEF Message
<1> DEFINE new == [rec[m.task] EXCEPT !.attempt = m.attempt - 1, !.location = "ready"]
<1>4. rec[m.task] \in Record
  BY <1>2 DEF TaskInv, TaskTypes
<1>5. /\ new \in Record
      /\ new.outcome = rec[m.task].outcome /\ new.spec = rec[m.task].spec
  BY <1>3, <1>4 DEF Record, Location
<1>6. rec' = [rec EXCEPT ![m.task] = new]
  BY DEF ReturnUnstartedClaim
<1> HIDE DEF new
<1>7. /\ rec' \in [Task -> Record]
      /\ \A t \in Task : rec'[t].outcome = rec[t].outcome /\ rec'[t].spec = rec[t].spec
  BY <1>5, <1>6 DEF TaskInv, TaskTypes
<1>8. lease' \in [Conc -> Token \cup {None}]
  BY ReleasedType DEF TaskInv, ReturnUnstartedClaim
<1>9. /\ box' = Moved(w, m, "ready", m)
      /\ deadlines' \subseteq Task
      /\ retryWait' \in Nat
      /\ UNCHANGED <<owner, latest>>
  BY <1>2 DEF TaskInv, TaskTypes, ReturnUnstartedClaim, Indexed
<1> QED
  BY <1>1, <1>2, <1>7, <1>8, <1>9, MovesLiveTask

LEMMA MoveToReadyInv ==
    ASSUME TaskInv, NEW v \in Worker, NEW m \in box[v], MoveToReady(v, m)
    PROVE  TaskInv'
<1>1. v \in Place /\ v # "dlq" /\ "ready" \in Place
  BY WorkerPlace DEF Place, Container
<1>2. m \in Message /\ m.task \in Task
  BY <1>1, MessageTask
<1>3. /\ rec' \in [Task -> Record]
      /\ \A t \in Task : rec'[t].outcome = rec[t].outcome /\ rec'[t].spec = rec[t].spec
  BY <1>2, RelocatedType DEF TaskInv, MoveToReady, Location
<1>4. /\ box' = Moved(v, m, "ready", m)
      /\ lease' \in [Conc -> Token \cup {None}]
      /\ deadlines' \subseteq Task
      /\ retryWait' \in Nat
      /\ UNCHANGED <<owner, latest>>
  BY <1>2 DEF TaskInv, TaskTypes, MoveToReady, Indexed
<1> QED
  BY <1>1, <1>2, <1>3, <1>4, MovesLiveTask

LEMMA MoveDelayMessageInv ==
    ASSUME TaskInv, NEW m \in box["delay"], MoveDelayMessage(m)
    PROVE  TaskInv'
<1>1. "delay" \in Place /\ "ready" \in Place
  BY DEF Place, Container
<1>2. m \in Message /\ m.task \in Task
  BY <1>1, MessageTask
<1>3. /\ rec' \in [Task -> Record]
      /\ \A t \in Task : rec'[t].outcome = rec[t].outcome /\ rec'[t].spec = rec[t].spec
  BY <1>2, RelocatedType DEF TaskInv, MoveDelayMessage, Location
<1>4. retryWait' \in Nat
  BY DecrementedType DEF TaskInv, TaskTypes, MoveDelayMessage
<1>5. /\ box' = Moved("delay", m, "ready", m)
      /\ lease' \in [Conc -> Token \cup {None}]
      /\ deadlines' \subseteq Task
      /\ UNCHANGED <<owner, latest>>
  BY DEF TaskInv, TaskTypes, MoveDelayMessage
<1> QED
  BY <1>1, <1>2, <1>3, <1>4, <1>5, MovesLiveTask

\* The branches of the script for a task that is not live are never taken.
LEMMA RecoverAbandonedClaimInv ==
    ASSUME TaskInv, NEW w \in Worker, NEW m \in box[w],
           RecoverAbandonedClaim(w, m)
    PROVE  TaskInv'
<1>1. w \in Place /\ w # "dlq" /\ "ready" \in Place
  BY WorkerPlace DEF Place, Container
<1>2. m \in Message /\ m.task \in Task /\ rec[m.task].outcome = "live"
  BY <1>1, MessageTask DEF Live
<1> DEFINE a == rec[m.task].attempt - (IF Refundable(w, m) THEN 1 ELSE 0)
           new == [rec[m.task] EXCEPT !.location = "ready", !.attempt = a]
<1>3. rec[m.task] \in Record /\ rec[m.task].attempt \in 0..MaxAttempts
  BY <1>2 DEF TaskInv, TaskTypes, Record
<1>4. a \in 0..MaxAttempts
  <2>1. CASE Refundable(w, m)
    BY <2>1, <1>3, BoundsAssumption DEF Refundable
  <2>2. CASE ~Refundable(w, m)
    BY <2>2, <1>3, BoundsAssumption
  <2> QED
    BY <2>1, <2>2
<1>5. rec' = [rec EXCEPT ![m.task] = new]
  BY <1>2 DEF RecoverAbandonedClaim
<1> HIDE DEF a
<1>6. /\ new \in Record
      /\ new.outcome = rec[m.task].outcome /\ new.spec = rec[m.task].spec
  BY <1>3, <1>4 DEF Record, Location
<1> HIDE DEF new
<1>7. /\ rec' \in [Task -> Record]
      /\ \A t \in Task : rec'[t].outcome = rec[t].outcome /\ rec'[t].spec = rec[t].spec
  BY <1>5, <1>6 DEF TaskInv, TaskTypes
<1>8. lease' \in [Conc -> Token \cup {None}]
  BY ReleasedType DEF TaskInv, RecoverAbandonedClaim
<1>9. /\ box' = Moved(w, m, "ready", m)
      /\ deadlines' \subseteq Task
      /\ retryWait' \in Nat
      /\ UNCHANGED <<owner, latest>>
  BY <1>2 DEF TaskInv, TaskTypes, RecoverAbandonedClaim, Indexed
<1> QED
  BY <1>1, <1>2, <1>7, <1>8, <1>9, MovesLiveTask

LEMMA CancelOrPurgeInv ==
    ASSUME TaskInv, NEW p \in Place, NEW m \in box[p], NEW release \in BOOLEAN,
           CancelOrPurge(p, m, release)
    PROVE  TaskInv'
<1>1. m.task \in Task /\ Exists(m.task)
  BY MessageTask
<1>2. PurgedOutcome(m.task) \in Terminal
  BY DEF PurgedOutcome, Terminal, TaskInv, MessageMatchesOutcome, Live
<1>3. /\ rec' \in [Task -> Record]
      /\ rec'[m.task].outcome = PurgedOutcome(m.task)
      /\ PurgedOutcome(m.task) # "live"
      /\ rec'[m.task].spec = rec[m.task].spec
      /\ \A t \in Task \ {m.task} : rec'[t] = rec[t]
  <2>1. TaskTypes /\ FALSE \in BOOLEAN /\ rec' = Ended(m.task, PurgedOutcome(m.task), FALSE)
    BY DEF TaskInv, CancelOrPurge
  <2>2. PurgedOutcome(m.task) # "live"
    BY <1>2 DEF Terminal
  <2> QED
    BY <1>1, <1>2, <2>1, <2>2, EndedType
<1>4. /\ box' \in [Place -> SUBSET Message]
      /\ BoxFinite' /\ OneMessage' /\ MessageMatchesOutcome'
  BY <1>3, RemovedMessage DEF CancelOrPurge
<1>5. SpecKnown'
  BY <1>1, <1>3, SpecKept DEF Exists
<1>6. PurgedOwner(m.task, release) \in [Key -> Owner]
  <2>1. NoOwner \in Owner
    BY TimeHasZero DEF NoOwner, Owner
  <2> QED
    BY <1>1, <1>2, <2>1, FinalizedType DEF PurgedOwner, TaskInv, TaskTypes
<1>7. retryWait' \in Nat
  BY DecrementedType DEF TaskInv, TaskTypes, CancelOrPurge
<1>8. lease' \in [Conc -> Token \cup {None}]
  BY ReleasedType DEF TaskInv, CancelOrPurge
<1>9. /\ owner' = PurgedOwner(m.task, release)
      /\ deadlines' \subseteq Task
      /\ latest' = latest
  BY DEF TaskInv, TaskTypes, CancelOrPurge
<1> QED
  BY <1>3, <1>4, <1>5, <1>6, <1>7, <1>8, <1>9 DEF TaskInv, TaskTypes

LEMMA ReplaySpecType ==
    ASSUME TaskTypes, NEW t \in Task, rec[t].spec # None,
           NEW deadline \in Time \cup {None}
    PROVE  ReplaySpec(t, deadline) \in TaskSpec
<1>1. rec[t].spec \in TaskSpec
  BY DEF TaskTypes, Record
<1> DEFINE d == IF deadline = None THEN rec[t].spec.deadline ELSE deadline
<1>2. d \in Time \cup {None}
  BY <1>1 DEF TaskSpec
<1>3. ReplaySpec(t, deadline) = [rec[t].spec EXCEPT !.notBefore = 0, !.deadline = d]
  BY <1>1 DEF ReplaySpec, TaskSpec
<1> HIDE DEF d
<1> QED
  BY <1>1, <1>2, <1>3, TimeHasZero DEF TaskSpec

\* move_retry moves a batch of the due messages at once.
LEMMA MoveDueDelayInv ==
    ASSUME TaskInv, MoveDueDelay
    PROVE  TaskInv'
<1>1. /\ "delay" \in Place /\ "ready" \in Place
      /\ Due \subseteq box["delay"]
  BY DEF Due, Place, Container
<1>2. /\ UNCHANGED <<owner, latest, lease, deadlines>>
      /\ \E batch \in SUBSET Due :
            /\ box' = [box EXCEPT !["delay"] = @ \ batch, !["ready"] = @ \cup batch]
            /\ rec' = [t \in Task |-> IF \E m \in batch : m.task = t
                                      THEN [rec[t] EXCEPT !.location = "ready"]
                                      ELSE rec[t]]
            /\ retryWait' = Decremented(Cardinality({m \in batch : m.reason = "retry"}))
  BY DEF MoveDueDelay
<1>0. PICK D \in SUBSET Due :
         /\ box' = [box EXCEPT !["delay"] = @ \ D, !["ready"] = @ \cup D]
         /\ rec' = [t \in Task |-> IF \E m \in D : m.task = t
                                   THEN [rec[t] EXCEPT !.location = "ready"]
                                   ELSE rec[t]]
         /\ retryWait' = Decremented(Cardinality({m \in D : m.reason = "retry"}))
  BY <1>2
<1>3. D \subseteq box["delay"] /\ box' = [box EXCEPT !["delay"] = @ \ D, !["ready"] = @ \cup D]
  BY <1>0, <1>1
<1>4. retryWait' \in Nat
  <2>1. IsFiniteSet(box["delay"])
    BY <1>1 DEF TaskInv, BoxFinite
  <2>2. {m \in D : m.reason = "retry"} \subseteq box["delay"]
    BY <1>3
  <2>3. Cardinality({m \in D : m.reason = "retry"}) \in Nat
    BY <2>1, <2>2, FS_Subset, FS_CardinalityType
  <2> QED
    BY <1>0, <2>3, DecrementedType DEF TaskInv, TaskTypes
<1>5. /\ rec' \in [Task -> Record]
      /\ \A t \in Task : rec'[t].outcome = rec[t].outcome /\ rec'[t].spec = rec[t].spec
  <2>1. \A t \in Task : /\ rec[t] \in Record
                        /\ [rec[t] EXCEPT !.location = "ready"] \in Record
                        /\ [rec[t] EXCEPT !.location = "ready"].outcome = rec[t].outcome
                        /\ [rec[t] EXCEPT !.location = "ready"].spec = rec[t].spec
    BY DEF TaskInv, TaskTypes, Record, Location
  <2> QED
    BY <1>0, <2>1
<1>6. box' \in [Place -> SUBSET Message]
  BY <1>1, <1>3 DEF TaskInv, TaskTypes
<1>7. BoxFinite'
  <2>1. IsFiniteSet(box["delay"]) /\ IsFiniteSet(box["ready"])
    BY <1>1 DEF TaskInv, BoxFinite
  <2>2. box["delay"] \ D \subseteq box["delay"]
    OBVIOUS
  <2>3. IsFiniteSet(D) /\ IsFiniteSet(box["delay"] \ D)
    BY <1>3, <2>1, <2>2, FS_Subset
  <2>4. IsFiniteSet(box["ready"] \cup D)
    BY <2>1, <2>3, FS_Union
  <2>5. \A r \in Place : box'[r] \in {box[r], box["delay"] \ D, box["ready"] \cup D}
    BY <1>3 DEF TaskInv, TaskTypes
  <2> QED
    BY <2>3, <2>4, <2>5 DEF TaskInv, BoxFinite
<1>8. \A r \in Place : \A x \in box'[r] :
         \/ x \in box[r] /\ ~(r = "delay" /\ x \in D)
         \/ r = "ready" /\ x \in D
  BY <1>1, <1>3 DEF TaskInv, TaskTypes
<1>9. OneMessage'
  <2> SUFFICES ASSUME NEW p \in Place, NEW q \in Place,
                      NEW m \in box'[p], NEW n \in box'[q], m.task = n.task
               PROVE  p = q /\ m = n
    BY DEF OneMessage
  <2>1. m = n
    <3>1. PICK u \in Place : m \in box[u]
      BY <1>1, <1>3, <1>8
    <3>2. PICK v \in Place : n \in box[v]
      BY <1>1, <1>3, <1>8
    <3> QED
      BY <3>1, <3>2 DEF TaskInv, OneMessage
  <2>2. CASE m \in D
    <3>1. \A r \in Place : m \in box[r] => r = "delay"
      BY <1>1, <1>3, <2>2 DEF TaskInv, OneMessage
    <3> QED
      BY <1>8, <2>1, <2>2, <3>1
  <2>3. CASE m \notin D
    BY <1>8, <2>1, <2>3 DEF TaskInv, OneMessage
  <2> QED
    BY <2>1, <2>2, <2>3
<1>10. MessageMatchesOutcome'
  <2>1. \A p \in Place : \A m \in box'[p] :
           rec'[m.task].outcome = (IF p = "dlq" THEN "failed" ELSE "live")
    <3>1. \A p \in Place : \A m \in box'[p] :
             m.task \in Task /\ rec[m.task].outcome = (IF p = "dlq" THEN "failed" ELSE "live")
      BY <1>1, <1>3, <1>8, MessageTask DEF Live, TaskInv, MessageMatchesOutcome
    <3> QED
      BY <1>5, <3>1
  <2>2. ASSUME NEW t \in Task, Live(t)'
        PROVE  \E p \in Place \ {"dlq"} : \E m \in box'[p] : m.task = t
    <3>1. Live(t)
      BY <1>5, <2>2 DEF Live
    <3>2. PICK p \in Place \ {"dlq"} : \E m \in box[p] : m.task = t
      BY <3>1 DEF TaskInv, MessageMatchesOutcome
    <3>3. PICK m \in box[p] : m.task = t
      BY <3>2
    <3>4. m \in box'[p] \/ m \in box'["ready"]
      BY <1>1, <1>3, <3>3 DEF TaskInv, TaskTypes
    <3> QED
      BY <1>1, <3>3, <3>4
  <2> QED
    BY <2>1, <2>2 DEF MessageMatchesOutcome
<1>11. SpecKnown'
  BY <1>5, SpecKept DEF Exists
<1> QED
  BY <1>2, <1>4, <1>5, <1>6, <1>7, <1>9, <1>10, <1>11 DEF TaskInv, TaskTypes

\* A replay adds one message, of a new task; what it takes comes from the DLQ,
\* where no live task has its message.
LEMMA ReplayTaskInv ==
    ASSUME TaskInv,
           NEW t \in Task, NEW u \in Task, NEW s \in TaskSpec,
           NEW source,
           ReplayTask(t, u, s, source)
    PROVE  TaskInv'
<1>1. /\ "dlq" \in Place /\ "ready" \in Place
      /\ source \subseteq box["dlq"]
      /\ rec[t].outcome \in {"failed", "skipped", "cancelled"}
      /\ rec[u].outcome = "absent"
      /\ u # t
  BY DEF ReplayTask, Exists, Place, Container
<1>2. NewRecord(s, None) \in Record
      /\ NewRecord(s, None).outcome = "live"
      /\ NewRecord(s, None).spec = s
  BY NewRecordType
<1>3. NewMessage(u, s) \in Message /\ NewMessage(u, s).task = u
  BY NewMessageType
<1> DEFINE old == [rec[t] EXCEPT !.op = FALSE, !.location = "history"]
           new == NewRecord(s, None)
           n == NewMessage(u, s)
<1>4. old \in Record /\ old.outcome = rec[t].outcome /\ old.spec = rec[t].spec
  <2>1. rec[t] \in Record
    BY DEF TaskInv, TaskTypes
  <2> QED
    BY <2>1 DEF Record, Location
<1>5. /\ rec' = [rec EXCEPT ![t] = old, ![u] = new]
      /\ box' = [box EXCEPT !["dlq"] = @ \ source, !["ready"] = @ \cup {n}]
  BY DEF ReplayTask
<1> HIDE DEF old, new, n
<1>6. /\ rec' \in [Task -> Record]
      /\ rec'[u] = new
      /\ \A v \in Task \ {u} : /\ rec'[v].outcome = rec[v].outcome
                               /\ rec'[v].spec = rec[v].spec
  BY <1>1, <1>2, <1>4, <1>5 DEF TaskInv, TaskTypes, new
<1>7. n \in Message /\ n.task = u /\ new.outcome = "live" /\ new.spec = s
  BY <1>2, <1>3 DEF n, new
<1>8. box' \in [Place -> SUBSET Message]
  BY <1>5, <1>7 DEF TaskInv, TaskTypes
<1>9. BoxFinite'
  <2>1. box["dlq"] \ source \subseteq box["dlq"]
    OBVIOUS
  <2>2. IsFiniteSet(box["dlq"]) /\ IsFiniteSet(box["ready"])
    BY <1>1 DEF TaskInv, BoxFinite
  <2>3. IsFiniteSet(box["dlq"] \ source) /\ IsFiniteSet(box["ready"] \cup {n})
    BY <2>1, <2>2, FS_Subset, FS_AddElement
  <2>4. \A r \in Place : box'[r] \in {box[r], box["dlq"] \ source, box["ready"] \cup {n}}
    BY <1>1, <1>5 DEF TaskInv, TaskTypes
  <2> QED
    BY <2>3, <2>4 DEF TaskInv, BoxFinite
<1>10. \A r \in Place : \A x \in box[r] : x.task # u /\ x.task \in Task
  BY <1>1, MessageTask DEF Exists
<1>11. \A r \in Place : \A x \in box'[r] :
          \/ x = n /\ r = "ready"
          \/ x \in box[r] /\ x.task # u
  BY <1>1, <1>5, <1>10 DEF TaskInv, TaskTypes
<1>12. OneMessage'
  BY <1>7, <1>11 DEF TaskInv, OneMessage
<1>13. MessageMatchesOutcome'
  <2>1. \A p \in Place : \A m \in box'[p] :
           rec'[m.task].outcome = (IF p = "dlq" THEN "failed" ELSE "live")
    BY <1>6, <1>7, <1>10, <1>11 DEF TaskInv, MessageMatchesOutcome
  <2>2. ASSUME NEW v \in Task, Live(v)'
        PROVE  \E p \in Place \ {"dlq"} : \E m \in box'[p] : m.task = v
    <3>1. CASE v = u
      <4>1. n \in box'["ready"]
        BY <1>1, <1>5 DEF TaskInv, TaskTypes
      <4> QED
        BY <1>1, <1>7, <3>1, <4>1
    <3>2. CASE v # u
      <4>1. Live(v)
        BY <1>6, <2>2, <3>2 DEF Live
      <4>2. PICK p \in Place \ {"dlq"} : \E m \in box[p] : m.task = v
        BY <4>1 DEF TaskInv, MessageMatchesOutcome
      <4>3. \A m \in box[p] : m \in box'[p]
        BY <1>1, <1>5 DEF TaskInv, TaskTypes
      <4> QED
        BY <4>2, <4>3
    <3> QED
      BY <3>1, <3>2
  <2> QED
    BY <2>1, <2>2 DEF MessageMatchesOutcome
<1>14. SpecKnown'
  <2>1. \A v \in Task \ {u} : Exists(v)' => Exists(v)
    BY <1>6 DEF Exists
  <2> QED
    BY <1>6, <1>7, <2>1 DEF TaskInv, SpecKnown
<1>15. /\ owner' \in [Key -> Owner]
       /\ latest' \in [Sup -> Version \cup {None}]
       /\ lease' \in [Conc -> Token \cup {None}]
       /\ deadlines' \subseteq Task
       /\ retryWait' \in Nat
  BY NewOwnerType, NewLatestType DEF TaskInv, TaskTypes, ReplayTask, NewDeadlines
<1> QED
  BY <1>6, <1>8, <1>9, <1>12, <1>13, <1>14, <1>15 DEF TaskInv, TaskTypes

\* TaskInv reads nothing but taskVars.
LEMMA TaskInvStutter ==
    ASSUME TaskInv, UNCHANGED taskVars
    PROVE  TaskInv'
BY DEF taskVars, TaskInv, TaskTypes, BoxFinite, SpecKnown, Exists, OneMessage,
       MessageMatchesOutcome, Live

LEMMA FailInv ==
    ASSUME TaskInv, NEW w \in Worker, NEW m, NEW permanent \in BOOLEAN,
           Fail(w, m, permanent)
    PROVE  TaskInv'
<1>1. CASE FailTask(w, m)
  BY <1>1, FailTaskInv
<1>2. CASE \E runAt \in Time : RetrySkips(w, m, runAt) \/ RetrySchedules(w, m, runAt)
  BY <1>2, RetrySkipsInv, RetrySchedulesInv
<1>3. CASE NotOwned(w, m)
  BY <1>3, TaskInvStutter DEF NotOwned
<1> QED
  BY <1>1, <1>2, <1>3 DEF Fail

LEMMA SettleInv ==
    ASSUME TaskInv, NEW w \in Worker, Settle(w)
    PROVE  TaskInv'
BY CompleteTaskInv, FailInv DEF Settle

-----------------------------------------------------------------------------
\* LocalInv under the changes of one worker.

LEMMA LocalInvKept ==
    ASSUME LocalInv, now' \in Time, heartbeat' \subseteq Worker,
           registry' \subseteq Worker, requeueing' \subseteq Task,
           late' \subseteq Worker, UNCHANGED <<localVars, runs>>
    PROVE  LocalInv'
BY DEF LocalInv, LocalTypes, ClaimNumbered, localVars

\* Worker w goes to another stage, with the messages ms in hand.
LEMMA LocalInvGoto ==
    ASSUME LocalInv,
           NEW w \in Worker, NEW stage \in Stage, NEW ms \in SUBSET Message,
           Goto(w, stage),
           hand' = [hand EXCEPT ![w] = ms],
           stage \in {"claimed", "running"} => \A m \in ms : m.attempt >= 1,
           UNCHANGED <<clockVars, requeueing>>,
           heartbeat' \subseteq Worker, registry' \subseteq Worker,
           stop' \subseteq Worker, late' \subseteq Worker,
           spent' \in [Worker -> SUBSET Task],
           runs' \in [Task -> 0..(MaxAttempts + 1)]
    PROVE  LocalInv'
<1>1. LocalTypes'
  BY DEF LocalInv, LocalTypes, Goto, clockVars
<1>2. ClaimNumbered'
  <2> SUFFICES ASSUME NEW v \in Worker, pc'[v] \in {"claimed", "running"},
                      NEW m \in hand'[v]
               PROVE  m.attempt >= 1
    BY DEF ClaimNumbered
  <2>1. CASE v = w
    BY <2>1 DEF LocalInv, LocalTypes, Goto
  <2>2. CASE v # w
    <3>1. pc'[v] = pc[v] /\ hand'[v] = hand[v]
      BY <2>2 DEF LocalInv, LocalTypes, Goto
    <3> QED
      BY <3>1 DEF LocalInv, ClaimNumbered
  <2> QED
    BY <2>1, <2>2
<1> QED
  BY <1>1, <1>2 DEF LocalInv

\* The stages at which a worker holds no claim.
LEMMA LocalInvIdle ==
    ASSUME LocalInv,
           NEW w \in Worker, NEW stage \in Stage,
           Goto(w, stage), Holds(w, {}),
           UNCHANGED <<clockVars, liveVars, runs, requeueing>>,
           stop' \subseteq Worker,
           spent' \in [Worker -> SUBSET Task]
    PROVE  LocalInv'
<1>1. /\ hand' = [hand EXCEPT ![w] = {}]
      /\ late' \subseteq Worker
      /\ heartbeat' \subseteq Worker /\ registry' \subseteq Worker
      /\ runs' \in [Task -> 0..(MaxAttempts + 1)]
      /\ UNCHANGED <<clockVars, requeueing>>
  BY DEF Holds, LocalInv, LocalTypes, liveVars
<1>2. {} \in SUBSET Message /\ \A m \in {} : m.attempt >= 1
  OBVIOUS
<1> QED
  BY <1>1, <1>2, LocalInvGoto

\* A change of stage that keeps the hand, towards a stage without a claim.
LEMMA LocalInvStage ==
    ASSUME LocalInv,
           NEW w \in Worker, NEW stage \in Stage \ {"claimed", "running"},
           Goto(w, stage), UNCHANGED <<clockVars, hand, ghostVars, requeueing>>,
           heartbeat' \subseteq Worker, registry' \subseteq Worker,
           stop' \subseteq Worker,
           spent' \in [Worker -> SUBSET Task]
    PROVE  LocalInv'
<1>1. /\ hand' = [hand EXCEPT ![w] = hand[w]]
      /\ hand[w] \in SUBSET Message
      /\ late' \subseteq Worker
      /\ runs' \in [Task -> 0..(MaxAttempts + 1)]
  BY DEF LocalInv, LocalTypes, ghostVars
<1> QED
  BY <1>1, LocalInvGoto

-----------------------------------------------------------------------------
\* Every action preserves Inv.

\* Actions of a worker that leave Redis lists, records and owners alone.
LEMMA QuietWorkerInv ==
    ASSUME Inv, NEW w \in Worker,
           \/ Start(w) \/ Ready(w) \/ HeartbeatLoop(w) \/ Stop(w) \/ Exit(w)
           \/ Poll(w) \/ PopNone(w) \/ PollRaises(w) \/ Admit(w)
           \/ ReturnRaises(w) \/ FinishAbandoned(w)
    PROVE  Inv'
<1> USE DEF Inv
<1>1. TaskInv'
  BY TaskInvStutter DEF Start, Ready, HeartbeatLoop, Stop, Exit, Poll, PopNone,
     PollRaises, Admit, ReturnRaises, FinishAbandoned
<1>2. CASE Start(w)
  <2>1. heartbeat' \subseteq Worker /\ registry' \subseteq Worker
        /\ stop' \subseteq Worker /\ spent' \in [Worker -> SUBSET Task]
    BY <1>2 DEF Start, LocalInv, LocalTypes, liveVars
  <2>2. Goto(w, "starting") /\ UNCHANGED <<clockVars, hand, ghostVars, requeueing>>
    BY <1>2 DEF Start
  <2> QED
    BY <1>1, <2>1, <2>2, LocalInvStage DEF Stage
<1>3. CASE Ready(w) \/ Poll(w)
  <2>1. heartbeat' \subseteq Worker /\ registry' \subseteq Worker
        /\ stop' \subseteq Worker /\ spent' \in [Worker -> SUBSET Task]
    BY <1>3 DEF Ready, Poll, LocalInv, LocalTypes
  <2>2. \E stage \in {"poll", "recover"} : Goto(w, stage)
    BY <1>3 DEF Ready, Poll
  <2>3. UNCHANGED <<clockVars, hand, ghostVars, requeueing>>
    BY <1>3 DEF Ready, Poll
  <2> QED
    BY <1>1, <2>1, <2>2, <2>3, LocalInvStage DEF Stage
<1>4. CASE Exit(w)
  <2>1. heartbeat' \subseteq Worker /\ registry' \subseteq Worker
        /\ stop' \subseteq Worker /\ spent' \in [Worker -> SUBSET Task]
    BY <1>4 DEF Exit, LocalInv, LocalTypes
  <2>2. Goto(w, "down") /\ UNCHANGED <<clockVars, hand, ghostVars, requeueing>>
    BY <1>4 DEF Exit
  <2> QED
    BY <1>1, <2>1, <2>2, LocalInvStage DEF Stage
<1>5. CASE HeartbeatLoop(w)
  <2>1. now' \in Time /\ heartbeat' \subseteq Worker /\ registry' \subseteq Worker
        /\ requeueing' \subseteq Task /\ late' \subseteq Worker
        /\ UNCHANGED <<localVars, runs>>
    BY <1>5 DEF HeartbeatLoop, LocalInv, LocalTypes, clockVars, ghostVars
  <2> QED
    BY <1>1, <2>1, LocalInvKept
<1>6. CASE Stop(w)
  BY <1>1, <1>6 DEF Stop, LocalInv, LocalTypes, ClaimNumbered, clockVars, liveVars,
     ghostVars
<1>7. CASE PopNone(w) \/ PollRaises(w) \/ ReturnRaises(w) \/ FinishAbandoned(w)
  <2>1. BackToPoll(w)
    BY <1>7 DEF PopNone, PollRaises, ReturnRaises, FinishAbandoned
  <2>2. stop' \subseteq Worker /\ UNCHANGED <<clockVars, liveVars, runs, requeueing>>
    BY <1>7 DEF PopNone, PollRaises, ReturnRaises, FinishAbandoned, LocalInv, LocalTypes
  <2>3. spent' \in [Worker -> SUBSET Task]
    <3>1. {m.task : m \in hand[w]} \subseteq Task
      BY DEF LocalInv, LocalTypes, Message
    <3> QED
      BY <1>7, <3>1 DEF PopNone, PollRaises, ReturnRaises, FinishAbandoned, LocalInv,
         LocalTypes
  <2> QED
    BY <1>1, <2>1, <2>2, <2>3, LocalInvIdle DEF BackToPoll, Stage
<1>8. CASE Admit(w)
  <2>1. hand' = [hand EXCEPT ![w] = hand[w]] /\ hand[w] \in SUBSET Message
        /\ \A m \in hand[w] : m.attempt >= 1
    BY <1>8 DEF Admit, LocalInv, LocalTypes, ClaimNumbered
  <2>2. /\ Goto(w, "running")
        /\ UNCHANGED <<clockVars, requeueing>>
        /\ heartbeat' \subseteq Worker /\ registry' \subseteq Worker
        /\ stop' \subseteq Worker /\ late' \subseteq Worker
        /\ spent' \in [Worker -> SUBSET Task]
    BY <1>8 DEF Admit, LocalInv, LocalTypes, liveVars
  <2>3. runs' \in [Task -> 0..(MaxAttempts + 1)]
    <3>1. PICK m \in hand[w] :
             runs' = [runs EXCEPT ![m.task] = IF @ <= MaxAttempts THEN @ + 1 ELSE @]
      BY <1>8 DEF Admit
    <3>2. m.task \in Task
      BY DEF LocalInv, LocalTypes, Message
    <3> QED
      BY <3>1, <3>2, BoundsAssumption DEF LocalInv, LocalTypes
  <2> QED
    BY <1>1, <2>1, <2>2, <2>3, LocalInvGoto DEF Stage
<1> QED
  BY <1>2, <1>3, <1>4, <1>5, <1>6, <1>7, <1>8

\* BRPOPLPUSH moves a message of a live task and changes no record.
LEMMA PoppedInv ==
    ASSUME TaskInv, NEW w \in Worker, NEW m \in box["ready"],
           box' = Moved("ready", m, w, m),
           UNCHANGED <<rec, owner, latest, lease, deadlines, retryWait>>
    PROVE  TaskInv' /\ m \in Message
<1>1. "ready" \in Place /\ w \in Place /\ w # "dlq"
  BY WorkerPlace DEF Place, Container
<1>2. m \in Message
  BY <1>1, MessageTask
<1>3. /\ rec' \in [Task -> Record]
      /\ \A t \in Task : rec'[t].outcome = rec[t].outcome /\ rec'[t].spec = rec[t].spec
      /\ lease' \in [Conc -> Token \cup {None}]
      /\ deadlines' \subseteq Task
      /\ retryWait' \in Nat
  BY DEF TaskInv, TaskTypes
<1> QED
  BY <1>1, <1>2, <1>3, MovesLiveTask

LEMMA PopInv ==
    ASSUME Inv, NEW w \in Worker, Pop(w) \/ PopLost(w)
    PROVE  Inv'
<1> USE DEF Inv
<1>1. CASE Pop(w)
  <2>1. PICK m \in box["ready"] : box' = Moved("ready", m, w, m) /\ Holds(w, {m})
    BY <1>1 DEF Pop
  <2>2. TaskInv' /\ m \in Message
    BY <1>1, <2>1, PoppedInv DEF Pop
  <2>3. /\ Goto(w, "popped")
        /\ hand' = [hand EXCEPT ![w] = {m}]
        /\ UNCHANGED <<clockVars, requeueing>>
        /\ heartbeat' \subseteq Worker /\ registry' \subseteq Worker
        /\ stop' \subseteq Worker /\ late' \subseteq Worker
        /\ spent' \in [Worker -> SUBSET Task]
        /\ runs' \in [Task -> 0..(MaxAttempts + 1)]
    BY <1>1, <2>1 DEF Pop, Holds, LocalInv, LocalTypes, liveVars
  <2>4. "popped" \in Stage /\ "popped" \notin {"claimed", "running"}
        /\ {m} \in SUBSET Message
    BY <2>2 DEF Stage
  <2> QED
    BY <2>2, <2>3, <2>4, LocalInvGoto
<1>2. CASE PopLost(w)
  <2>1. TaskInv'
    BY <1>2, PoppedInv DEF PopLost
  <2>2. /\ Goto(w, "poll") /\ Holds(w, {})
        /\ UNCHANGED <<clockVars, liveVars, runs, requeueing>>
        /\ stop' \subseteq Worker
        /\ spent' \in [Worker -> SUBSET Task]
    BY <1>2 DEF PopLost, BackToPoll, LocalInv, LocalTypes
  <2> QED
    BY <2>1, <2>2, LocalInvIdle DEF Stage
<1> QED
  BY <1>1, <1>2

LEMMA RecoveryInv ==
    ASSUME Inv, NEW w \in Worker,
           \/ RecoverAbandoned(w) \/ MoveRetry(w)
           \/ \E v \in Worker : RecoverStale(w, v)
    PROVE  Inv'
<1> USE DEF Inv
<1>1. CASE RecoverAbandoned(w) \/ \E v \in Worker : RecoverStale(w, v)
  <2>1. TaskInv'
    <3>1. CASE RecoverAbandoned(w)
      <4>1. PICK m \in box[w] : RecoverAbandonedClaim(w, m)
        BY <3>1 DEF RecoverAbandoned
      <4> QED
        BY <4>1, RecoverAbandonedClaimInv
    <3>2. CASE \E v \in Worker : RecoverStale(w, v)
      <4>1. PICK v \in Worker : \E m \in box[v] : MoveToReady(v, m)
        BY <3>2 DEF RecoverStale
      <4>2. PICK m \in box[v] : MoveToReady(v, m)
        BY <4>1
      <4> QED
        BY <4>2, MoveToReadyInv
    <3> QED
      BY <1>1, <3>1, <3>2
  <2>2. /\ UNCHANGED <<localVars, runs>>
        /\ now' \in Time /\ heartbeat' \subseteq Worker /\ registry' \subseteq Worker
        /\ requeueing' \subseteq Task /\ late' \subseteq Worker
    BY <1>1 DEF RecoverAbandoned, RecoverStale, LocalInv, LocalTypes, clockVars,
       liveVars, ghostVars
  <2> QED
    BY <2>1, <2>2, LocalInvKept
<1>2. CASE MoveRetry(w)
  <2>1. TaskInv'
    BY <1>2, MoveDueDelayInv DEF MoveRetry
  <2>2. /\ Goto(w, "pop") /\ UNCHANGED <<clockVars, hand, ghostVars, requeueing>>
        /\ heartbeat' \subseteq Worker /\ registry' \subseteq Worker
        /\ stop' \subseteq Worker /\ spent' \in [Worker -> SUBSET Task]
    BY <1>2 DEF MoveRetry, LocalInv, LocalTypes, liveVars
  <2> QED
    BY <2>1, <2>2, LocalInvStage DEF Stage
<1> QED
  BY <1>1, <1>2

LEMMA BeginInv ==
    ASSUME Inv, NEW w \in Worker, BeginOther(w) \/ Begin(w) \/ BeginLost(w)
    PROVE  Inv'
<1> USE DEF Inv
<1>1. now \in Time
  BY DEF LocalInv, LocalTypes
<1>2. CASE BeginOther(w) \/ BeginLost(w)
  <2>1. TaskInv'
    <3>1. PICK m \in hand[w] :
             \/ BeginEnds(w, m) \/ BeginFailsBudget(w, m)
             \/ BeginDefers(w, m) \/ BeginIgnores(w, m)
             \/ \E tok \in Token : BeginStarts(w, m, tok)
      BY <1>2 DEF BeginOther, BeginLost
    <3>2. BeginIgnores(w, m) => TaskInv'
      BY TaskInvStutter DEF BeginIgnores
    <3> QED
      BY <1>1, <3>1, <3>2, BeginEndsInv, BeginFailsBudgetInv, BeginDefersInv,
         BeginStartsInv
  <2>2. /\ \E stage \in {"pop", "poll"} : Goto(w, stage)
        /\ Holds(w, {})
        /\ UNCHANGED <<clockVars, liveVars, runs, requeueing>>
        /\ stop' \subseteq Worker
        /\ spent' \in [Worker -> SUBSET Task]
    BY <1>2 DEF BeginOther, BeginLost, BackToPoll, LocalInv, LocalTypes
  <2> QED
    BY <2>1, <2>2, LocalInvIdle DEF Stage
<1>3. CASE Begin(w)
  <2>1. PICK m \in hand[w], tok \in Token :
           BeginStarts(w, m, tok) /\ Holds(w, {Started(m, tok)})
    BY <1>3 DEF Begin
  <2>2. TaskInv'
    BY <2>1, BeginStartsInv
  <2>3. Started(m, tok) \in Message /\ Started(m, tok).attempt >= 1
    BY <2>1, StartedType DEF BeginStarts
  <2>4. /\ Goto(w, "claimed")
        /\ hand' = [hand EXCEPT ![w] = {Started(m, tok)}]
        /\ UNCHANGED <<clockVars, requeueing>>
        /\ heartbeat' \subseteq Worker /\ registry' \subseteq Worker
        /\ stop' \subseteq Worker /\ late' \subseteq Worker
        /\ spent' \in [Worker -> SUBSET Task]
        /\ runs' \in [Task -> 0..(MaxAttempts + 1)]
    BY <1>3, <2>1 DEF Begin, Holds, LocalInv, LocalTypes, liveVars
  <2>5. "claimed" \in Stage
        /\ {Started(m, tok)} \in SUBSET Message
        /\ \A n \in {Started(m, tok)} : n.attempt >= 1
    BY <2>3 DEF Stage
  <2> QED
    BY <2>2, <2>4, <2>5, LocalInvGoto
<1> QED
  BY <1>2, <1>3

LEMMA ClaimInv ==
    ASSUME Inv, NEW w \in Worker,
           \/ PayloadFails(w) \/ PayloadFailLost(w) \/ ReturnUnstarted(w)
           \/ Finish(w) \/ FinishLost(w)
    PROVE  Inv'
<1> USE DEF Inv
<1>1. TaskInv'
  <2>1. CASE PayloadFails(w)
    BY <2>1, FailInv DEF PayloadFails
  <2>2. CASE PayloadFailLost(w)
    <3>1. PICK m \in hand[w] :
             UNCHANGED taskVars \/ \E permanent \in BOOLEAN : Fail(w, m, permanent)
      BY <2>2 DEF PayloadFailLost
    <3>2. CASE UNCHANGED taskVars
      BY <3>2, TaskInvStutter
    <3>3. CASE \E permanent \in BOOLEAN : Fail(w, m, permanent)
      BY <3>3, FailInv
    <3> QED
      BY <3>1, <3>2, <3>3
  <2>3. CASE ReturnUnstarted(w)
    <3>1. \A m \in hand[w] : m.attempt >= 1
      BY <2>3 DEF ReturnUnstarted, LocalInv, ClaimNumbered
    <3> QED
      BY <2>3, <3>1, ReturnUnstartedClaimInv, TaskInvStutter DEF ReturnUnstarted
  <2>4. CASE Finish(w) \/ FinishLost(w)
    BY <2>4, SettleInv DEF Finish, FinishLost
  <2> QED
    BY <2>1, <2>2, <2>3, <2>4
<1>2. CASE FinishLost(w)
  <2>1. /\ UNCHANGED <<localVars, runs>>
        /\ now' \in Time /\ heartbeat' \subseteq Worker /\ registry' \subseteq Worker
        /\ requeueing' \subseteq Task /\ late' \subseteq Worker
    BY <1>2 DEF FinishLost, LocalInv, LocalTypes, clockVars, liveVars, ghostVars
  <2> QED
    BY <1>1, <2>1, LocalInvKept
<1>3. CASE PayloadFails(w) \/ PayloadFailLost(w) \/ ReturnUnstarted(w) \/ Finish(w)
  <2>1. spent' \in [Worker -> SUBSET Task]
    <3>1. \A m \in hand[w] : m.task \in Task
      BY DEF LocalInv, LocalTypes, Message
    <3>2. \/ spent' = spent
          \/ \E m \in hand[w] : spent' = [spent EXCEPT ![w] = @ \cup {m.task}]
      BY <1>3 DEF PayloadFails, PayloadFailLost, ReturnUnstarted, Finish
    <3> QED
      BY <3>1, <3>2 DEF LocalInv, LocalTypes
  <2>2. /\ \E stage \in {"pop", "poll"} : Goto(w, stage)
        /\ Holds(w, {})
        /\ UNCHANGED <<clockVars, liveVars, runs, requeueing>>
        /\ stop' \subseteq Worker
    BY <1>3 DEF PayloadFails, PayloadFailLost, ReturnUnstarted, Finish, BackToPoll,
       LocalInv, LocalTypes
  <2> QED
    BY <1>1, <2>1, <2>2, LocalInvIdle DEF Stage
<1> QED
  BY <1>2, <1>3

LEMMA WorkerStepInv ==
    ASSUME Inv, NEW w \in Worker, WorkerStep(w)
    PROVE  Inv'
BY QuietWorkerInv, PopInv, RecoveryInv, BeginInv, ClaimInv
   DEF WorkerStep, Progress, Upset

LEMMA ProducerInv ==
    ASSUME Inv, Producer
    PROVE  Inv'
<1> USE DEF Inv
<1>1. PICK t \in Task, s \in Submitted, allowNew \in BOOLEAN : Enqueue(t, s, allowNew)
  BY DEF Producer
<1>2. now \in Time
  BY DEF LocalInv, LocalTypes
<1>3. TaskInv'
  BY <1>1, <1>2, EnqueueV2Inv DEF Enqueue
<1>4. /\ UNCHANGED <<localVars, runs>>
      /\ now' \in Time /\ heartbeat' \subseteq Worker /\ registry' \subseteq Worker
      /\ requeueing' \subseteq Task /\ late' \subseteq Worker
  BY <1>1 DEF Enqueue, LocalInv, LocalTypes, clockVars, liveVars, ghostVars
<1> QED
  BY <1>3, <1>4, LocalInvKept

LEMMA AdminTaskInv ==
    ASSUME Inv, AdminStep
    PROVE  TaskInv'
<1> USE DEF Inv
<1>1. CASE \E p \in Place, release \in BOOLEAN : Purge(p, release)
  <2>1. PICK p \in Place, release \in BOOLEAN : Purge(p, release)
    BY <1>1
  <2>2. PICK m \in box[p] : CancelOrPurge(p, m, release)
    BY <2>1 DEF Purge
  <2> QED
    BY <2>2, CancelOrPurgeInv
<1>2. CASE \E t, u \in Task, d \in Time \cup {None} : Replay(t, u, d)
  <2>1. PICK t \in Task, u \in Task, d \in Time \cup {None} : Replay(t, u, d)
    BY <1>2
  <2>2. rec[t].spec # None
    BY <2>1 DEF Replay
  <2>3. ReplaySpec(t, d) \in TaskSpec
    BY <2>2, ReplaySpecType DEF TaskInv
  <2>4. \E source : ReplayTask(t, u, ReplaySpec(t, d), source)
    BY <2>1 DEF Replay
  <2> QED
    BY <2>3, <2>4, ReplayTaskInv
<1>3. CASE \E v \in Worker : ForceRecover(v)
  <2>1. PICK v \in Worker : \E m \in box[v] : MoveToReady(v, m)
    BY <1>3 DEF ForceRecover
  <2> QED
    BY <2>1, MoveToReadyInv
<1>4. CASE Requeue
  <2>1. \/ \E m \in box["delay"] : MoveDelayMessage(m)
        \/ \E v \in Worker : \E m \in box[v] : MoveToReady(v, m)
    BY <1>4 DEF Requeue
  <2> QED
    BY <2>1, MoveDelayMessageInv, MoveToReadyInv
<1>5. CASE \E t \in Task : RequeueUpdate(t)
  <2>1. PICK t \in Task : RequeueUpdate(t)
    BY <1>5
  <2> DEFINE new == [rec[t] EXCEPT !.op = TRUE]
  <2>2. rec' = [rec EXCEPT ![t] = new]
    BY <2>1 DEF RequeueUpdate
  <2>3. rec[t] \in Record
    BY DEF TaskInv, TaskTypes
  <2>4. new \in Record /\ new.outcome = rec[t].outcome /\ new.spec = rec[t].spec
    BY <2>3 DEF Record
  <2> HIDE DEF new
  <2>5. /\ rec' \in [Task -> Record]
        /\ \A u \in Task : rec'[u].outcome = rec[u].outcome /\ rec'[u].spec = rec[u].spec
    BY <2>2, <2>4 DEF TaskInv, TaskTypes
  <2>6. UNCHANGED <<box, owner, latest, lease, deadlines, retryWait>>
    BY <2>1 DEF RequeueUpdate
  <2>7. BoxFinite' /\ OneMessage' /\ MessageMatchesOutcome'
    BY <2>5, <2>6, SameMessages
  <2>8. SpecKnown'
    BY <2>5, SpecKept DEF Exists
  <2> QED
    BY <2>5, <2>6, <2>7, <2>8 DEF TaskInv, TaskTypes
<1>6. CASE \E w \in Worker : Prune(w)
  BY <1>6, TaskInvStutter DEF Prune
<1> QED
  BY <1>1, <1>2, <1>3, <1>4, <1>5, <1>6 DEF AdminStep

LEMMA AdminStepInv ==
    ASSUME Inv, AdminStep
    PROVE  Inv'
<1> USE DEF Inv
<1>1. /\ UNCHANGED <<localVars, runs>>
      /\ now' \in Time /\ heartbeat' \subseteq Worker /\ registry' \subseteq Worker
      /\ requeueing' \subseteq Task /\ late' \subseteq Worker
  <2>1. UNCHANGED <<clockVars, localVars, ghostVars, heartbeat>>
    BY DEF AdminStep, Purge, Replay, ForceRecover, Requeue, RequeueUpdate, Prune, liveVars
  <2>2. registry' \subseteq Worker
    BY DEF AdminStep, Purge, Replay, ForceRecover, Requeue, RequeueUpdate, Prune,
       liveVars, LocalInv, LocalTypes
  <2>3. requeueing' \subseteq Task
    <3>1. CASE Requeue
      <4>1. \A p \in Place : \A m \in box[p] : m.task \in Task
        BY MessageTask
      <4>2. "delay" \in Place /\ Worker \subseteq Place
        BY DEF Place, Container
      <4> QED
        BY <3>1, <4>1, <4>2 DEF Requeue, LocalInv, LocalTypes
    <3>2. CASE ~Requeue
      BY <3>2 DEF AdminStep, Purge, Replay, ForceRecover, RequeueUpdate, Prune,
         LocalInv, LocalTypes
    <3> QED
      BY <3>1, <3>2
  <2> QED
    BY <2>1, <2>2, <2>3 DEF clockVars, ghostVars, LocalInv, LocalTypes
<1> QED
  BY <1>1, AdminTaskInv, LocalInvKept

LEMMA EnvironmentInv ==
    ASSUME Inv, Environment
    PROVE  Inv'
<1> USE DEF Inv
<1>1. CASE Tick
  <2>1. now' \in Time
    BY <1>1, BoundsAssumption DEF Tick, LocalInv, LocalTypes, Time
  <2>2. /\ UNCHANGED <<localVars, runs>>
        /\ heartbeat' \subseteq Worker /\ registry' \subseteq Worker
        /\ requeueing' \subseteq Task /\ late' \subseteq Worker
    BY <1>1 DEF Tick, LocalInv, LocalTypes, liveVars, ghostVars
  <2>3. TaskInv'
    BY <1>1, TaskInvStutter DEF Tick
  <2> QED
    BY <2>1, <2>2, <2>3, LocalInvKept
<1>2. CASE \E k \in Key : OwnerExpires(k)
  <2>1. PICK k \in Key : OwnerExpires(k)
    BY <1>2
  <2>2. owner' \in [Key -> Owner]
    <3>1. NoOwner \in Owner
      BY TimeHasZero DEF NoOwner, Owner
    <3> QED
      BY <2>1, <3>1 DEF OwnerExpires, TaskInv, TaskTypes
  <2>3. UNCHANGED <<box, rec, latest, lease, deadlines, retryWait>>
    BY <2>1 DEF OwnerExpires
  <2>4. TaskInv'
    BY <2>2, <2>3, SameMessages, SpecKept DEF TaskInv, TaskTypes, Exists
  <2>5. /\ UNCHANGED <<localVars, runs>>
        /\ now' \in Time /\ heartbeat' \subseteq Worker /\ registry' \subseteq Worker
        /\ requeueing' \subseteq Task /\ late' \subseteq Worker
    BY <2>1 DEF OwnerExpires, LocalInv, LocalTypes, clockVars, liveVars, ghostVars
  <2> QED
    BY <2>4, <2>5, LocalInvKept
<1>3. CASE \E c \in Conc : LeaseExpires(c)
  <2>1. PICK c \in Conc : LeaseExpires(c)
    BY <1>3
  <2>2. lease' \in [Conc -> Token \cup {None}]
    BY <2>1 DEF LeaseExpires, TaskInv, TaskTypes
  <2>3. UNCHANGED <<box, rec, owner, latest, deadlines, retryWait>>
    BY <2>1 DEF LeaseExpires
  <2>4. TaskInv'
    BY <2>2, <2>3, SameMessages, SpecKept DEF TaskInv, TaskTypes, Exists
  <2>5. /\ UNCHANGED <<localVars, runs>>
        /\ now' \in Time /\ heartbeat' \subseteq Worker /\ registry' \subseteq Worker
        /\ requeueing' \subseteq Task /\ late' \subseteq Worker
    BY <2>1 DEF LeaseExpires, Holders, LocalInv, LocalTypes, clockVars, liveVars
  <2> QED
    BY <2>4, <2>5, LocalInvKept
<1>4. CASE \E w \in Worker : HeartbeatExpires(w)
  <2>1. /\ UNCHANGED <<localVars, runs>>
        /\ now' \in Time /\ heartbeat' \subseteq Worker /\ registry' \subseteq Worker
        /\ requeueing' \subseteq Task /\ late' \subseteq Worker
    BY <1>4 DEF HeartbeatExpires, LocalInv, LocalTypes, clockVars, ghostVars
  <2>2. TaskInv'
    BY <1>4, TaskInvStutter DEF HeartbeatExpires
  <2> QED
    BY <2>1, <2>2, LocalInvKept
<1>5. CASE \E w \in Worker : Crash(w)
  <2>1. PICK w \in Worker : Crash(w)
    BY <1>5
  <2>2. TaskInv'
    BY <2>1, TaskInvStutter DEF Crash
  <2>3. /\ Goto(w, "down") /\ Holds(w, {})
        /\ UNCHANGED <<clockVars, liveVars, runs, requeueing>>
        /\ stop' \subseteq Worker
        /\ spent' \in [Worker -> SUBSET Task]
    BY <2>1 DEF Crash, LocalInv, LocalTypes
  <2> QED
    BY <2>2, <2>3, LocalInvIdle DEF Stage
<1> QED
  BY <1>1, <1>2, <1>3, <1>4, <1>5 DEF Environment

-----------------------------------------------------------------------------
\* The invariant, and what it implies.

LEMMA InitInv == Init => Inv
<1> SUFFICES ASSUME Init PROVE Inv
  OBVIOUS
<1>1. NoRecord \in Record
  BY BoundsAssumption DEF NoRecord, Record, Outcome, Location
<1>2. NoOwner \in Owner
  BY TimeHasZero DEF NoOwner, Owner
<1>3. TaskTypes
  BY <1>1, <1>2 DEF Init, TaskTypes
<1>4. BoxFinite
  BY FS_EmptySet DEF Init, BoxFinite
<1>5. \A t \in Task : ~Exists(t) /\ ~Live(t)
  BY DEF Init, NoRecord, Exists, Live
<1>6. SpecKnown /\ OneMessage /\ MessageMatchesOutcome
  BY <1>5 DEF Init, SpecKnown, OneMessage, MessageMatchesOutcome
<1>7. LocalInv
  BY TimeHasZero, BoundsAssumption DEF Init, LocalInv, LocalTypes, ClaimNumbered, Stage
<1> QED
  BY <1>3, <1>4, <1>6, <1>7 DEF Inv, TaskInv

LEMMA StutterInv ==
    ASSUME Inv, UNCHANGED vars
    PROVE  Inv'
<1>1. TaskInv'
  BY TaskInvStutter DEF Inv, vars
<1>2. /\ UNCHANGED <<localVars, runs>>
      /\ now' \in Time /\ heartbeat' \subseteq Worker /\ registry' \subseteq Worker
      /\ requeueing' \subseteq Task /\ late' \subseteq Worker
  BY DEF vars, Inv, LocalInv, LocalTypes, clockVars, liveVars, ghostVars
<1> QED
  BY <1>1, <1>2, LocalInvKept DEF Inv

LEMMA NextInv == Inv /\ [Next]_vars => Inv'
BY ProducerInv, WorkerStepInv, AdminStepInv, EnvironmentInv, StutterInv DEF Next

\* The strengthening of the container invariants is an invariant: scripts,
\* workers, recovery, administrators, crashes and expiries all preserve it.
THEOREM InvHolds == Spec => []Inv
BY InitInv, NextInv, PTL DEF Spec

\* Every variable keeps its type: attempts never leave 0..max_attempts however
\* often they are counted and given back, and the retry_wait gauge, a difference
\* of counts, never becomes negative.
THEOREM TypeCorrect == Spec => []TypeOK
<1>1. Inv => TypeOK
  BY DEF Inv, TaskInv, TaskTypes, LocalInv, LocalTypes, TypeOK
<1> QED
  BY <1>1, InvHolds, PTL

\* A task never has two messages in Redis, for any number of workers, tasks
\* and faults.
THEOREM OneMessageHolds == Spec => []OneMessage
<1>1. Inv => OneMessage
  BY DEF Inv, TaskInv
<1> QED
  BY <1>1, InvHolds, PTL

\* No live task is ever without its message, and no message outlives its task
\* outside the DLQ.
THEOREM MessageMatchesOutcomeHolds == Spec => []MessageMatchesOutcome
<1>1. Inv => MessageMatchesOutcome
  BY DEF Inv, TaskInv
<1> QED
  BY <1>1, InvHolds, PTL
=============================================================================
