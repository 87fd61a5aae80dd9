------------------------ MODULE PayloadStorageProofs ------------------------
(***************************************************************************)
(* Proofs about PayloadStorage for every number of objects and any bounds. *)
(* Stages says what is known of an object by the stage its upload is in;   *)
(* Settled what is known of the object of a task that can still be read.   *)
(***************************************************************************)
EXTENDS PayloadStorage, TLAPS

Untouched(o) == gc[o] = None /\ \A d \in Doer : job[d][o] = "none"

InFile(o) == o \in file /\ meta[o] # None

\* Before its enqueue an object has no task, and no call is on its way.
BeforeEnqueue == Handling \cup {"idle", "prepared", "kept"}

StageInv(o) ==
    /\ pc[o] \in {"idle", "write", "meta", "log"} => pending[o] = None /\ Untouched(o)
    /\ pc[o] \in {"idle", "write"} => o \notin file
    /\ pc[o] \in {"idle", "write", "meta"} => meta[o] = None
    /\ pc[o] \in {"write", "meta"} => now <= LastUpload
    /\ pc[o] \in {"meta", "log"} => o \in file /\ ~Expired(o, now)
    /\ pc[o] = "log" => meta[o] # None
    /\ pc[o] = "persist" /\ pending[o] # None =>
          Untouched(o) /\ InFile(o) /\ ~Expired(o, now)
    /\ (pc[o] = "prepared" \/ o \in sent) /\ pending[o] # None =>
          Untouched(o) /\ InFile(o) /\ RetainOf(o) = 0
    /\ pending[o] # None => task[o] = "none"
    /\ pc[o] \in BeforeEnqueue => task[o] = "none" /\ o \notin sent

Stages == \A o \in Object : StageInv(o)

\* The object of a task whose record can be read.
SettledInv(o) ==
    /\ pc[o] \in {"done", "unsure"} /\ pending[o] = None
    /\ \A d \in Doer : job[d][o] = "none"
    /\ gc[o] = IF task[o] \in Owning THEN None ELSE expire[o]
    /\ InFile(o) /\ RetainOf(o) = 0

Settled == sent = {} /\ \A o \in Object : Visible(o) => SettledInv(o)

-----------------------------------------------------------------------------
\* What the operators on time and retention return.

LEMMA LaterTime ==
    ASSUME now \in Time, NEW d \in Nat
    PROVE  Later(d) \in Time /\ Later(d) >= now
BY BoundsAssumption DEF Later, Time

LEMMA NoneDistinct ==
    /\ \A t \in Time : t # None
    /\ \A m \in Meta : m # None
    /\ 0 # None
    /\ \A o \in Object : o # None
BY NoneAssumption

LEMMA ExtendType ==
    ASSUME NEW known \in Time \cup {0, None}, NEW requested \in Time \cup {0}
    PROVE  ExtendRetention(known, requested) \in Time \cup {0}
BY NoneDistinct DEF ExtendRetention

LEMMA RetainType ==
    ASSUME TypeOK, NEW o \in Object
    PROVE  RetainOf(o) \in Time \cup {0, None}
BY DEF TypeOK, RetainOf, Meta

LEMMA MetaType ==
    ASSUME TypeOK, NEW o \in Object, NEW until \in Time \cup {0}, NEW b \in BOOLEAN
    PROVE  /\ [retain |-> ExtendRetention(RetainOf(o), until), dedicated |-> b] \in Meta
           /\ [retain |-> ExtendRetention(RetainOf(o), until), dedicated |-> b] # None
BY ExtendType, RetainType, NoneDistinct DEF Meta

-----------------------------------------------------------------------------
LEMMA AcceptTypes ==
    ASSUME TypeOK, NEW o \in Object, Accept(o) \/ Refuse
    PROVE  /\ pending' \in [Object -> Time \cup {None}]
           /\ gc' \in [Object -> Time \cup {None}]
           /\ task' \in [Object -> TaskState]
           /\ expire' \in [Object -> Time]
<1>1. now \in Time /\ Later(HistoryTtl) \in Time
  BY LaterTime, BoundsAssumption DEF TypeOK
<1>2. CASE Refuse
  BY <1>2 DEF Refuse, logs, tasks, TypeOK
<1>3. CASE Accept(o) /\ source[o] = None
  BY <1>3 DEF Accept, TypeOK, TaskState, Owning
<1>4. CASE Accept(o) /\ source[o] # None
  BY <1>1, <1>4 DEF Accept, TypeOK, TaskState, Owning
<1> QED
  BY <1>2, <1>3, <1>4

LEMMA WorkingTypes ==
    ASSUME TypeOK, NEW d \in Doer, NEW o \in Object,
           NEW stage \in {"none", "unlink", "unmeta", "unlog"}, Working(d, o, stage)
    PROVE  /\ job' \in [Doer -> [Object -> {"none", "unlink", "unmeta", "unlog"}]]
           /\ job'[d][o] = stage
           /\ \A e \in Doer, p \in Object : e # d \/ p # o => job'[e][p] = job[e][p]
BY DEF TypeOK, Working

\* Every action keeps the types.
LEMMA TypeStep == TypeOK /\ [Next]_vars => TypeOK'
<1> SUFFICES ASSUME TypeOK, [Next]_vars PROVE TypeOK'
  OBVIOUS
<1>1. /\ now \in Time /\ \A d \in {Grace, Grace + Slack, HistoryTtl} : Later(d) \in Time
      /\ "request" \in Doer /\ "garbage" \in Doer /\ "ttl" \in Doer
      /\ 0 \in Time \cup {0}
  BY LaterTime, BoundsAssumption DEF TypeOK, Doer
<1>2. ASSUME NEW o \in Object, Request(o) PROVE TypeOK'
  <2>1. CASE Upload(o)
    BY <2>1 DEF Upload, Goto, TypeOK, Stage, logs, files, tasks
  <2>2. CASE WriteFile(o)
    BY <2>2, <1>1 DEF WriteFile, Goto, TypeOK, Stage, logs, tasks
  <2>3. CASE WriteMeta(o)
    <3>1. [retain |-> ExtendRetention(RetainOf(o), Later(Grace + Slack)),
           dedicated |-> TRUE] \in Meta
      BY <1>1, MetaType
    <3> QED
      BY <2>3, <3>1 DEF WriteMeta, Goto, TypeOK, Stage, logs, tasks
  <2>4. CASE LogPending(o)
    BY <2>4, <1>1 DEF LogPending, Goto, TypeOK, Stage, files, tasks
  <2>5. CASE UndoFile(o)
    BY <2>5 DEF UndoFile, Goto, TypeOK, Stage, logs, tasks
  <2>6. CASE UndoMeta(o)
    BY <2>6 DEF UndoMeta, Goto, TypeOK, Stage, logs, tasks
  <2>7. CASE Persist(o)
    <3>1. [retain |-> ExtendRetention(RetainOf(o), 0), dedicated |-> TRUE] \in Meta
      BY <1>1, MetaType
    <3> QED
      BY <2>7, <3>1 DEF Persist, Goto, TypeOK, Stage, logs, tasks
  <2>8. CASE Enqueue(o)
    BY <2>8, AcceptTypes DEF Enqueue, Goto, TypeOK, Stage, files
  <2>9. CASE EnqueueArrives(o)
    BY <2>9, AcceptTypes DEF EnqueueArrives, TypeOK, files
  <2>10. CASE Confirm(o)
    BY <2>10 DEF Confirm, Goto, TypeOK, Stage, logs, files, tasks
  <2>11. CASE Recheck(o)
    BY <2>11 DEF Recheck, Goto, TypeOK, Stage, logs, files, tasks
  <2>12. CASE Cleanup(o)
    <3>1. Working("request", o, IF o \in file THEN "unlink" ELSE "unmeta")
      BY <2>12 DEF Cleanup
    <3>2. job' \in [Doer -> [Object -> {"none", "unlink", "unmeta", "unlog"}]]
      BY <3>1, <1>1, WorkingTypes
    <3> QED
      BY <2>12, <3>2, <1>1 DEF Cleanup, Promote, Goto, TypeOK, Stage, logs, files, tasks
  <2>13. CASE \E src \in Object : UploadReplay(o, src)
    BY <2>13 DEF UploadReplay, Goto, TypeOK, Stage, logs, files, tasks
  <2> QED
    BY <1>2, <2>1, <2>2, <2>3, <2>4, <2>5, <2>6, <2>7, <2>8, <2>9, <2>10, <2>11, <2>12,
       <2>13 DEF Request
<1>3. ASSUME NEW o \in Object, Upset(o) PROVE TypeOK'
  <2>1. CASE LogFails(o)
    BY <2>1, <1>1 DEF LogFails, Goto, TypeOK, Stage, files, tasks
  <2>2. CASE EnqueueLost(o)
    BY <2>2, AcceptTypes DEF EnqueueLost, Goto, TypeOK, Stage, files
  <2>3. CASE EnqueueDelayed(o)
    BY <2>3 DEF EnqueueDelayed, Goto, TypeOK, Stage, logs, files, tasks
  <2>4. CASE EnqueueResent(o)
    BY <2>4, AcceptTypes DEF EnqueueResent, Goto, TypeOK, Stage, files
  <2>5. CASE GiveUp(o)
    BY <2>5 DEF GiveUp, Goto, TypeOK, Stage, logs, files, tasks
  <2> QED
    BY <1>3, <2>1, <2>2, <2>3, <2>4, <2>5 DEF Upset
<1>4. ASSUME NEW o \in Object, Clean(o) PROVE TypeOK'
  <2>1. CASE PromoteDue(o)
    BY <2>1, <1>1 DEF PromoteDue, Promote, TypeOK, files, tasks, requests
  <2>2. CASE Sweep(o)
    <3>1. Working("garbage", o, IF o \in file THEN "unlink" ELSE "unmeta")
      BY <2>2 DEF Sweep
    <3>2. job' \in [Doer -> [Object -> {"none", "unlink", "unmeta", "unlog"}]]
      BY <3>1, <1>1, WorkingTypes
    <3> QED
      BY <2>2, <3>2 DEF Sweep, TypeOK, logs, files, tasks, requests
  <2>3. CASE ExpireFile(o)
    <3>1. job' \in [Doer -> [Object -> {"none", "unlink", "unmeta", "unlog"}]]
      BY <2>3, <1>1, WorkingTypes DEF ExpireFile
    <3> QED
      BY <2>3, <3>1 DEF ExpireFile, TypeOK, logs, files, tasks, requests
  <2>4. ASSUME NEW d \in Doer, Unlink(d, o) PROVE TypeOK'
    <3>1. job' \in [Doer -> [Object -> {"none", "unlink", "unmeta", "unlog"}]]
      BY <2>4, WorkingTypes DEF Unlink
    <3> QED
      BY <2>4, <3>1 DEF Unlink, TypeOK, logs, tasks, requests
  <2>5. ASSUME NEW d \in Doer, Unmeta(d, o) PROVE TypeOK'
    <3>1. job' \in [Doer -> [Object -> {"none", "unlink", "unmeta", "unlog"}]]
      BY <2>5, WorkingTypes DEF Unmeta
    <3> QED
      BY <2>5, <3>1 DEF Unmeta, TypeOK, logs, tasks, requests
  <2>6. ASSUME NEW d \in Doer, Unlog(d, o) PROVE TypeOK'
    <3>1. job' \in [Doer -> [Object -> {"none", "unlink", "unmeta", "unlog"}]]
      BY <2>6, WorkingTypes DEF Unlog
    <3> QED
      BY <2>6, <3>1 DEF Unlog, TypeOK, files, tasks, requests
  <2> QED
    BY <1>4, <2>1, <2>2, <2>3, <2>4, <2>5, <2>6 DEF Clean
<1>5. ASSUME NEW o \in Object, Finish(o) \/ Fail(o) \/ Forget(o) PROVE TypeOK'
  <2>1. CASE Finish(o)
    BY <2>1, <1>1 DEF Finish, TypeOK, TaskState, files, requests
  <2>2. CASE Fail(o)
    BY <2>2 DEF Fail, TypeOK, TaskState, Owning, logs, files, requests
  <2>3. CASE Forget(o)
    BY <2>3 DEF Forget, TypeOK, TaskState, logs, files, requests
  <2> QED
    BY <1>5, <2>1, <2>2, <2>3
<1>6. ASSUME NEW o \in Object, NEW until \in Time \cup {0},
             SaveBytes(o, until) \/ Retain(o, until)
      PROVE TypeOK'
  <2>1. \A b \in BOOLEAN :
           [retain |-> ExtendRetention(RetainOf(o), until), dedicated |-> b] \in Meta
    BY MetaType
  <2>2. CASE SaveBytes(o, until)
    BY <2>1, <2>2, <1>1 DEF SaveBytes, Goto, TypeOK, Stage, logs, tasks
  <2>3. CASE Retain(o, until)
    <3>1. (meta[o] # None /\ meta[o].dedicated) \in BOOLEAN
      BY DEF TypeOK, Meta
    <3> QED
      BY <2>1, <2>3, <3>1 DEF Retain, TypeOK, logs, tasks, requests
  <2> QED
    BY <1>6, <2>2, <2>3
<1>7. CASE DeleteQueue
  BY <1>7, <1>1 DEF DeleteQueue, TypeOK, TaskState, files, requests
<1>8. CASE ServerCrash
  BY <1>8 DEF ServerCrash, TypeOK, Stage, logs, files, tasks
<1>9. CASE Tick
  BY <1>9, BoundsAssumption DEF Tick, TypeOK, Time, logs, files, tasks, requests
<1>10. CASE UNCHANGED vars
  BY <1>10 DEF vars, TypeOK, logs, files, tasks, requests
<1> QED
  BY <1>2, <1>3, <1>4, <1>5, <1>6, <1>7, <1>8, <1>9, <1>10 DEF Next

LEMMA TypeInit == Init => TypeOK
BY BoundsAssumption DEF Init, TypeOK, Time, TaskState, Stage

\* Every variable keeps its type: the log scores and retentions are times of
\* the clock or "for ever", whatever is logged, revoked, kept or swept.
THEOREM TypeCorrect == Spec => []TypeOK
BY TypeInit, TypeStep, PTL DEF Spec

-----------------------------------------------------------------------------
\* An object that a step does not touch keeps what is known of it.
LEMMA Frame ==
    ASSUME TypeOK, NEW p \in Object, StageInv(p), now' = now,
           pc'[p] = pc[p], pending'[p] = pending[p], gc'[p] = gc[p],
           \A d \in Doer : job'[d][p] = job[d][p],
           p \in file' <=> p \in file, born'[p] = born[p], meta'[p] = meta[p],
           p \in sent' => p \in sent, task'[p] = task[p]
    PROVE  StageInv(p)'
<1>1. RetainOf(p)' = RetainOf(p)
  BY DEF RetainOf
<1>2. Expired(p, now)' = Expired(p, now)
  BY <1>1 DEF Expired
<1>3. Untouched(p)' <=> Untouched(p)
  BY DEF Untouched
<1>4. InFile(p)' <=> InFile(p)
  BY DEF InFile
<1> QED
  BY <1>1, <1>2, <1>3, <1>4 DEF StageInv

\* ENQUEUE_V2_LUA and REPLAY_TASK_LUA clear the pending entry of the task they
\* create; the task they replay has none.
LEMMA AcceptStages ==
    ASSUME TypeOK, Stages, NEW o \in Object, Accept(o) \/ Refuse,
           pc[o] = "prepared" \/ o \in sent,
           pc'[o] \notin BeforeEnqueue,
           \A p \in Object \ {o} : pc'[p] = pc[p],
           sent' \subseteq sent, UNCHANGED <<now, files, source, job>>
    PROVE  Stages'
<1> SUFFICES ASSUME NEW p \in Object PROVE StageInv(p)'
  BY DEF Stages
<1>0. StageInv(p) /\ StageInv(o)
  BY DEF Stages
<1>1. CASE Refuse
  <2>1. CASE p # o
    BY <1>0, <1>1, <2>1, Frame DEF Refuse, logs, tasks, files
  <2>2. CASE p = o
    <3>1. RetainOf(o)' = RetainOf(o) /\ (Untouched(o)' <=> Untouched(o))
          /\ (InFile(o)' <=> InFile(o))
      BY <1>1 DEF RetainOf, Untouched, InFile, Refuse, logs, files
    <3> QED
      BY <1>0, <1>1, <2>2, <3>1 DEF StageInv, Refuse, logs, tasks, BeforeEnqueue, Handling
  <2> QED
    BY <2>1, <2>2
<1>2. CASE Accept(o)
  <2>2. CASE p = o
    <3>1. pending'[o] = None
      BY <1>2 DEF Accept, TypeOK
    <3> QED
      BY <2>2, <3>1 DEF StageInv, BeforeEnqueue, Handling
  <2>3. CASE p # o /\ p # source[o]
    <3>1. pending'[p] = pending[p] /\ gc'[p] = gc[p] /\ task'[p] = task[p]
      BY <1>2, <2>3 DEF Accept, TypeOK
    <3> QED
      BY <1>0, <2>3, <3>1, Frame DEF files
  <2>4. CASE p # o /\ p = source[o]
    <3>1. task[p] # "none"
      BY <1>2, <2>4, NoneDistinct DEF Accept, Replayable
    <3>2. pending'[p] = None /\ pc'[p] \notin BeforeEnqueue
      BY <1>0, <1>2, <2>4, <3>1 DEF StageInv, Accept, TypeOK
    <3> QED
      BY <3>2 DEF StageInv, BeforeEnqueue, Handling
  <2> QED
    BY <2>2, <2>3, <2>4
<1> QED
  BY <1>1, <1>2

\* The upload, the enqueue and the clean-up after it.
LEMMA RequestStages ==
    ASSUME TypeOK, Stages, NEW o \in Object, Request(o)
    PROVE  Stages'
<1> SUFFICES ASSUME NEW p \in Object PROVE StageInv(p)'
  BY DEF Stages
<1>0. StageInv(p) /\ StageInv(o)
  BY DEF Stages
<1>1. CASE Upload(o)
  <2>1. CASE p = o
    BY <1>0, <1>1, <2>1 DEF Upload, Goto, StageInv, BeforeEnqueue, Handling, Untouched, TypeOK,
       logs, files, tasks
  <2>2. CASE p # o
    BY <1>0, <1>1, <2>2, Frame DEF Upload, Goto, TypeOK, logs, files, tasks
  <2> QED
    BY <2>1, <2>2
<1>2. CASE \E src \in Object : UploadReplay(o, src)
  <2>1. CASE p = o
    BY <1>0, <1>2, <2>1 DEF UploadReplay, Goto, StageInv, BeforeEnqueue, Handling, Untouched,
       TypeOK, logs, files, tasks
  <2>2. CASE p # o
    BY <1>0, <1>2, <2>2, Frame DEF UploadReplay, Goto, TypeOK, logs, files, tasks
  <2> QED
    BY <2>1, <2>2
<1>3. CASE WriteFile(o)
  <2>1. CASE p = o
    <3>1. pc'[o] = "meta" /\ o \in file' /\ born'[o] = now /\ meta'[o] = None
      BY <1>0, <1>3 DEF WriteFile, Goto, StageInv, TypeOK
    <3>2. ~Expired(o, now)'
      BY <1>3, <3>1, BoundsAssumption DEF Expired, RetainOf, WriteFile, TypeOK, Time
    <3> QED
      BY <1>0, <1>3, <2>1, <3>1, <3>2 DEF WriteFile, StageInv, BeforeEnqueue, Handling,
         Untouched, logs, tasks
  <2>2. CASE p # o
    BY <1>0, <1>3, <2>2, Frame DEF WriteFile, Goto, TypeOK, logs, files, tasks
  <2> QED
    BY <2>1, <2>2
<1>4. CASE WriteMeta(o)
  <2>1. CASE p = o
    <3>1. now <= LastUpload /\ meta[o] = None
      BY <1>0, <1>4 DEF WriteMeta, StageInv
    <3>2. Later(Grace + Slack) \in Time /\ Later(Grace + Slack) > now
      BY <3>1, BoundsAssumption DEF Later, TypeOK, Time
    <3>3. ExtendRetention(RetainOf(o), Later(Grace + Slack)) = Later(Grace + Slack)
      BY <3>1, <3>2, NoneDistinct DEF ExtendRetention, RetainOf, Time
    <3>4. meta'[o] = [retain |-> Later(Grace + Slack), dedicated |-> TRUE] /\ meta'[o] # None
      BY <1>4, <3>2, <3>3, NoneDistinct DEF WriteMeta, TypeOK, Meta
    <3>5. RetainOf(o)' = Later(Grace + Slack)
      BY <3>4 DEF RetainOf
    <3>6. ~Expired(o, now)'
      BY <1>4, <3>2, <3>5, NoneDistinct DEF Expired, WriteMeta, TypeOK, Time
    <3>7. pc'[o] = "log" /\ o \in file'
      BY <1>0, <1>4 DEF WriteMeta, Goto, StageInv, TypeOK
    <3> QED
      BY <1>0, <1>4, <2>1, <3>4, <3>6, <3>7 DEF WriteMeta, StageInv, BeforeEnqueue, Handling,
         Untouched, logs, tasks
  <2>2. CASE p # o
    BY <1>0, <1>4, <2>2, Frame DEF WriteMeta, Goto, TypeOK, logs, files, tasks
  <2> QED
    BY <2>1, <2>2
<1>5. CASE LogPending(o)
  <2>1. CASE p = o
    <3>1. Expired(o, now)' = Expired(o, now) /\ pc'[o] = "persist"
      BY <1>5 DEF LogPending, Goto, Expired, RetainOf, files, TypeOK
    <3> QED
      BY <1>0, <1>5, <2>1, <3>1 DEF LogPending, StageInv, BeforeEnqueue, Handling, Untouched,
         InFile, files, tasks
  <2>2. CASE p # o
    BY <1>0, <1>5, <2>2, Frame DEF LogPending, Goto, TypeOK, logs, files, tasks
  <2> QED
    BY <2>1, <2>2
<1>6. CASE UndoFile(o)
  <2>1. CASE p = o
    BY <1>0, <1>6, <2>1 DEF UndoFile, Goto, StageInv, BeforeEnqueue, Handling, TypeOK, logs, tasks
  <2>2. CASE p # o
    BY <1>0, <1>6, <2>2, Frame DEF UndoFile, Goto, TypeOK, logs, files, tasks
  <2> QED
    BY <2>1, <2>2
<1>7. CASE UndoMeta(o)
  <2>1. CASE p = o
    BY <1>0, <1>7, <2>1 DEF UndoMeta, Goto, StageInv, BeforeEnqueue, Handling, TypeOK, logs, tasks
  <2>2. CASE p # o
    BY <1>0, <1>7, <2>2, Frame DEF UndoMeta, Goto, TypeOK, logs, files, tasks
  <2> QED
    BY <2>1, <2>2
<1>8. CASE Persist(o)
  <2>1. CASE p = o
    <3>1. pc'[o] \in {"prepared", "done"} /\ o \notin sent
      BY <1>0, <1>8 DEF Persist, Goto, StageInv, BeforeEnqueue, Handling, TypeOK
    <3>2. ExtendRetention(RetainOf(o), 0) = 0
      BY DEF ExtendRetention
    <3>3. meta'[o] = [retain |-> 0, dedicated |-> TRUE] /\ meta'[o] # None
      BY <1>8, <3>2, NoneDistinct DEF Persist, TypeOK, Meta
    <3>4. InFile(o)' <=> o \in file
      BY <1>8, <3>3 DEF InFile, Persist
    <3>5. RetainOf(o)' = 0
      BY <3>3 DEF RetainOf
    <3>6. (Untouched(o)' <=> Untouched(o)) /\ pending'[o] = pending[o] /\ task'[o] = task[o]
          /\ pc[o] = "persist" /\ sent' = sent
      BY <1>8 DEF Persist, Untouched, logs, tasks
    <3>7. StageInv(o)'
      BY <1>0, <3>1, <3>4, <3>5, <3>6 DEF StageInv, BeforeEnqueue, Handling, InFile
    <3> QED
      BY <2>1, <3>7
  <2>2. CASE p # o
    BY <1>0, <1>8, <2>2, Frame DEF Persist, Goto, TypeOK, logs, files, tasks
  <2> QED
    BY <2>1, <2>2
<1>9. CASE Enqueue(o)
  <2>1. pc[o] = "prepared" /\ pc'[o] \notin BeforeEnqueue /\ (Accept(o) \/ Refuse)
        /\ \A q \in Object \ {o} : pc'[q] = pc[q]
    BY <1>9 DEF Enqueue, Goto, TypeOK, BeforeEnqueue, Handling
  <2>2. sent' \subseteq sent /\ UNCHANGED <<now, files, source, job>>
    BY <1>9 DEF Enqueue
  <2>3. Stages'
    BY <2>1, <2>2, AcceptStages
  <2> QED
    BY <2>3 DEF Stages
<1>10. CASE EnqueueArrives(o)
  <2>1. o \in sent /\ pc'[o] \notin BeforeEnqueue /\ (Accept(o) \/ Refuse)
        /\ \A q \in Object \ {o} : pc'[q] = pc[q]
    BY <1>0, <1>10 DEF EnqueueArrives, StageInv, BeforeEnqueue
  <2>2. sent' \subseteq sent /\ UNCHANGED <<now, files, source, job>>
    BY <1>10 DEF EnqueueArrives
  <2>3. Stages'
    BY <2>1, <2>2, AcceptStages
  <2> QED
    BY <2>3 DEF Stages
<1>11. CASE Confirm(o) \/ Recheck(o)
  <2>1. CASE p = o
    <3>1. pc'[o] \in {"done", "unseen", "cleanup"}
      BY <1>11 DEF Confirm, Recheck, Goto, TypeOK
    <3> QED
      BY <1>0, <1>11, <2>1, <3>1 DEF Confirm, Recheck, StageInv, BeforeEnqueue, Handling,
         Untouched, InFile, RetainOf, logs, files, tasks
  <2>2. CASE p # o
    BY <1>0, <1>11, <2>2, Frame DEF Confirm, Recheck, Goto, TypeOK, logs, files, tasks
  <2> QED
    BY <2>1, <2>2
<1>12. CASE Cleanup(o)
  <2>0. Working("request", o, IF o \in file THEN "unlink" ELSE "unmeta")
    BY <1>12 DEF Cleanup
  <2>1. CASE p = o
    <3>1. pc'[o] = "done" /\ pending'[o] = None
      BY <1>12 DEF Cleanup, Promote, Goto, TypeOK, logs
    <3> QED
      BY <2>1, <3>1 DEF StageInv, BeforeEnqueue, Handling
  <2>2. CASE p # o
    <3>1. \A d \in Doer : job'[d][p] = job[d][p]
      BY <2>0, <2>2, WorkingTypes DEF Doer
    <3> QED
      BY <1>0, <1>12, <2>2, <3>1, Frame DEF Cleanup, Promote, Goto, TypeOK, logs, files, tasks
  <2> QED
    BY <2>1, <2>2
<1> QED
  BY <1>1, <1>2, <1>3, <1>4, <1>5, <1>6, <1>7, <1>8, <1>9, <1>10, <1>11, <1>12 DEF Request

\* Lost answers, delayed and repeated calls, producers that give up.
LEMMA UpsetStages ==
    ASSUME TypeOK, Stages, NEW o \in Object, Upset(o)
    PROVE  Stages'
<1> SUFFICES ASSUME NEW p \in Object PROVE StageInv(p)'
  BY DEF Stages
<1>0. StageInv(p) /\ StageInv(o)
  BY DEF Stages
<1>1. CASE LogFails(o)
  <2>1. CASE p = o
    BY <1>0, <1>1, <2>1 DEF LogFails, Goto, StageInv, BeforeEnqueue, Handling, TypeOK, files, tasks
  <2>2. CASE p # o
    BY <1>0, <1>1, <2>2, Frame DEF LogFails, Goto, TypeOK, logs, files, tasks
  <2> QED
    BY <2>1, <2>2
<1>2. CASE EnqueueLost(o) \/ EnqueueResent(o)
  <2>1. pc[o] = "prepared" /\ pc'[o] \notin BeforeEnqueue /\ (Accept(o) \/ Refuse)
        /\ \A q \in Object \ {o} : pc'[q] = pc[q]
    BY <1>2 DEF EnqueueLost, EnqueueResent, Goto, TypeOK, BeforeEnqueue, Handling
  <2>2. sent' \subseteq sent /\ UNCHANGED <<now, files, source, job>>
    BY <1>2 DEF EnqueueLost, EnqueueResent
  <2>3. Stages'
    BY <2>1, <2>2, AcceptStages
  <2> QED
    BY <2>3 DEF Stages
<1>3. CASE EnqueueDelayed(o)
  <2>1. CASE p = o
    BY <1>0, <1>3, <2>1 DEF EnqueueDelayed, Goto, StageInv, BeforeEnqueue, Handling, Untouched,
       InFile, RetainOf, TypeOK, logs, files, tasks
  <2>2. CASE p # o
    BY <1>0, <1>3, <2>2, Frame DEF EnqueueDelayed, Goto, TypeOK, logs, files, tasks
  <2> QED
    BY <2>1, <2>2
<1>4. CASE GiveUp(o)
  <2>1. CASE p = o
    <3>1. pc'[o] = "done"
      BY <1>4 DEF GiveUp, Goto, TypeOK
    <3> QED
      BY <1>0, <1>4, <2>1, <3>1 DEF GiveUp, StageInv, BeforeEnqueue, Handling, Untouched,
         InFile, RetainOf, logs, files, tasks
  <2>2. CASE p # o
    BY <1>0, <1>4, <2>2, Frame DEF GiveUp, Goto, TypeOK, logs, files, tasks
  <2> QED
    BY <2>1, <2>2
<1> QED
  BY <1>1, <1>2, <1>3, <1>4 DEF Upset

\* Deletions touch only objects whose pending entry is revoked or used.
LEMMA CleanStages ==
    ASSUME TypeOK, Stages, NEW o \in Object, Clean(o)
    PROVE  Stages'
<1> SUFFICES ASSUME NEW p \in Object PROVE StageInv(p)'
  BY DEF Stages
<1>0. StageInv(p) /\ StageInv(o)
  BY DEF Stages
<1>d. "garbage" \in Doer /\ "ttl" \in Doer
  BY DEF Doer
<1>1. CASE PromoteDue(o)
  <2>1. CASE p = o
    <3>1. pending'[o] = None /\ pc'[o] = pc[o] /\ pending[o] # None
      BY <1>1 DEF PromoteDue, Promote, Due, TypeOK, requests
    <3>2. Expired(o, now)' = Expired(o, now)
      BY <1>1 DEF PromoteDue, Expired, RetainOf, files
    <3>3. StageInv(o)'
      BY <1>0, <1>1, <3>1, <3>2 DEF PromoteDue, StageInv, BeforeEnqueue, Handling, files,
         tasks, requests
    <3> QED
      BY <2>1, <3>3
  <2>2. CASE p # o
    BY <1>0, <1>1, <2>2, Frame DEF PromoteDue, Promote, TypeOK, logs, files, tasks, requests
  <2> QED
    BY <2>1, <2>2
<1>2. CASE Sweep(o)
  <2>0. Working("garbage", o, IF o \in file THEN "unlink" ELSE "unmeta") /\ ~Untouched(o)
    BY <1>2 DEF Sweep, Due, Untouched
  <2>1. CASE p = o
    <3>1. StageInv(o)'
      BY <1>0, <1>2, <2>0 DEF Sweep, StageInv, BeforeEnqueue, Handling, logs, files, tasks,
         requests, Expired, RetainOf
    <3> QED
      BY <2>1, <3>1
  <2>2. CASE p # o
    <3>1. \A d \in Doer : job'[d][p] = job[d][p]
      BY <1>d, <2>0, <2>2, WorkingTypes
    <3> QED
      BY <1>0, <1>2, <2>2, <3>1, Frame DEF Sweep, logs, files, tasks, requests
  <2> QED
    BY <2>1, <2>2
<1>3. CASE ExpireFile(o)
  <2>0. Working("ttl", o, "unlink") /\ Expired(o, now) /\ o \in file
    BY <1>3 DEF ExpireFile, Expired
  <2>1. CASE p = o
    <3>1. RetainOf(o) # 0
      BY <2>0, NoneDistinct DEF Expired
    <3>2. StageInv(o)'
      BY <1>0, <1>3, <2>0, <3>1 DEF ExpireFile, StageInv, BeforeEnqueue, Handling, logs, files,
         tasks, requests, Expired, RetainOf
    <3> QED
      BY <2>1, <3>2
  <2>2. CASE p # o
    <3>1. \A d \in Doer : job'[d][p] = job[d][p]
      BY <1>d, <2>0, <2>2, WorkingTypes
    <3> QED
      BY <1>0, <1>3, <2>2, <3>1, Frame DEF ExpireFile, logs, files, tasks, requests
  <2> QED
    BY <2>1, <2>2
<1>4. ASSUME NEW d \in Doer, Unlink(d, o) \/ Unmeta(d, o) \/ Unlog(d, o)
      PROVE  StageInv(p)'
  <2>0. /\ ~Untouched(o)
        /\ \E stage \in {"none", "unlink", "unmeta", "unlog"} : Working(d, o, stage)
    BY <1>4 DEF Unlink, Unmeta, Unlog, Untouched
  <2>1. CASE p = o
    <3>1. /\ pc[o] \notin {"idle", "write", "meta", "log"}
          /\ pending[o] # None => pc[o] \notin {"persist", "prepared"} /\ o \notin sent
      BY <1>0, <2>0 DEF StageInv
    <3>2. pc' = pc /\ pending' = pending /\ sent' = sent /\ task' = task
      BY <1>4 DEF Unlink, Unmeta, Unlog, logs, tasks, requests
    <3>3. StageInv(o)'
      BY <1>0, <3>1, <3>2 DEF StageInv
    <3> QED
      BY <2>1, <3>3
  <2>2. CASE p # o
    <3>1. \A e \in Doer : job'[e][p] = job[e][p]
      BY <2>0, <2>2, WorkingTypes
    <3> QED
      BY <1>0, <1>4, <2>2, <3>1, Frame DEF Unlink, Unmeta, Unlog, TypeOK, logs, files, tasks,
         requests
  <2> QED
    BY <2>1, <2>2
<1> QED
  BY <1>1, <1>2, <1>3, <1>4 DEF Clean

\* The tasks that refer to objects, other callers, the clock, a server crash.
LEMMA OtherStages ==
    ASSUME TypeOK, Stages,
           \/ \E o \in Object :
                 \/ Finish(o) \/ Fail(o) \/ Forget(o)
                 \/ \E until \in Time \cup {0} : SaveBytes(o, until) \/ Retain(o, until)
           \/ DeleteQueue \/ ServerCrash \/ Tick \/ UNCHANGED vars
    PROVE  Stages'
<1> SUFFICES ASSUME NEW p \in Object PROVE StageInv(p)'
  BY DEF Stages
<1>0. StageInv(p)
  BY DEF Stages
<1>1. ASSUME task[p] # "none", pc' = pc, pending' = pending, sent' = sent, task'[p] # "none"
      PROVE  StageInv(p)'
  BY <1>0, <1>1 DEF StageInv, BeforeEnqueue, Handling
<1>2. ASSUME NEW o \in Object, Finish(o) \/ Fail(o) \/ Forget(o)
      PROVE  StageInv(p)'
  <2>1. CASE p = o
    <3>1. task[o] # "none" /\ task'[o] # "none"
      BY <1>2 DEF Finish, Fail, Forget, TypeOK, Owning
    <3> QED
      BY <1>1, <1>2, <2>1, <3>1 DEF Finish, Fail, Forget, logs, requests
  <2>2. CASE p # o
    BY <1>0, <1>2, <2>2, Frame DEF Finish, Fail, Forget, TypeOK, logs, files, requests
  <2> QED
    BY <2>1, <2>2
<1>3. ASSUME NEW o \in Object, NEW until \in Time \cup {0}, SaveBytes(o, until)
      PROVE  StageInv(p)'
  <2>1. CASE p = o
    <3>1. pc[o] = "idle" /\ pc'[o] = "kept" /\ logs' = logs /\ task' = task /\ sent' = sent
      BY <1>3 DEF SaveBytes, Goto, TypeOK, tasks
    <3>2. StageInv(o)'
      BY <1>0, <2>1, <3>1 DEF StageInv, BeforeEnqueue, Handling, logs
    <3> QED
      BY <2>1, <3>2
  <2>2. CASE p # o
    BY <1>0, <1>3, <2>2, Frame DEF SaveBytes, Goto, TypeOK, logs, files, tasks
  <2> QED
    BY <2>1, <2>2
<1>4. ASSUME NEW o \in Object, NEW until \in Time \cup {0}, Retain(o, until)
      PROVE  StageInv(p)'
  <2>1. CASE p = o
    <3>1. pc' = pc /\ pending' = pending /\ sent' = sent /\ task' = task
      BY <1>4 DEF Retain, logs, tasks, requests
    <3>2. CASE pc[o] = "kept"
      <4>1. StageInv(o)'
        BY <1>0, <2>1, <3>1, <3>2 DEF StageInv, BeforeEnqueue, Handling
      <4> QED
        BY <2>1, <4>1
    <3>3. CASE Visible(o)
      <4>1. task[o] # "none"
        BY <3>3 DEF Visible, Replayable
      <4> QED
        BY <1>1, <2>1, <3>1, <4>1
    <3> QED
      BY <1>4, <3>2, <3>3 DEF Retain
  <2>2. CASE p # o
    BY <1>0, <1>4, <2>2, Frame DEF Retain, TypeOK, logs, files, tasks, requests
  <2> QED
    BY <2>1, <2>2
<1>5. CASE DeleteQueue
  <2>1. CASE Visible(p)
    <3>1. task[p] # "none" /\ task'[p] # "none"
      BY <1>5, <2>1 DEF DeleteQueue, Visible, Replayable
    <3> QED
      BY <1>1, <1>5, <3>1 DEF DeleteQueue, requests
  <2>2. CASE ~Visible(p)
    <3>1. task'[p] = task[p] /\ gc'[p] = gc[p]
      BY <1>5, <2>2 DEF DeleteQueue
    <3> QED
      BY <1>0, <1>5, <3>1, Frame DEF DeleteQueue, files, requests
  <2> QED
    BY <2>1, <2>2
<1>6. CASE ServerCrash
  <2>1. /\ pc'[p] = (IF pc[p] \in Handling THEN "done" ELSE pc[p])
        /\ \A d \in Doer : job'[d][p] = "none"
        /\ pending' = pending /\ gc' = gc /\ sent' = sent /\ task' = task /\ now' = now
        /\ file' = file /\ born' = born /\ meta' = meta
    BY <1>6 DEF ServerCrash, logs, files, tasks
  <2>2. RetainOf(p)' = RetainOf(p)
    BY <2>1 DEF RetainOf
  <2> QED
    BY <1>0, <2>1, <2>2 DEF StageInv, BeforeEnqueue, Handling, Untouched, InFile
<1>7. CASE Tick
  <2>1. /\ pc[p] \in Handling => ~Expired(p, now + 1)
        /\ pc[p] \in {"write", "meta"} => now < LastUpload
        /\ now' = now + 1
    BY <1>7 DEF Tick
  <2>2. /\ RetainOf(p)' = RetainOf(p) /\ Untouched(p)' = Untouched(p) /\ InFile(p)' = InFile(p)
        /\ Expired(p, now)' = Expired(p, now + 1)
    BY <1>7, <2>1 DEF Tick, RetainOf, Untouched, InFile, Expired, logs, files
  <2>3. pc' = pc /\ pending' = pending /\ sent' = sent /\ task' = task /\ file' = file
        /\ meta' = meta
    BY <1>7 DEF Tick, logs, files, tasks, requests
  <2>4. now < LastUpload => now' <= LastUpload
    BY <2>1, BoundsAssumption DEF TypeOK, Time
  <2> QED
    BY <1>0, <2>1, <2>2, <2>3, <2>4 DEF StageInv, BeforeEnqueue, Handling
<1>8. CASE UNCHANGED vars
  BY <1>0, <1>8, Frame DEF vars, logs, files, tasks, requests
<1> QED
  BY <1>2, <1>3, <1>4, <1>5, <1>6, <1>7, <1>8

LEMMA StagesInit == Init => Stages
<1> SUFFICES ASSUME Init, NEW o \in Object PROVE StageInv(o)
  BY DEF Stages
<1>1. /\ pc[o] = "idle" /\ pending[o] = None /\ o \notin file /\ meta[o] = None
      /\ task[o] = "none" /\ o \notin sent
  BY DEF Init
<1>2. Untouched(o)
  BY DEF Init, Untouched
<1> QED
  BY <1>1, <1>2 DEF StageInv

LEMMA StagesStep == TypeOK /\ Stages /\ [Next]_vars => Stages'
BY RequestStages, UpsetStages, CleanStages, OtherStages DEF Next

THEOREM StagesHold == Spec => [](TypeOK /\ Stages)
BY TypeInit, TypeStep, StagesInit, StagesStep, PTL DEF Spec

\* Whatever is lost, delayed, repeated or crashes: a call to enqueue that can
\* still run finds its object, or finds its pending entry revoked.
THEOREM RevokedBeforeDeletedHolds == Spec => []RevokedBeforeDeleted
<1>1. TypeOK /\ Stages => RevokedBeforeDeleted
  BY DEF Stages, StageInv, InFile, RevokedBeforeDeleted
<1> QED
  BY <1>1, StagesHold, PTL

-----------------------------------------------------------------------------
\* Without a call that runs after its client has given it up, and without a
\* client that repeats a call, the garbage log decides alone.

LEMMA SettledFrame ==
    ASSUME TypeOK, NEW p \in Object, Visible(p) => SettledInv(p),
           Visible(p)' => Visible(p),
           pc'[p] = pc[p], pending'[p] = pending[p], gc'[p] = gc[p],
           \A d \in Doer : job'[d][p] = job[d][p],
           p \in file' <=> p \in file, meta'[p] = meta[p],
           task'[p] = task[p], expire'[p] = expire[p]
    PROVE  Visible(p)' => SettledInv(p)'
<1>1. RetainOf(p)' = RetainOf(p) /\ (InFile(p)' <=> InFile(p))
  BY DEF RetainOf, InFile
<1> QED
  BY <1>1 DEF SettledInv

\* A task that is not in a script's hands stays as visible as it was.
LEMMA SameVisible ==
    ASSUME NEW p \in Object, task'[p] = task[p], expire'[p] = expire[p], now' = now
    PROVE  Visible(p)' <=> Visible(p)
BY DEF Visible, Replayable

\* A step of one object that no visible task owns, which gives it no task.
LEMMA SettledElsewhere ==
    ASSUME TypeOK, Settled, NEW o \in Object, ~Visible(o),
           now' = now, task' = task, expire' = expire, sent' = {},
           \A p \in Object \ {o} :
              /\ pc'[p] = pc[p] /\ pending'[p] = pending[p] /\ gc'[p] = gc[p]
              /\ \A d \in Doer : job'[d][p] = job[d][p]
              /\ p \in file' <=> p \in file
              /\ meta'[p] = meta[p]
    PROVE  Settled'
<1> SUFFICES ASSUME NEW p \in Object PROVE Visible(p)' => SettledInv(p)'
  BY DEF Settled
<1>1. Visible(p)' <=> Visible(p)
  BY SameVisible
<1>2. CASE p = o
  BY <1>1, <1>2
<1>3. CASE p # o
  BY <1>1, <1>3, SettledFrame DEF Settled
<1> QED
  BY <1>2, <1>3

\* A visible task has left the hands of its producer.
LEMMA VisibleTask ==
    ASSUME Stages, NEW o \in Object, Visible(o)
    PROVE  task[o] # "none" /\ pc[o] \notin BeforeEnqueue
BY DEF Stages, StageInv, Visible, Replayable

LEMMA AcceptSettled ==
    ASSUME TypeOK, Stages, Settled, NEW o \in Object, pc[o] = "prepared",
           \/ Accept(o) /\ pc'[o] \in {"done", "unsure"}
           \/ Refuse,
           \A p \in Object \ {o} : pc'[p] = pc[p],
           UNCHANGED <<now, files, source, sent, job>>
    PROVE  Settled'
<1> SUFFICES ASSUME NEW p \in Object PROVE Visible(p)' => SettledInv(p)'
  BY DEF Settled
<1>1. ~Visible(o)
  BY VisibleTask DEF BeforeEnqueue
<1>2. CASE Refuse
  <2>1. Visible(p)' <=> Visible(p)
    BY <1>2, SameVisible DEF Refuse, tasks
  <2>2. CASE p = o
    BY <1>1, <2>1, <2>2
  <2>3. CASE p # o
    BY <1>2, <2>1, <2>3, SettledFrame DEF Settled, Refuse, logs, tasks, files
  <2> QED
    BY <2>2, <2>3
<1>3. CASE Accept(o) /\ pc'[o] \in {"done", "unsure"}
  <2>1. CASE p = o
    <3>1. task[o] = "none" /\ pending[o] # None /\ pending'[o] = None
      BY <1>3 DEF Accept, TypeOK
    <3>2. Untouched(o) /\ InFile(o) /\ RetainOf(o) = 0
      BY <3>1 DEF Stages, StageInv
    <3>3. source[o] # None => source[o] \in Object /\ source[o] # o
      BY <1>3, <3>1 DEF Accept, Replayable, TypeOK
    <3>4. task'[o] = "live" /\ gc'[o] = gc[o]
      BY <1>3, <3>3 DEF Accept, TypeOK
    <3>5. InFile(o)' /\ RetainOf(o)' = 0
      BY <3>2 DEF InFile, RetainOf, files
    <3>6. SettledInv(o)'
      BY <1>3, <3>1, <3>2, <3>4, <3>5 DEF SettledInv, Untouched, Owning
    <3> QED
      BY <2>1, <3>6
  <2>2. CASE p # o /\ p # source[o]
    <3>1. pending'[p] = pending[p] /\ gc'[p] = gc[p] /\ task'[p] = task[p]
          /\ expire'[p] = expire[p]
      BY <1>3, <2>2 DEF Accept, TypeOK
    <3>2. Visible(p)' <=> Visible(p)
      BY <3>1, SameVisible
    <3> QED
      BY <2>2, <3>1, <3>2, SettledFrame DEF Settled, files
  <2>3. CASE p # o /\ p = source[o]
    <3>1. Replayable(p)
      BY <1>3, <2>3, NoneDistinct DEF Accept
    <3>2. SettledInv(p)
      BY <3>1 DEF Settled, Visible
    <3>3. /\ task'[p] = "history" /\ gc'[p] = Later(HistoryTtl)
          /\ expire'[p] = Later(HistoryTtl) /\ pending'[p] = pending[p]
      BY <1>3, <2>3, NoneDistinct DEF Accept, TypeOK
    <3>4. InFile(p)' /\ RetainOf(p)' = 0
      BY <3>2 DEF SettledInv, InFile, RetainOf, files
    <3>5. pc'[p] = pc[p] /\ job' = job
      BY <2>3
    <3> QED
      BY <3>2, <3>3, <3>4, <3>5 DEF SettledInv, Owning
  <2> QED
    BY <2>1, <2>2, <2>3
<1> QED
  BY <1>2, <1>3

LEMMA RequestSettled ==
    ASSUME TypeOK, Stages, Settled, NEW o \in Object, Request(o)
    PROVE  Settled'
<1>0. sent = {} /\ "request" \in Doer
  BY DEF Settled, Doer
<1>1. CASE Enqueue(o)
  <2>1. pc[o] = "prepared" /\ \A p \in Object \ {o} : pc'[p] = pc[p]
    BY <1>1 DEF Enqueue, Goto, TypeOK
  <2>2. \/ Accept(o) /\ pc'[o] \in {"done", "unsure"}
        \/ Refuse
    BY <1>1 DEF Enqueue, Goto, TypeOK
  <2>3. UNCHANGED <<now, files, source, sent, job>>
    BY <1>1 DEF Enqueue
  <2> QED
    BY <2>1, <2>2, <2>3, AcceptSettled
<1>2. CASE EnqueueArrives(o)
  BY <1>0, <1>2 DEF EnqueueArrives
<1>3. CASE Confirm(o)
  <2>1. CASE Visible(o)
    <3> SUFFICES ASSUME NEW p \in Object PROVE Visible(p)' => SettledInv(p)'
      BY <1>0, <1>3 DEF Confirm, Settled
    <3>1. Visible(p)' <=> Visible(p)
      BY <1>3, SameVisible DEF Confirm, tasks
    <3>2. CASE p # o
      BY <1>3, <3>1, <3>2, SettledFrame DEF Settled, Confirm, Goto, TypeOK, logs, tasks, files
    <3>3. CASE p = o
      <4>1. pc'[o] = "done" /\ SettledInv(o)
        BY <1>3, <2>1 DEF Confirm, Goto, TypeOK, Settled
      <4>2. RetainOf(o)' = RetainOf(o) /\ (InFile(o)' <=> InFile(o))
        BY <1>3 DEF Confirm, RetainOf, InFile, files
      <4>3. SettledInv(o)'
        BY <1>3, <4>1, <4>2 DEF Confirm, SettledInv, logs, tasks
      <4> QED
        BY <3>3, <4>3
    <3> QED
      BY <3>2, <3>3
  <2>2. CASE ~Visible(o)
    <3>1. /\ now' = now /\ task' = task /\ expire' = expire /\ sent' = {}
          /\ \A p \in Object \ {o} : pc'[p] = pc[p]
          /\ pending' = pending /\ gc' = gc /\ job' = job /\ file' = file /\ meta' = meta
      BY <1>0, <1>3 DEF Confirm, Goto, TypeOK, logs, tasks, files
    <3> QED
      BY <2>2, <3>1, SettledElsewhere
  <2> QED
    BY <2>1, <2>2
<1>4. CASE Cleanup(o)
  <2>1. ~Visible(o)
    BY <1>4 DEF Cleanup, Settled, SettledInv
  <2>2. \A p \in Object \ {o}, d \in Doer : job'[d][p] = job[d][p]
    BY <1>0, <1>4, WorkingTypes DEF Cleanup
  <2>3. /\ now' = now /\ task' = task /\ expire' = expire /\ sent' = {}
        /\ \A p \in Object \ {o} :
              pc'[p] = pc[p] /\ pending'[p] = pending[p] /\ gc'[p] = gc[p]
        /\ file' = file /\ meta' = meta
    BY <1>0, <1>4 DEF Cleanup, Promote, Goto, TypeOK, logs, tasks, files
  <2> QED
    BY <2>1, <2>2, <2>3, SettledElsewhere
<1>5. CASE \/ Upload(o) \/ WriteFile(o) \/ WriteMeta(o) \/ LogPending(o)
           \/ UndoFile(o) \/ UndoMeta(o) \/ Persist(o) \/ Recheck(o)
           \/ \E src \in Object : UploadReplay(o, src)
  <2>1. ~Visible(o)
    BY <1>5, VisibleTask DEF Upload, WriteFile, WriteMeta, LogPending, UndoFile, UndoMeta,
       Persist, Recheck, UploadReplay, BeforeEnqueue, Handling, Settled, SettledInv
  <2>2. now' = now /\ task' = task /\ expire' = expire /\ sent' = {} /\ job' = job
    BY <1>0, <1>5 DEF Upload, WriteFile, WriteMeta, LogPending, UndoFile, UndoMeta, Persist,
       Recheck, UploadReplay, tasks
  <2>3. \A p \in Object \ {o} :
           /\ pc'[p] = pc[p] /\ pending'[p] = pending[p] /\ gc'[p] = gc[p]
           /\ p \in file' <=> p \in file
           /\ meta'[p] = meta[p]
    BY <1>5 DEF Upload, WriteFile, WriteMeta, LogPending, UndoFile, UndoMeta, Persist,
       Recheck, UploadReplay, Goto, TypeOK, logs, files
  <2> QED
    BY <2>1, <2>2, <2>3, SettledElsewhere
<1> QED
  BY <1>1, <1>2, <1>3, <1>4, <1>5 DEF Request

LEMMA UpsetSettled ==
    ASSUME TypeOK, Stages, Settled, NEW o \in Object, Upset(o),
           "delay" \notin Faults, "resend" \notin Faults
    PROVE  Settled'
<1>0. sent = {}
  BY DEF Settled
<1>1. CASE LogFails(o)
  <2>1. ~Visible(o)
    BY <1>1, VisibleTask DEF LogFails, BeforeEnqueue, Handling
  <2>2. /\ now' = now /\ task' = task /\ expire' = expire /\ sent' = {} /\ job' = job
        /\ \A p \in Object \ {o} :
              pc'[p] = pc[p] /\ pending'[p] = pending[p] /\ gc'[p] = gc[p]
        /\ file' = file /\ meta' = meta
    BY <1>0, <1>1 DEF LogFails, Goto, TypeOK, tasks, files
  <2> QED
    BY <2>1, <2>2, SettledElsewhere
<1>2. CASE EnqueueLost(o)
  <2>1. pc[o] = "prepared" /\ pc'[o] = "unsure" /\ \A p \in Object \ {o} : pc'[p] = pc[p]
    BY <1>2 DEF EnqueueLost, Goto, TypeOK
  <2>2. UNCHANGED <<now, files, source, sent, job>> /\ (Accept(o) \/ Refuse)
    BY <1>2 DEF EnqueueLost
  <2> QED
    BY <2>1, <2>2, AcceptSettled
<1>3. CASE EnqueueDelayed(o) \/ EnqueueResent(o)
  BY <1>3 DEF EnqueueDelayed, EnqueueResent
<1>4. CASE GiveUp(o)
  <2> SUFFICES ASSUME NEW p \in Object PROVE Visible(p)' => SettledInv(p)'
    BY <1>0, <1>4 DEF GiveUp, Settled
  <2>1. Visible(p)' <=> Visible(p)
    BY <1>4, SameVisible DEF GiveUp, tasks
  <2>2. CASE p # o
    BY <1>4, <2>1, <2>2, SettledFrame DEF Settled, GiveUp, Goto, TypeOK, logs, tasks, files
  <2>3. CASE p = o
    <3>1. pc'[o] = "done"
      BY <1>4 DEF GiveUp, Goto, TypeOK
    <3>2. RetainOf(o)' = RetainOf(o) /\ (InFile(o)' <=> InFile(o))
      BY <1>4 DEF GiveUp, RetainOf, InFile, files
    <3>3. SettledInv(o) => SettledInv(o)'
      BY <1>4, <3>1, <3>2 DEF GiveUp, SettledInv, logs, tasks
    <3> QED
      BY <2>1, <2>3, <3>3 DEF Settled
  <2> QED
    BY <2>2, <2>3
<1> QED
  BY <1>1, <1>2, <1>3, <1>4 DEF Upset

\* The cleaners take nothing that a visible task owns: its garbage entry, if
\* any, falls due when its record expires, and no other log names it.
LEMMA CleanSettled ==
    ASSUME TypeOK, Settled, NEW o \in Object, Clean(o)
    PROVE  Settled'
<1>0. sent = {} /\ "garbage" \in Doer /\ "ttl" \in Doer
  BY DEF Settled, Doer
<1>1. CASE PromoteDue(o)
  <2>1. ~Visible(o)
    BY <1>1 DEF PromoteDue, Due, Settled, SettledInv
  <2>2. /\ now' = now /\ task' = task /\ expire' = expire /\ sent' = {} /\ job' = job
        /\ pc' = pc /\ file' = file /\ meta' = meta
        /\ \A p \in Object \ {o} : pending'[p] = pending[p] /\ gc'[p] = gc[p]
    BY <1>0, <1>1 DEF PromoteDue, Promote, TypeOK, tasks, files, requests
  <2> QED
    BY <2>1, <2>2, SettledElsewhere
<1>2. CASE Sweep(o) \/ ExpireFile(o)
  <2>1. CASE Sweep(o)
    <3>1. gc[o] # None /\ gc[o] <= now
      BY <2>1 DEF Sweep, Due
    <3>2. ~Visible(o)
      <4> SUFFICES ASSUME Visible(o) PROVE FALSE
        OBVIOUS
      <4>1. task[o] \notin Owning /\ gc[o] = expire[o]
        BY <3>1 DEF Settled, SettledInv
      <4>2. now < expire[o]
        BY <4>1 DEF Visible, Replayable, Owning
      <4> QED
        BY <3>1, <4>1, <4>2 DEF TypeOK, Time
    <3>3. \A p \in Object \ {o}, d \in Doer : job'[d][p] = job[d][p]
      BY <1>0, <2>1, WorkingTypes DEF Sweep
    <3>4. /\ now' = now /\ task' = task /\ expire' = expire /\ sent' = {}
          /\ pc' = pc /\ pending' = pending /\ gc' = gc /\ file' = file /\ meta' = meta
      BY <1>0, <2>1 DEF Sweep, logs, tasks, files, requests
    <3> QED
      BY <3>2, <3>3, <3>4, SettledElsewhere
  <2>2. CASE ExpireFile(o)
    <3>1. ~Visible(o)
      BY <2>2, NoneDistinct DEF ExpireFile, Expired, Settled, SettledInv
    <3>2. \A p \in Object \ {o}, d \in Doer : job'[d][p] = job[d][p]
      BY <1>0, <2>2, WorkingTypes DEF ExpireFile
    <3>3. /\ now' = now /\ task' = task /\ expire' = expire /\ sent' = {}
          /\ pc' = pc /\ pending' = pending /\ gc' = gc /\ file' = file /\ meta' = meta
      BY <1>0, <2>2 DEF ExpireFile, logs, tasks, files, requests
    <3> QED
      BY <3>1, <3>2, <3>3, SettledElsewhere
  <2> QED
    BY <1>2, <2>1, <2>2
<1>3. ASSUME NEW d \in Doer, Unlink(d, o) \/ Unmeta(d, o) \/ Unlog(d, o)
      PROVE  Settled'
  <2>1. ~Visible(o)
    BY <1>3 DEF Unlink, Unmeta, Unlog, Settled, SettledInv
  <2>2. \E stage \in {"none", "unlink", "unmeta", "unlog"} : Working(d, o, stage)
    BY <1>3 DEF Unlink, Unmeta, Unlog
  <2>3. \A p \in Object \ {o}, e \in Doer : job'[e][p] = job[e][p]
    BY <2>2, WorkingTypes
  <2>4. /\ now' = now /\ task' = task /\ expire' = expire /\ sent' = {}
        /\ pc' = pc /\ pending' = pending
        /\ \A p \in Object \ {o} :
              gc'[p] = gc[p] /\ (p \in file' <=> p \in file) /\ meta'[p] = meta[p]
    BY <1>0, <1>3 DEF Unlink, Unmeta, Unlog, TypeOK, logs, tasks, files, requests
  <2> QED
    BY <2>1, <2>3, <2>4, SettledElsewhere
<1> QED
  BY <1>1, <1>2, <1>3 DEF Clean

LEMMA TaskSettled ==
    ASSUME TypeOK, Settled, NEW o \in Object, Finish(o) \/ Fail(o) \/ Forget(o)
    PROVE  Settled'
<1> SUFFICES ASSUME NEW p \in Object PROVE Visible(p)' => SettledInv(p)'
  BY DEF Settled, Finish, Fail, Forget, requests
<1>0. /\ pc' = pc /\ pending' = pending /\ job' = job /\ file' = file /\ meta' = meta
      /\ now' = now
  BY DEF Finish, Fail, Forget, logs, files, requests
<1>1. CASE p # o
  <2>1. gc'[p] = gc[p] /\ task'[p] = task[p] /\ expire'[p] = expire[p]
    BY <1>1 DEF Finish, Fail, Forget, TypeOK, logs
  <2>2. Visible(p)' <=> Visible(p)
    BY <1>0, <2>1, SameVisible
  <2> QED
    BY <1>0, <1>1, <2>1, <2>2, SettledFrame DEF Settled
<1>2. CASE p = o
  <2>1. RetainOf(o)' = RetainOf(o) /\ (InFile(o)' <=> InFile(o))
    BY <1>0 DEF RetainOf, InFile
  <2>2. CASE Finish(o)
    <3>1. task[o] \in Owning /\ Visible(o)
      BY <2>2 DEF Finish, Owning, Visible, Replayable
    <3>2. /\ task'[o] = "history" /\ gc'[o] = Later(HistoryTtl)
          /\ expire'[o] = Later(HistoryTtl)
      BY <2>2 DEF Finish, TypeOK
    <3> QED
      BY <1>0, <1>2, <2>1, <3>1, <3>2 DEF Settled, SettledInv, Owning
  <2>3. CASE Fail(o)
    <3>1. task[o] = "live" /\ task'[o] = "dlq" /\ gc' = gc /\ Visible(o)
      BY <2>3 DEF Fail, TypeOK, logs, Visible
    <3> QED
      BY <1>0, <1>2, <2>1, <3>1 DEF Settled, SettledInv, Owning
  <2>4. CASE Forget(o)
    <3>1. task'[o] = "gone"
      BY <2>4 DEF Forget, TypeOK
    <3> QED
      BY <1>2, <3>1 DEF Visible, Replayable
  <2> QED
    BY <2>2, <2>3, <2>4
<1> QED
  BY <1>1, <1>2

LEMMA OtherSettled ==
    ASSUME TypeOK, Stages, Settled,
           \/ \E o \in Object, until \in Time \cup {0} : SaveBytes(o, until) \/ Retain(o, until)
           \/ DeleteQueue \/ ServerCrash \/ Tick \/ UNCHANGED vars
    PROVE  Settled'
<1>0. sent = {}
  BY DEF Settled
<1>1. ASSUME NEW o \in Object, NEW until \in Time \cup {0}, SaveBytes(o, until)
      PROVE  Settled'
  <2>1. ~Visible(o)
    BY <1>1, VisibleTask DEF SaveBytes, BeforeEnqueue
  <2>2. /\ now' = now /\ task' = task /\ expire' = expire /\ sent' = {} /\ job' = job
        /\ pending' = pending /\ gc' = gc
        /\ \A p \in Object \ {o} :
              pc'[p] = pc[p] /\ (p \in file' <=> p \in file) /\ meta'[p] = meta[p]
    BY <1>0, <1>1 DEF SaveBytes, Goto, TypeOK, logs, tasks
  <2> QED
    BY <2>1, <2>2, SettledElsewhere
<1>2. ASSUME NEW o \in Object, NEW until \in Time \cup {0}, Retain(o, until)
      PROVE  Settled'
  <2> SUFFICES ASSUME NEW p \in Object PROVE Visible(p)' => SettledInv(p)'
    BY <1>0, <1>2 DEF Settled, Retain, requests
  <2>0. /\ pc' = pc /\ pending' = pending /\ gc' = gc /\ job' = job /\ file' = file
        /\ now' = now /\ task' = task /\ expire' = expire
    BY <1>2 DEF Retain, logs, tasks, requests
  <2>1. Visible(p)' <=> Visible(p)
    BY <2>0, SameVisible
  <2>2. CASE p # o
    <3>1. meta'[p] = meta[p]
      BY <1>2, <2>2 DEF Retain, TypeOK
    <3> QED
      BY <2>0, <2>1, <2>2, <3>1, SettledFrame DEF Settled
  <2>3. CASE p = o
    <3> SUFFICES ASSUME Visible(o), SettledInv(o) PROVE SettledInv(o)'
      BY <2>1, <2>3 DEF Settled
    <3>1. ExtendRetention(RetainOf(o), until) = 0
      BY DEF ExtendRetention, SettledInv
    <3>2. (meta[o] # None /\ meta[o].dedicated) \in BOOLEAN
      BY DEF TypeOK, Meta
    <3>3. meta'[o] = [retain |-> 0, dedicated |-> meta[o] # None /\ meta[o].dedicated]
      BY <1>2, <3>1 DEF Retain, TypeOK
    <3>4. [retain |-> 0, dedicated |-> meta[o] # None /\ meta[o].dedicated] # None
      BY <3>1, <3>2, MetaType
    <3>5. meta'[o] # None /\ meta'[o].retain = 0
      BY <3>3, <3>4
    <3> QED
      BY <2>0, <3>5 DEF SettledInv, InFile, RetainOf
  <2> QED
    BY <2>2, <2>3
<1>3. CASE DeleteQueue
  <2> SUFFICES ASSUME NEW p \in Object PROVE Visible(p)' => SettledInv(p)'
    BY <1>0, <1>3 DEF Settled, DeleteQueue, requests
  <2>1. CASE Visible(p)
    <3>1. task'[p] = "gone"
      BY <1>3, <2>1 DEF DeleteQueue
    <3> QED
      BY <3>1 DEF Visible, Replayable
  <2>2. CASE ~Visible(p)
    <3>1. task'[p] = task[p] /\ expire' = expire /\ now' = now
      BY <1>3, <2>2 DEF DeleteQueue
    <3> QED
      BY <2>2, <3>1, SameVisible
  <2> QED
    BY <2>1, <2>2
<1>4. CASE ServerCrash
  <2> SUFFICES ASSUME NEW p \in Object PROVE Visible(p)' => SettledInv(p)'
    BY <1>0, <1>4 DEF Settled, ServerCrash
  <2>0. /\ pending' = pending /\ gc' = gc /\ file' = file /\ meta' = meta
        /\ now' = now /\ task' = task /\ expire' = expire
        /\ pc'[p] = (IF pc[p] \in Handling THEN "done" ELSE pc[p])
        /\ \A d \in Doer : job'[d][p] = "none"
    BY <1>4 DEF ServerCrash, logs, tasks, files
  <2>1. Visible(p)' <=> Visible(p)
    BY <2>0, SameVisible
  <2>2. RetainOf(p)' = RetainOf(p) /\ (InFile(p)' <=> InFile(p))
    BY <2>0 DEF RetainOf, InFile
  <2> QED
    BY <2>0, <2>1, <2>2 DEF Settled, SettledInv
<1>5. CASE Tick
  <2> SUFFICES ASSUME NEW p \in Object PROVE Visible(p)' => SettledInv(p)'
    BY <1>0, <1>5 DEF Settled, Tick, requests
  <2>0. /\ pending' = pending /\ gc' = gc /\ file' = file /\ meta' = meta /\ pc' = pc
        /\ job' = job /\ task' = task /\ expire' = expire /\ now' = now + 1
    BY <1>5 DEF Tick, logs, tasks, files, requests
  <2>1. Visible(p)' => Visible(p)
    BY <2>0 DEF Visible, Replayable, TypeOK, Time
  <2> QED
    BY <2>0, <2>1, SettledFrame DEF Settled
<1>6. CASE UNCHANGED vars
  <2>1. /\ pending' = pending /\ gc' = gc /\ file' = file /\ meta' = meta /\ pc' = pc
        /\ job' = job /\ task' = task /\ expire' = expire /\ now' = now /\ sent' = sent
    BY <1>6 DEF vars, logs, tasks, files, requests
  <2> SUFFICES ASSUME NEW p \in Object PROVE Visible(p)' => SettledInv(p)'
    BY <1>0, <2>1 DEF Settled
  <2> QED
    BY <2>1, SameVisible, SettledFrame DEF Settled
<1> QED
  BY <1>1, <1>2, <1>3, <1>4, <1>5, <1>6

LEMMA SettledInit == Init => Settled
BY DEF Init, Settled, Visible, Replayable

LEMMA SettledStep ==
    ASSUME "delay" \notin Faults, "resend" \notin Faults
    PROVE  TypeOK /\ Stages /\ Settled /\ [Next]_vars => Settled'
BY RequestSettled, UpsetSettled, CleanSettled, TaskSettled, OtherSettled DEF Next

THEOREM SettledHolds ==
    ASSUME "delay" \notin Faults, "resend" \notin Faults
    PROVE  Spec => [](TypeOK /\ Stages /\ Settled)
<1>1. TypeOK /\ Stages /\ Settled /\ [Next]_vars => Settled'
  BY SettledStep
<1> QED
  BY <1>1, StagesHold, SettledInit, PTL DEF Spec

\* While its task is live or in the DLQ an object is there, kept without limit
\* and in no list of things to delete: no crash of the server or of a producer,
\* no lost answer, no clean-up by a producer in doubt and no cleaner takes it.
THEOREM OperationalObjectKeptHolds ==
    ASSUME "delay" \notin Faults, "resend" \notin Faults
    PROVE  Spec => []OperationalObjectKept
<1>1. TypeOK /\ Stages /\ Settled => OperationalObjectKept
  BY DEF Settled, SettledInv, InFile, OperationalObjectKept, Visible, Replayable, Owning
<1> QED
  BY <1>1, SettledHolds, PTL

\* While the record of a task can be replayed its payload can be read: a
\* garbage entry falls due when the record expires, never before.
THEOREM ReplayWindowKeptHolds ==
    ASSUME "delay" \notin Faults, "resend" \notin Faults
    PROVE  Spec => []ReplayWindowKept
<1>1. TypeOK /\ Stages /\ Settled => ReplayWindowKept
  BY DEF Settled, SettledInv, InFile, ReplayWindowKept, Visible
<1> QED
  BY <1>1, SettledHolds, PTL

-----------------------------------------------------------------------------
\* What is still known of a file: the logs that name it, or its retention.

Listed(o) == task[o] \in Owning \/ pending[o] # None \/ gc[o] # None

Erased(o) == pc[o] = "unmeta" \/ \E d \in Doer : job[d][o] \in {"unmeta", "unlog"}

\* A deletion takes the file first and the log entry last; whoever leaves an
\* upload half-way leaves it in the pending log or with a retention that ends.
RememberedInv(o) ==
    /\ Erased(o) => o \notin file
    /\ pc[o] \in {"log", "undo"} => RetainOf(o) # 0
    /\ o \in file /\ pc[o] = "persist" => Listed(o)
    /\ o \in file /\ task[o] \in {"history", "gone"} => gc[o] # None
    /\ o \in file /\ pc[o] \in {"prepared", "unsure", "unseen", "cleanup", "done"} =>
          Listed(o) \/ RetainOf(o) # 0

Remembered == \A o \in Object : RememberedInv(o)

LEMMA RememberedFrame ==
    ASSUME NEW p \in Object, RememberedInv(p),
           pc'[p] = pc[p], pending'[p] = pending[p], gc'[p] = gc[p],
           \A d \in Doer : job'[d][p] = job[d][p],
           p \in file' <=> p \in file, meta'[p] = meta[p], task'[p] = task[p]
    PROVE  RememberedInv(p)'
<1>1. RetainOf(p)' = RetainOf(p) /\ (Listed(p)' <=> Listed(p)) /\ (Erased(p)' <=> Erased(p))
  BY DEF RetainOf, Listed, Erased
<1> QED
  BY <1>1 DEF RememberedInv

\* The scripts take a pending entry only for a task that owns the object, and
\* give the object of the task they replay a garbage entry.
LEMMA AcceptRemembered ==
    ASSUME TypeOK, Stages, Remembered, NEW o \in Object, Accept(o) \/ Refuse,
           pc[o] = "prepared" \/ o \in sent,
           pc'[o] = pc[o] \/ pc'[o] \in {"unsure", "cleanup", "done"},
           \A p \in Object \ {o} : pc'[p] = pc[p],
           UNCHANGED <<now, files, source, job>>
    PROVE  Remembered'
<1> SUFFICES ASSUME NEW p \in Object PROVE RememberedInv(p)'
  BY DEF Remembered
<1>0. RememberedInv(p) /\ RememberedInv(o) /\ StageInv(o) /\ StageInv(p)
  BY DEF Remembered, Stages
<1>1. RetainOf(p)' = RetainOf(p) /\ (p \in file' <=> p \in file)
  BY DEF RetainOf, files
<1>2. pc[o] \in {"prepared", "unsure", "unseen", "cleanup", "done"}
  BY <1>0 DEF StageInv, BeforeEnqueue, Handling, TypeOK, Stage
<1>3. CASE Refuse
  <2>1. CASE p # o
    BY <1>0, <1>3, <2>1, RememberedFrame DEF Refuse, logs, tasks, files
  <2>2. CASE p = o
    <3>1. Listed(o)' <=> Listed(o)
      BY <1>3 DEF Listed, Refuse, logs, tasks
    <3>2. Erased(o)' => Erased(o)
      BY <1>2 DEF Erased
    <3> QED
      BY <1>0, <1>1, <1>2, <1>3, <2>2, <3>1, <3>2
         DEF RememberedInv, Refuse, logs, tasks
  <2> QED
    BY <2>1, <2>2
<1>4. CASE Accept(o)
  <2>0. task[o] = "none" /\ (source[o] # None => source[o] \in Object /\ task[source[o]] # "none")
    BY <1>4, NoneDistinct DEF Accept, Replayable, TypeOK
  <2>1. CASE p = o
    <3>1. task'[o] = "live"
      BY <1>4, <2>0 DEF Accept, TypeOK
    <3>2. Erased(o)' => Erased(o)
      BY <1>2 DEF Erased
    <3> QED
      BY <1>0, <1>1, <1>2, <2>1, <3>1, <3>2 DEF RememberedInv, Listed, Owning
  <2>2. CASE p # o /\ p # source[o]
    <3>1. pending'[p] = pending[p] /\ gc'[p] = gc[p] /\ task'[p] = task[p]
      BY <1>4, <2>2 DEF Accept, TypeOK
    <3> QED
      BY <1>0, <2>2, <3>1, RememberedFrame DEF files
  <2>3. CASE p # o /\ p = source[o]
    <3>1. gc'[p] = Later(HistoryTtl) /\ pc'[p] = pc[p]
      BY <1>4, <2>3, NoneDistinct DEF Accept, TypeOK
    <3>2. gc'[p] # None
      BY <3>1, LaterTime, BoundsAssumption, NoneDistinct DEF TypeOK
    <3>3. Listed(p)' /\ (Erased(p)' <=> Erased(p))
      BY <3>1, <3>2 DEF Listed, Erased
    <3> QED
      BY <1>0, <1>1, <3>1, <3>2, <3>3 DEF RememberedInv
  <2> QED
    BY <2>1, <2>2, <2>3
<1> QED
  BY <1>3, <1>4

LEMMA RequestRemembered ==
    ASSUME TypeOK, Stages, Remembered, NEW o \in Object, Request(o)
    PROVE  Remembered'
<1> SUFFICES ASSUME NEW p \in Object PROVE RememberedInv(p)'
  BY DEF Remembered
<1>0. RememberedInv(p) /\ RememberedInv(o) /\ StageInv(o)
  BY DEF Remembered, Stages
<1>1. CASE Enqueue(o) \/ EnqueueArrives(o)
  <2>1. /\ pc[o] = "prepared" \/ o \in sent
        /\ Accept(o) \/ Refuse
        /\ pc'[o] = pc[o] \/ pc'[o] \in {"unsure", "cleanup", "done"}
        /\ \A q \in Object \ {o} : pc'[q] = pc[q]
        /\ UNCHANGED <<now, files, source, job>>
    BY <1>1 DEF Enqueue, EnqueueArrives, Goto, TypeOK
  <2>2. Remembered'
    BY <2>1, AcceptRemembered
  <2> QED
    BY <2>2 DEF Remembered
<1>2. CASE Cleanup(o)
  <2>0. Working("request", o, IF o \in file THEN "unlink" ELSE "unmeta") /\ "request" \in Doer
    BY <1>2 DEF Cleanup, Doer
  <2>1. CASE p # o
    <3>1. \A d \in Doer : job'[d][p] = job[d][p]
      BY <2>0, <2>1, WorkingTypes
    <3> QED
      BY <1>0, <1>2, <2>1, <3>1, RememberedFrame
         DEF Cleanup, Promote, Goto, TypeOK, logs, files, tasks
  <2>2. CASE p = o
    <3>1. /\ pc[o] = "cleanup" /\ pc'[o] = "done" /\ task' = task /\ file' = file /\ meta' = meta
          /\ pending[o] # None => gc'[o] = now
          /\ pending[o] = None => gc'[o] = gc[o] /\ pending'[o] = pending[o]
      BY <1>2 DEF Cleanup, Promote, Goto, TypeOK, logs, files, tasks
    <3>2. (Listed(o) => Listed(o)') /\ (gc[o] # None => gc'[o] # None)
      BY <3>1, NoneDistinct DEF Listed, TypeOK
    <3>3. RetainOf(o)' = RetainOf(o)
      BY <3>1 DEF RetainOf
    <3>4. Erased(o)' => Erased(o) \/ o \notin file
      <4>1. \A d \in Doer : d # "request" => job'[d][o] = job[d][o]
        BY <2>0, WorkingTypes
      <4>2. job'["request"][o] = IF o \in file THEN "unlink" ELSE "unmeta"
        BY <2>0, WorkingTypes
      <4> QED
        BY <3>1, <4>1, <4>2 DEF Erased
    <3> QED
      BY <1>0, <2>2, <3>1, <3>2, <3>3, <3>4 DEF RememberedInv
  <2> QED
    BY <2>1, <2>2
<1>3. CASE \/ Upload(o) \/ WriteFile(o) \/ WriteMeta(o) \/ LogPending(o)
           \/ UndoFile(o) \/ UndoMeta(o) \/ Persist(o) \/ Confirm(o) \/ Recheck(o)
           \/ \E src \in Object : UploadReplay(o, src)
  <2>0. /\ job' = job /\ task' = task /\ gc' = gc
        /\ \A q \in Object \ {o} :
              /\ pc'[q] = pc[q] /\ pending'[q] = pending[q] /\ meta'[q] = meta[q]
              /\ q \in file' <=> q \in file
    BY <1>3 DEF Upload, WriteFile, WriteMeta, LogPending, UndoFile, UndoMeta, Persist,
       Confirm, Recheck, UploadReplay, Goto, TypeOK, logs, files, tasks
  <2>1. CASE p # o
    BY <1>0, <2>0, <2>1, RememberedFrame
  <2>2. CASE p = o
    <3>1. CASE Upload(o) \/ \E src \in Object : UploadReplay(o, src)
      <4>1. pc'[o] = "write" /\ file' = file /\ o \notin file
        BY <1>0, <3>1 DEF Upload, UploadReplay, StageInv, Goto, TypeOK, files
      <4> QED
        BY <2>2, <4>1 DEF RememberedInv
    <3>2. CASE WriteFile(o)
      <4>1. pc'[o] = "meta" /\ task'[o] = "none" /\ \A d \in Doer : job'[d][o] = "none"
        BY <1>0, <2>0, <3>2 DEF WriteFile, StageInv, BeforeEnqueue, Handling, Untouched, Goto,
           TypeOK
      <4> QED
        BY <2>2, <4>1 DEF RememberedInv, Erased
    <3>3. CASE WriteMeta(o)
      <4>1. pc'[o] = "log" /\ task'[o] = "none" /\ \A d \in Doer : job'[d][o] = "none"
        BY <1>0, <2>0, <3>3 DEF WriteMeta, StageInv, BeforeEnqueue, Handling, Untouched, Goto,
           TypeOK
      <4>2. now <= LastUpload /\ meta[o] = None
        BY <1>0, <3>3 DEF WriteMeta, StageInv
      <4>3. Later(Grace + Slack) \in Time
        BY LaterTime, BoundsAssumption DEF TypeOK
      <4>4. ExtendRetention(RetainOf(o), Later(Grace + Slack)) = Later(Grace + Slack)
        BY <4>2, <4>3, NoneDistinct DEF ExtendRetention, RetainOf, Time
      <4>5. [retain |-> Later(Grace + Slack), dedicated |-> TRUE] # None
        BY <4>3, NoneDistinct DEF Meta
      <4>6. RetainOf(o)' = Later(Grace + Slack)
        BY <3>3, <4>4, <4>5 DEF WriteMeta, RetainOf, TypeOK
      <4>7. RetainOf(o)' # 0
        BY <4>3, <4>6 DEF Time
      <4> QED
        BY <2>2, <4>1, <4>7 DEF RememberedInv, Erased
    <3>4. CASE LogPending(o)
      <4>1. pc'[o] = "persist" /\ task'[o] = "none" /\ \A d \in Doer : job'[d][o] = "none"
        BY <1>0, <2>0, <3>4 DEF LogPending, StageInv, BeforeEnqueue, Handling, Untouched, Goto,
           TypeOK
      <4>2. pending'[o] = Later(Grace) /\ Later(Grace) # None
        BY <3>4, LaterTime, BoundsAssumption, NoneDistinct DEF LogPending, TypeOK
      <4> QED
        BY <2>2, <4>1, <4>2 DEF RememberedInv, Listed, Erased
    <3>5. CASE UndoFile(o)
      <4>1. pc'[o] = "unmeta" /\ o \notin file'
        BY <3>5 DEF UndoFile, Goto, TypeOK
      <4> QED
        BY <2>2, <4>1 DEF RememberedInv
    <3>6. CASE UndoMeta(o)
      <4>1. pc'[o] = "done" /\ o \notin file'
        BY <1>0, <3>6 DEF UndoMeta, Goto, TypeOK, RememberedInv, Erased
      <4> QED
        BY <2>2, <4>1 DEF RememberedInv
    <3>7. CASE Persist(o)
      <4>1. /\ pc[o] = "persist" /\ pc'[o] \in {"prepared", "done"} /\ task'[o] = "none"
            /\ pending' = pending /\ file' = file
        BY <1>0, <2>0, <3>7
           DEF Persist, Goto, StageInv, BeforeEnqueue, Handling, TypeOK, logs
      <4>2. (Listed(o)' <=> Listed(o)) /\ (Erased(o)' => Erased(o))
        BY <2>0, <4>1 DEF Listed, Erased
      <4> QED
        BY <1>0, <2>2, <4>1, <4>2 DEF RememberedInv
    <3>8. CASE Confirm(o) \/ Recheck(o)
      <4>1. /\ pc[o] \in {"unsure", "unseen"} /\ pc'[o] \in {"unseen", "cleanup", "done"}
            /\ pending' = pending /\ file' = file /\ meta' = meta
        BY <3>8 DEF Confirm, Recheck, Goto, TypeOK, logs, files
      <4>2. /\ RetainOf(o)' = RetainOf(o) /\ (Listed(o)' <=> Listed(o))
            /\ Erased(o)' => Erased(o)
        BY <2>0, <4>1 DEF Listed, Erased, RetainOf
      <4> QED
        BY <1>0, <2>0, <2>2, <4>1, <4>2 DEF RememberedInv
    <3> QED
      BY <1>3, <3>1, <3>2, <3>3, <3>4, <3>5, <3>6, <3>7, <3>8
  <2> QED
    BY <2>1, <2>2
<1> QED
  BY <1>1, <1>2, <1>3 DEF Request

LEMMA UpsetRemembered ==
    ASSUME TypeOK, Stages, Remembered, NEW o \in Object, Upset(o)
    PROVE  Remembered'
<1>1. CASE EnqueueLost(o) \/ EnqueueResent(o)
  <2>1. /\ pc[o] = "prepared" /\ pc'[o] \in {"unsure", "cleanup", "done"}
        /\ Accept(o) \/ Refuse
        /\ \A q \in Object \ {o} : pc'[q] = pc[q]
        /\ UNCHANGED <<now, files, source, job>>
    BY <1>1 DEF EnqueueLost, EnqueueResent, Goto, TypeOK
  <2> QED
    BY <2>1, AcceptRemembered
<1>2. CASE LogFails(o) \/ EnqueueDelayed(o) \/ GiveUp(o)
  <2> SUFFICES ASSUME NEW p \in Object PROVE RememberedInv(p)'
    BY DEF Remembered
  <2>0. RememberedInv(p) /\ RememberedInv(o) /\ StageInv(o)
    BY DEF Remembered, Stages
  <2>1. /\ job' = job /\ task' = task /\ gc' = gc /\ file' = file /\ meta' = meta
        /\ \A q \in Object \ {o} : pc'[q] = pc[q] /\ pending'[q] = pending[q]
    BY <1>2 DEF LogFails, EnqueueDelayed, GiveUp, Goto, TypeOK, logs, files, tasks
  <2>2. CASE p # o
    BY <2>0, <2>1, <2>2, RememberedFrame
  <2>3. CASE p = o
    <3>0. RetainOf(o)' = RetainOf(o)
      BY <2>1 DEF RetainOf
    <3>1. CASE LogFails(o)
      <4>1. /\ pc[o] = "log" /\ pc'[o] = "undo" /\ task'[o] = "none"
            /\ \A d \in Doer : job'[d][o] = "none"
        BY <2>0, <2>1, <3>1
           DEF LogFails, Goto, StageInv, BeforeEnqueue, Handling, Untouched, TypeOK
      <4> QED
        BY <2>0, <2>3, <3>0, <4>1 DEF RememberedInv, Erased
    <3>2. CASE EnqueueDelayed(o) \/ GiveUp(o)
      <4>1. /\ pc[o] \in {"prepared", "unsure", "unseen", "cleanup"}
            /\ pc'[o] \in {"unsure", "done"} /\ pending' = pending
        BY <3>2 DEF EnqueueDelayed, GiveUp, Goto, TypeOK, logs
      <4>2. (Listed(o)' <=> Listed(o)) /\ (Erased(o)' => Erased(o))
        BY <2>1, <4>1 DEF Listed, Erased
      <4> QED
        BY <2>0, <2>1, <2>3, <3>0, <4>1, <4>2 DEF RememberedInv
    <3> QED
      BY <1>2, <3>1, <3>2
  <2> QED
    BY <2>2, <2>3
<1> QED
  BY <1>1, <1>2 DEF Upset

\* The cleaners: a revoked upload becomes garbage, and what leaves the garbage
\* log has left the files before.
LEMMA CleanRemembered ==
    ASSUME TypeOK, Remembered, NEW o \in Object, Clean(o)
    PROVE  Remembered'
<1> SUFFICES ASSUME NEW p \in Object PROVE RememberedInv(p)'
  BY DEF Remembered
<1>0. RememberedInv(p) /\ RememberedInv(o) /\ "garbage" \in Doer /\ "ttl" \in Doer
  BY DEF Remembered, Doer
<1>1. CASE PromoteDue(o)
  <2>1. CASE p # o
    BY <1>0, <1>1, <2>1, RememberedFrame
       DEF PromoteDue, Promote, TypeOK, files, tasks, requests
  <2>2. CASE p = o
    <3>1. gc'[o] = now /\ now # None
      BY <1>1, NoneDistinct DEF PromoteDue, Promote, TypeOK
    <3>2. pc' = pc /\ job' = job /\ file' = file /\ meta' = meta /\ task' = task
      BY <1>1 DEF PromoteDue, files, tasks, requests
    <3>3. Listed(o)' /\ RetainOf(o)' = RetainOf(o) /\ (Erased(o)' <=> Erased(o))
      BY <3>1, <3>2 DEF Listed, RetainOf, Erased
    <3> QED
      BY <1>0, <2>2, <3>1, <3>2, <3>3 DEF RememberedInv
  <2> QED
    BY <2>1, <2>2
<1>2. CASE Sweep(o) \/ ExpireFile(o)
  <2>0. PICK d \in Doer :
           Working(d, o, IF d # "ttl" /\ o \notin file THEN "unmeta" ELSE "unlink")
    <3>1. CASE Sweep(o)
      BY <1>0, <3>1 DEF Sweep
    <3>2. CASE ExpireFile(o)
      BY <1>0, <3>2 DEF ExpireFile
    <3> QED
      BY <1>2, <3>1, <3>2
  <2>1. /\ pc' = pc /\ pending' = pending /\ gc' = gc /\ file' = file /\ meta' = meta
        /\ task' = task
    BY <1>2 DEF Sweep, ExpireFile, logs, files, tasks, requests
  <2>2. CASE p # o
    <3>1. \A e \in Doer : job'[e][p] = job[e][p]
      BY <2>0, <2>2, WorkingTypes
    <3> QED
      BY <1>0, <2>1, <3>1, RememberedFrame
  <2>3. CASE p = o
    <3>1. \A e \in Doer : e # d => job'[e][o] = job[e][o]
      BY <2>0, WorkingTypes
    <3>2. job'[d][o] = IF d # "ttl" /\ o \notin file THEN "unmeta" ELSE "unlink"
      BY <2>0, WorkingTypes
    <3>3. Erased(o)' => Erased(o) \/ o \notin file
      BY <2>1, <3>1, <3>2 DEF Erased
    <3>4. RetainOf(o)' = RetainOf(o) /\ (Listed(o)' <=> Listed(o))
      BY <2>1 DEF RetainOf, Listed
    <3> QED
      BY <1>0, <2>1, <2>3, <3>3, <3>4 DEF RememberedInv
  <2> QED
    BY <2>2, <2>3
<1>3. ASSUME NEW d \in Doer, Unlink(d, o) \/ Unmeta(d, o) \/ Unlog(d, o)
      PROVE  RememberedInv(p)'
  <2>0. \E stage \in {"none", "unlink", "unmeta", "unlog"} : Working(d, o, stage)
    BY <1>3 DEF Unlink, Unmeta, Unlog
  <2>1. pc' = pc /\ pending' = pending /\ task' = task
    BY <1>3 DEF Unlink, Unmeta, Unlog, logs, tasks, requests
  <2>2. CASE p # o
    <3>1. \A e \in Doer : job'[e][p] = job[e][p]
      BY <2>0, <2>2, WorkingTypes
    <3>2. gc'[p] = gc[p] /\ meta'[p] = meta[p] /\ (p \in file' <=> p \in file)
      BY <1>3, <2>2 DEF Unlink, Unmeta, Unlog, TypeOK, logs, files
    <3> QED
      BY <1>0, <2>1, <3>1, <3>2, RememberedFrame
  <2>3. CASE p = o
    <3>1. o \notin file'
      BY <1>0, <1>3 DEF Unlink, Unmeta, Unlog, RememberedInv, Erased, files
    <3>2. pc'[o] \in {"log", "undo"} => RetainOf(o)' # 0
      BY <1>0, <1>3, <2>1, NoneDistinct
         DEF Unlink, Unmeta, Unlog, RememberedInv, RetainOf, TypeOK, files
    <3> QED
      BY <2>3, <3>1, <3>2 DEF RememberedInv
  <2> QED
    BY <2>2, <2>3
<1> QED
  BY <1>1, <1>2, <1>3 DEF Clean

LEMMA OtherRemembered ==
    ASSUME TypeOK, Stages, Remembered,
           \/ \E o \in Object :
                 \/ Finish(o) \/ Fail(o) \/ Forget(o)
                 \/ \E until \in Time \cup {0} : SaveBytes(o, until) \/ Retain(o, until)
           \/ DeleteQueue \/ ServerCrash \/ Tick \/ UNCHANGED vars
    PROVE  Remembered'
<1> SUFFICES ASSUME NEW p \in Object PROVE RememberedInv(p)'
  BY DEF Remembered
<1>0. RememberedInv(p) /\ StageInv(p)
  BY DEF Remembered, Stages
<1>1. ASSUME pc'[p] = pc[p], \A d \in Doer : job'[d][p] = job[d][p],
             p \in file' <=> p \in file, meta'[p] = meta[p],
             gc'[p] # None
      PROVE  RememberedInv(p)'
  <2>1. RetainOf(p)' = RetainOf(p) /\ Listed(p)' /\ (Erased(p)' <=> Erased(p))
    BY <1>1 DEF RetainOf, Listed, Erased
  <2> QED
    BY <1>0, <1>1, <2>1 DEF RememberedInv
<1>2. ASSUME NEW o \in Object, Finish(o) \/ Fail(o) \/ Forget(o)
      PROVE  RememberedInv(p)'
  <2>0. pc' = pc /\ job' = job /\ file' = file /\ meta' = meta /\ pending' = pending
    BY <1>2 DEF Finish, Fail, Forget, logs, files, requests
  <2>1. CASE p # o
    BY <1>0, <1>2, <2>0, <2>1, RememberedFrame DEF Finish, Fail, Forget, TypeOK, logs
  <2>2. CASE p = o /\ Finish(o)
    <3>1. gc'[o] = Later(HistoryTtl) /\ Later(HistoryTtl) # None
      BY <2>2, LaterTime, BoundsAssumption, NoneDistinct DEF Finish, TypeOK
    <3> QED
      BY <1>1, <2>0, <2>2, <3>1
  <2>3. CASE p = o /\ Fail(o)
    <3>1. task'[o] = "dlq"
      BY <2>3 DEF Fail, TypeOK
    <3>2. RetainOf(o)' = RetainOf(o) /\ Listed(o)' /\ (Erased(o)' <=> Erased(o))
      BY <2>0, <3>1 DEF RetainOf, Listed, Owning, Erased
    <3> QED
      BY <1>0, <2>0, <2>3, <3>1, <3>2 DEF RememberedInv
  <2>4. CASE p = o /\ Forget(o)
    <3>1. task[o] = "history" /\ task'[o] = "gone" /\ gc' = gc
      BY <2>4 DEF Forget, TypeOK, logs
    <3>2. /\ RetainOf(o)' = RetainOf(o) /\ (Erased(o)' <=> Erased(o))
          /\ o \in file => Listed(o)'
      BY <1>0, <2>0, <2>4, <3>1 DEF RetainOf, Listed, Erased, RememberedInv
    <3> QED
      BY <1>0, <2>0, <2>4, <3>1, <3>2 DEF RememberedInv
  <2> QED
    BY <1>2, <2>1, <2>2, <2>3, <2>4
<1>3. ASSUME NEW o \in Object, NEW until \in Time \cup {0}, SaveBytes(o, until)
      PROVE  RememberedInv(p)'
  <2>0. logs' = logs /\ job' = job /\ task' = task
    BY <1>3 DEF SaveBytes, tasks
  <2>1. CASE p # o
    BY <1>0, <1>3, <2>0, <2>1, RememberedFrame DEF SaveBytes, Goto, TypeOK, logs
  <2>2. CASE p = o
    <3>1. pc'[o] = "kept" /\ task'[o] = "none" /\ \A d \in Doer : job'[d][o] = "none"
      BY <1>0, <1>3, <2>0, <2>2 DEF SaveBytes, Goto, StageInv, BeforeEnqueue, Untouched, TypeOK
    <3> QED
      BY <2>2, <3>1 DEF RememberedInv, Erased
  <2> QED
    BY <2>1, <2>2
<1>4. ASSUME NEW o \in Object, NEW until \in Time \cup {0}, Retain(o, until)
      PROVE  RememberedInv(p)'
  <2>0. logs' = logs /\ job' = job /\ task' = task /\ pc' = pc /\ file' = file /\ o \in file
    BY <1>4 DEF Retain, tasks, requests
  <2>1. CASE p # o
    BY <1>0, <1>4, <2>0, <2>1, RememberedFrame DEF Retain, TypeOK, logs
  <2>2. CASE p = o
    <3>1. (Erased(o)' <=> Erased(o)) /\ (Listed(o)' <=> Listed(o))
      BY <2>0 DEF Erased, Listed, logs
    <3>2. CASE pc[o] = "kept"
      <4>1. task[o] = "none"
        BY <1>0, <2>2, <3>2 DEF StageInv, BeforeEnqueue
      <4> QED
        BY <1>0, <2>0, <2>2, <3>1, <3>2, <4>1 DEF RememberedInv
    <3>3. CASE Visible(o)
      <4>1. Listed(o) /\ pc[o] \notin BeforeEnqueue
        BY <1>0, <2>0, <2>2, <3>3, VisibleTask
           DEF RememberedInv, Listed, Visible, Replayable, Owning
      <4> QED
        BY <1>0, <2>0, <2>2, <3>1, <4>1 DEF RememberedInv, BeforeEnqueue, Handling, logs
    <3> QED
      BY <1>4, <3>2, <3>3 DEF Retain
  <2> QED
    BY <2>1, <2>2
<1>5. CASE DeleteQueue
  <2>0. pc' = pc /\ job' = job /\ file' = file /\ meta' = meta /\ pending' = pending
    BY <1>5 DEF DeleteQueue, files, requests
  <2>1. CASE Visible(p)
    <3>1. gc'[p] = now /\ now # None
      BY <1>5, <2>1, NoneDistinct DEF DeleteQueue, TypeOK
    <3> QED
      BY <1>1, <2>0, <3>1
  <2>2. CASE ~Visible(p)
    <3>1. task'[p] = task[p] /\ gc'[p] = gc[p]
      BY <1>5, <2>2 DEF DeleteQueue
    <3> QED
      BY <1>0, <2>0, <3>1, RememberedFrame
  <2> QED
    BY <2>1, <2>2
<1>6. CASE ServerCrash
  <2>0. /\ pc'[p] = (IF pc[p] \in Handling THEN "done" ELSE pc[p])
        /\ \A d \in Doer : job'[d][p] = "none"
        /\ pending' = pending /\ gc' = gc /\ task' = task /\ file' = file /\ meta' = meta
    BY <1>6 DEF ServerCrash, logs, files, tasks
  <2>1. RetainOf(p)' = RetainOf(p) /\ (Listed(p)' <=> Listed(p))
    BY <2>0 DEF RetainOf, Listed
  <2>2. ~Erased(p)'
    BY <2>0 DEF Erased, Handling
  <2>3. CASE pc[p] \in Handling
    <3>1. p \in file => Listed(p) \/ RetainOf(p) # 0
      <4>1. pc[p] \in {"write", "unmeta"} => p \notin file
        BY <1>0 DEF StageInv, RememberedInv, Erased
      <4>2. pc[p] = "meta" => RetainOf(p) # 0
        BY <1>0, NoneDistinct DEF StageInv, RetainOf
      <4> QED
        BY <1>0, <2>3, <4>1, <4>2 DEF RememberedInv, Handling
    <3>2. pc'[p] = "done" /\ task'[p] = "none"
      BY <1>0, <2>0, <2>3 DEF StageInv, BeforeEnqueue
    <3> QED
      BY <2>0, <2>1, <2>2, <3>1, <3>2 DEF RememberedInv
  <2>4. CASE pc[p] \notin Handling
    BY <1>0, <2>0, <2>1, <2>2, <2>4 DEF RememberedInv
  <2> QED
    BY <2>3, <2>4
<1>7. CASE Tick \/ UNCHANGED vars
  BY <1>0, <1>7, RememberedFrame DEF Tick, vars, logs, files, tasks, requests
<1> QED
  BY <1>2, <1>3, <1>4, <1>5, <1>6, <1>7

LEMMA RememberedInit == Init => Remembered
<1>1. ASSUME Init, NEW o \in Object PROVE RememberedInv(o)
  <2>1. o \notin file /\ pc[o] = "idle"
    BY <1>1 DEF Init
  <2> QED
    BY <2>1 DEF RememberedInv
<1> QED
  BY <1>1, Zenon DEF Remembered

LEMMA RememberedStep == TypeOK /\ Stages /\ Remembered /\ [Next]_vars => Remembered'
BY RequestRemembered, UpsetRemembered, CleanRemembered, OtherRemembered DEF Next

THEOREM RememberedHolds == Spec => [](TypeOK /\ Stages /\ Remembered)
BY StagesHold, RememberedInit, RememberedStep, PTL DEF Spec

\* Whatever is lost, delayed, repeated or crashes, at any step: a file nobody
\* needs is in one of the logs, or its retention ends, or its deletion is on.
THEOREM NothingForgottenHolds == Spec => []NothingForgotten
<1>1. TypeOK /\ Stages /\ Remembered => NothingForgotten
  <2> SUFFICES ASSUME TypeOK, Stages, Remembered, NEW o \in file
               PROVE  \/ task[o] \in Owning
                      \/ pc[o] \notin {"idle", "done"}
                      \/ pending[o] # None \/ gc[o] # None
                      \/ RetainOf(o) # 0
    BY Zenon DEF NothingForgotten
  <2>1. o \in Object
    BY DEF TypeOK
  <2>2. RememberedInv(o) /\ StageInv(o)
    BY <2>1 DEF Remembered, Stages
  <2> QED
    BY <2>2 DEF RememberedInv, StageInv, Listed
<1> QED
  BY <1>1, RememberedHolds, PTL

-----------------------------------------------------------------------------
\* _extend_retention never shortens what is known; 0 is for ever.
LEMMA ExtendGrows ==
    ASSUME NEW known \in Time \cup {0}, NEW requested \in Time \cup {0}
    PROVE  \/ ExtendRetention(known, requested) = 0
           \/ known # 0 /\ known <= ExtendRetention(known, requested)
BY NoneDistinct DEF ExtendRetention, Time

RetainGrows(o) ==
    /\ meta'[o] # None
    /\ \/ meta'[o].retain = 0
       \/ meta[o].retain # 0 /\ meta[o].retain <= meta'[o].retain

LEMMA RetentionStep ==
    ASSUME TypeOK, Stages, Remembered, [Next]_vars,
           NEW o \in Object, o \in file, o \in file', meta[o] # None
    PROVE  RetainGrows(o)
<1>0. StageInv(o) /\ RememberedInv(o)
  BY DEF Stages, Remembered
<1>1. meta[o] \in Meta /\ RetainOf(o) = meta[o].retain /\ RetainOf(o) \in Time \cup {0}
  BY DEF TypeOK, RetainOf, Meta
<1>2. ASSUME meta'[o] = meta[o] PROVE RetainGrows(o)
  BY <1>1, <1>2 DEF RetainGrows, Time
<1>3. ASSUME NEW until \in Time \cup {0}, NEW b \in BOOLEAN,
             meta'[o] = [retain |-> ExtendRetention(RetainOf(o), until), dedicated |-> b]
      PROVE  RetainGrows(o)
  <2>1. meta'[o] # None /\ meta'[o].retain = ExtendRetention(RetainOf(o), until)
    BY <1>3, MetaType
  <2> QED
    BY <1>1, <2>1, ExtendGrows DEF RetainGrows
<1>4. ASSUME NEW p \in Object, Request(p) PROVE RetainGrows(o)
  <2>1. CASE p = o /\ WriteMeta(o)
    BY <1>0, <2>1 DEF WriteMeta, StageInv
  <2>2. CASE p = o /\ UndoMeta(o)
    BY <1>0, <2>2 DEF UndoMeta, RememberedInv, Erased
  <2>3. CASE p = o /\ Persist(o)
    <3>1. meta'[o] = [retain |-> ExtendRetention(RetainOf(o), 0), dedicated |-> TRUE]
      BY <2>3 DEF Persist, TypeOK
    <3> QED
      BY <1>3, <3>1
  <2>4. CASE ~(p = o /\ (WriteMeta(o) \/ UndoMeta(o) \/ Persist(o)))
    <3>1. meta'[o] = meta[o]
      BY <1>4, <2>4 DEF Request, Upload, UploadReplay, WriteFile, WriteMeta, LogPending,
         UndoFile, UndoMeta, Persist, Enqueue, EnqueueArrives, Confirm, Recheck, Cleanup,
         TypeOK, files
    <3> QED
      BY <1>2, <3>1
  <2> QED
    BY <2>1, <2>2, <2>3, <2>4
<1>5. ASSUME NEW p \in Object, Upset(p) PROVE RetainGrows(o)
  <2>1. meta' = meta
    BY <1>5 DEF Upset, LogFails, EnqueueLost, EnqueueDelayed, EnqueueResent, GiveUp, files
  <2> QED
    BY <1>2, <2>1
<1>6. ASSUME NEW p \in Object, Clean(p) PROVE RetainGrows(o)
  <2>1. CASE \E d \in Doer : Unmeta(d, p)
    <3>1. p # o
      BY <1>0, <2>1 DEF Unmeta, RememberedInv, Erased
    <3> QED
      BY <1>2, <2>1, <3>1 DEF Unmeta, TypeOK
  <2>2. CASE ~\E d \in Doer : Unmeta(d, p)
    <3>1. meta' = meta
      BY <1>6, <2>2 DEF Clean, PromoteDue, Sweep, ExpireFile, Unlink, Unlog, files
    <3> QED
      BY <1>2, <3>1
  <2> QED
    BY <2>1, <2>2
<1>7. ASSUME NEW p \in Object, NEW until \in Time \cup {0},
             SaveBytes(p, until) \/ Retain(p, until)
      PROVE  RetainGrows(o)
  <2>1. CASE p # o
    BY <1>2, <1>7, <2>1 DEF SaveBytes, Retain, TypeOK
  <2>2. CASE p = o /\ SaveBytes(o, until)
    BY <1>0, <2>2 DEF SaveBytes, StageInv
  <2>3. CASE p = o /\ Retain(o, until)
    <3>1. meta'[o] = [retain |-> ExtendRetention(RetainOf(o), until),
                      dedicated |-> meta[o] # None /\ meta[o].dedicated]
      BY <2>3 DEF Retain, TypeOK
    <3>2. (meta[o] # None /\ meta[o].dedicated) \in BOOLEAN
      BY DEF TypeOK, Meta
    <3> QED
      BY <1>3, <3>1, <3>2
  <2> QED
    BY <1>7, <2>1, <2>2, <2>3
<1>8. CASE \/ \E p \in Object : Finish(p) \/ Fail(p) \/ Forget(p)
           \/ DeleteQueue \/ ServerCrash \/ Tick \/ UNCHANGED vars
  BY <1>2, <1>8 DEF Finish, Fail, Forget, DeleteQueue, ServerCrash, Tick, vars, files
<1> QED
  BY <1>4, <1>5, <1>6, <1>7, <1>8 DEF Next

\* No caller can shorten the life of a file: neither a provisional retention
\* that comes late, nor an owner who asks for less, nor a deletion half-way.
THEOREM RetentionMonotoneHolds == Spec => RetentionMonotone
<1>1. TypeOK /\ Stages /\ Remembered /\ [Next]_vars =>
         [\A o \in Object : o \in file /\ o \in file' /\ meta[o] # None => RetainGrows(o)]_vars
  BY RetentionStep
<1> QED
  BY <1>1, RememberedHolds, PTL DEF Spec, RetentionMonotone, RetainGrows
=============================================================================
