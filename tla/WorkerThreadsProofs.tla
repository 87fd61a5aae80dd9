------------------------- MODULE WorkerThreadsProofs -------------------------
(***************************************************************************)
(* Proofs about WorkerThreads for any number of tasks, threads, permits    *)
(* and claims, and for every class of faults.                              *)
(***************************************************************************)
EXTENDS WorkerThreads, FiniteSetTheorems, TLAPS

\* Where stop() and the main thread may be, by what the flags say.
Stops ==
    /\ stopper = "main" => pc = "exiting"
    /\ ~running => draining \/ pc = "down"
    /\ stopPc = "drained" => draining /\ pc \notin {"joining", "down"}
    /\ stopPc = "flag" => ~running
    /\ pc \in {"joining", "down"} => ~running
    /\ hb = "recheck" => ~running
    /\ hb = "ended" => pc = "down"
    /\ pc = "down" => \A c \in Claim : thread[c] \in {"none"} \cup Ended

\* The poll loop from the permit to the hand-over, and with a begun claim.
Begun   == {"register", "decode", "discard", "discardSpent", "submit"}
Holding == {"refresh", "snapshot", "recover", "forget", "pop", "blocked", "popped"}
             \cup Begun

\* What the main thread's place says of its claim, of its permit, and what
\* the counters of a task say of each other.
Where ==
    /\ \A t \in cur : cur = {t}
    /\ \A c \in Claim : c[2] > token[c[1]] => thread[c] = "none"
    /\ pc = "popped" => \A t \in cur : token[t] < MaxClaims
    /\ pc \in Begun \cup {"inline"} => \A t \in cur : token[t] > 0
    /\ pc \in Begun => \A t \in cur : thread[Current(t)] = "claimed"
    /\ pc = "inline" => \A t \in cur : thread[Current(t)] \in {"claimed", "running"} \cup Ending
    /\ \A t \in Task : attempt[t] <= token[t] /\ (t \in processing => attempt[t] > 0)
    /\ pc = "permit" => Pooled
    /\ pc \in Holding => (held <=> Pooled)
    /\ pc # "release" /\ pc \notin Holding => ~held
    /\ held => Pooled

\* The claims that own a permit.
Owned(c) == \/ thread[c] \in {"queued", "running"} \cup Ending
            \/ Inline(c) /\ thread[c] \in Waiting

Owning == {c \in Claim : Owned(c)}

Permits ==
    /\ IsFiniteSet(Owning)
    /\ permits \in Nat
    /\ Pooled => permits + (IF held THEN 1 ELSE 0) + Cardinality(Owning) = Slots
    /\ ~Pooled => permits = Slots

-----------------------------------------------------------------------------
\* TypeOK in two parts, since the provers treat Booleans on their own.
Switches == /\ heartbeat \in BOOLEAN /\ registry \in BOOLEAN /\ held \in BOOLEAN
            /\ running \in BOOLEAN /\ draining \in BOOLEAN /\ event \in BOOLEAN

Values ==
    /\ where \in [Task -> {"ready", "box", "delay", "away"}]
    /\ message \in [Task -> 0..MaxClaims] /\ token \in [Task -> 0..MaxClaims]
    /\ attempt \in [Task -> 0..MaxClaims]
    /\ processing \subseteq Task
    /\ pc \in {"loop", "permit", "refresh", "snapshot", "recover", "forget",
               "pop", "blocked", "popped", "register", "decode", "discard", "discardSpent",
               "submit", "inline", "release", "exiting", "joining", "down"}
    /\ cur \subseteq Task
    /\ inside \in {"none", "start", "claims"}
    /\ permits \in 0..Slots
    /\ seen \in [Task -> 0..MaxClaims] /\ active \in [Task -> 0..MaxClaims]
    /\ seenSpent \subseteq Task /\ spent \subseteq Task
    /\ thread \in [Claim -> InFlight \cup Ending \cup Ended \cup {"none"}]
    /\ hb \in {"check", "recheck", "beat", "ended"}
    /\ stopper \in {"none", "other", "signal", "main"}
    /\ stopPc \in {"none", "asked", "locked", "drained", "flag"}
    /\ runs \in [Task -> Nat]

LEMMA TypeParts == TypeOK <=> Switches /\ Values
BY DEF TypeOK, Switches, Values

\* A claim that has been begun is one of the modelled claims.
LEMMA CurrentClaim ==
    ASSUME TypeOK, NEW t \in Task, token[t] > 0
    PROVE  Current(t) \in Claim /\ Current(t)[1] = t /\ Current(t)[2] = token[t]
BY CountAssumption DEF TypeOK, Current, Claim

-----------------------------------------------------------------------------
\* No step of stop(), of run() or of a claim breaks Stops.
LEMMA StopsStep ==
    Stops /\ [Next]_vars => Stops'
<1> SUFFICES ASSUME Stops, [Next]_vars PROVE Stops'
  OBVIOUS
<1>1. ASSUME MainStep PROVE Stops'
  <2>1. CASE Enter
    BY <2>1 DEF Enter, Current, Needs, redis, live, flags, stops, claims, Stops
  <2>2. CASE Loop
    BY <2>2 DEF Loop, Step, At, flags, stops, Stops
  <2>3. CASE Permit
    BY <2>3 DEF Permit, Step, At, flags, stops, Stops
  <2>4. CASE PermitStopped
    BY <2>4 DEF PermitStopped, Step, At, flags, stops, Stops
  <2>5. CASE Refresh
    BY <2>5 DEF Refresh, Step, At, flags, stops, Stops
  <2>6. CASE Snapshot
    BY <2>6 DEF Snapshot, Step, At, flags, stops, Stops
  <2>7. CASE Recovered
    BY <2>7 DEF Recovered, Step, At, flags, stops, Stops
  <2>8. CASE Forget
    BY <2>8 DEF Forget, Step, At, flags, stops, Stops
  <2>9. CASE PopLoop
    BY <2>9 DEF PopLoop, Step, At, flags, stops, Stops
  <2>10. CASE PopNone
    BY <2>10 DEF PopNone, Step, At, flags, stops, Stops
  <2>11. CASE Decoded
    BY <2>11 DEF Decoded, Step, At, flags, stops, Stops
  <2>12. CASE Release
    BY <2>12 DEF Release, Step, At, flags, stops, Stops
  <2>13. CASE Join
    BY <2>13 DEF Join, Step, At, stops, Stops
  <2>14. CASE StopCalled("main")
    BY <2>14 DEF StopCalled, main, flags, Stops
  <2>15. ASSUME NEW t \in Task,
             \/ RecoverAbandoned(t) \/ Pop(t) \/ Begin(t) \/ BeginNothing(t)
             \/ Register(t) \/ DecodeFails(t) \/ Discard(t) \/ Submit(t)
       PROVE  Stops'
    <3>1. CASE RecoverAbandoned(t)
      BY <3>1 DEF RecoverAbandoned, main, flags, stops, Stops
    <3>2. CASE Pop(t)
      BY <3>2 DEF Pop, Step, At, flags, stops, Stops
    <3>3. CASE Begin(t)
      BY <3>3 DEF Begin, Step, At, flags, stops, Stops
    <3>4. CASE BeginNothing(t)
      BY <3>4 DEF BeginNothing, Step, At, flags, stops, Stops
    <3>5. CASE Register(t)
      BY <3>5 DEF Register, Step, At, flags, stops, Stops
    <3>6. CASE DecodeFails(t)
      BY <3>6 DEF DecodeFails, Step, At, flags, stops, Stops
    <3>7. CASE Discard(t)
      BY <3>7 DEF Discard, Step, At, flags, stops, Stops
    <3>8. CASE Submit(t)
      BY <3>8 DEF Submit, Step, At, flags, stops, Stops
    <3> QED
      BY <2>15, <3>1, <3>2, <3>3, <3>4, <3>5, <3>6, <3>7, <3>8
  <2> QED
    BY <1>1, <2>1, <2>2, <2>3, <2>4, <2>5, <2>6, <2>7, <2>8, <2>9, <2>10, <2>11, <2>12,
       <2>13, <2>14, <2>15 DEF MainStep
<1>2. ASSUME StopStep \/ PollRaises \/ HeartbeatLoop \/ Lapse \/ StopCalled("other")
               \/ StopCalled("signal")
      PROVE  Stops'
  <2>1. CASE StopLocks
    BY <2>1 DEF StopLocks, main, flags, Stops
  <2>2. CASE StopDrains
    BY <2>2 DEF StopDrains, main, Stops
  <2>3. CASE StopRunning
    BY <2>3 DEF StopRunning, main, Stops
  <2>4. CASE StopFlags
    BY <2>4 DEF StopFlags, Stops
  <2>5. CASE PollRaises
    BY <2>5 DEF PollRaises, Step, At, flags, stops, Stops
  <2>6. CASE HeartbeatLoop
    BY <2>6 DEF HeartbeatLoop, main, flags, stops, Stops
  <2>7. CASE Lapse
    BY <2>7 DEF Lapse, main, flags, stops, Stops
  <2>8. CASE StopCalled("other")
    BY <2>8 DEF StopCalled, main, flags, Stops
  <2>9. CASE StopCalled("signal")
    BY <2>9 DEF StopCalled, main, flags, Stops
  <2> QED
    BY <1>2, <2>1, <2>2, <2>3, <2>4, <2>5, <2>6, <2>7, <2>8, <2>9 DEF StopStep
<1>3. ASSUME NEW c \in Claim, ClaimStep(c) \/ SettleLost(c) \/ Interrupted(c)
      PROVE  Stops'
  <2>1. CASE Admit(c)
    BY <2>1 DEF Admit, MayRun, flags, stops, Stops, Ended, Waiting
  <2>2. CASE ReturnUnstarted(c)
    BY <2>2 DEF ReturnUnstarted, MayRun, flags, stops, Stops, Ended, Waiting
  <2>3. CASE Settle(c)
    BY <2>3 DEF Settle, MayRun, main, flags, stops, Stops, Ended
  <2>4. CASE End(c)
    BY <2>4 DEF End, Stage, Inline, flags, stops, Stops, Ended
  <2>5. CASE SettleLost(c)
    BY <2>5 DEF SettleLost, MayRun, main, flags, stops, Stops, Ended
  <2>6. CASE Interrupted(c)
    BY <2>6 DEF Interrupted, MayRun, main, flags, stops, Stops, Ended
  <2> QED
    BY <1>3, <2>1, <2>2, <2>3, <2>4, <2>5, <2>6 DEF ClaimStep
<1>4. ASSUME NEW t \in Task, TakenOver(t) \/ MoveRetry(t) PROVE Stops'
  <2>1. CASE TakenOver(t)
    BY <2>1 DEF TakenOver, main, flags, stops, Stops
  <2>2. CASE MoveRetry(t)
    BY <2>2 DEF MoveRetry, main, flags, stops, Stops
  <2> QED
    BY <1>4, <2>1, <2>2
<1>5. CASE UNCHANGED vars
  BY <1>5 DEF vars, main, flags, stops, Stops
<1> QED
  BY <1>1, <1>2, <1>3, <1>4, <1>5 DEF Next

\* The place of the main thread changes together with its claim and its permit.
\* BEGIN_ATTEMPT_LUA is the one step that counts a new claim.
LEMMA WhereStep ==
    TypeOK /\ Stops /\ Where /\ [Next]_vars => Where'
<1> SUFFICES ASSUME TypeOK, Stops, Where, [Next]_vars PROVE Where'
  OBVIOUS
<1>1. ASSUME MainStep PROVE Where'
  <2>1. CASE Enter
    BY <2>1, CurrentClaim DEF Enter, Current, Needs, redis, live, flags, stops, claims,
       TypeOK, Where, Begun, Holding
  <2>2. CASE Loop
    BY <2>2 DEF Loop, Step, At, redis, Where, Begun, Holding
  <2>3. CASE Permit
    BY <2>3 DEF Permit, Step, At, redis, Where, Begun, Holding
  <2>4. CASE PermitStopped
    BY <2>4 DEF PermitStopped, Step, At, redis, Where, Begun, Holding
  <2>5. CASE Refresh
    BY <2>5 DEF Refresh, Step, At, redis, Where, Begun, Holding
  <2>6. CASE Snapshot
    BY <2>6 DEF Snapshot, Step, At, redis, Where, Begun, Holding
  <2>7. CASE Recovered
    BY <2>7 DEF Recovered, Step, At, redis, Where, Begun, Holding
  <2>8. CASE Forget
    BY <2>8 DEF Forget, Step, At, redis, Where, Begun, Holding
  <2>9. CASE PopLoop
    BY <2>9 DEF PopLoop, Step, At, redis, Where, Begun, Holding
  <2>10. CASE PopNone
    BY <2>10 DEF PopNone, Step, redis, Where, Begun, Holding
  <2>11. CASE Decoded
    BY <2>11 DEF Decoded, Step, At, redis, Where, Begun, Current, Holding
  <2>12. CASE Release
    BY <2>12 DEF Release, Step, redis, Where, Begun, Holding
  <2>13. CASE Join
    BY <2>13 DEF Join, Step, At, redis, Where, Begun, Holding
  <2>14. CASE StopCalled("main")
    BY <2>14 DEF StopCalled, redis, main, Where, Begun
  <2>15. ASSUME NEW t \in Task,
             \/ RecoverAbandoned(t) \/ Pop(t) \/ Begin(t) \/ BeginNothing(t)
             \/ Register(t) \/ DecodeFails(t) \/ Discard(t) \/ Submit(t)
       PROVE  Where'
    <3>1. CASE RecoverAbandoned(t)
      BY <3>1 DEF RecoverAbandoned, GoesBack, At, main, TypeOK, Where, Begun
    <3>2. CASE Pop(t)
      BY <3>2 DEF Pop, Step, At, Where, Begun, Holding
    <3>3. CASE Begin(t)
      <4>1. /\ t \in cur /\ cur = {t} /\ pc = "popped" /\ token[t] \in Nat
            /\ token[t] + 1 \in 1..MaxClaims
            /\ <<t, token[t] + 1>> \in Claim
        <5>1. t \in cur /\ pc = "popped"
          BY <3>3 DEF Begin, Step, At
        <5>2. cur = {t} /\ token[t] < MaxClaims
          BY <5>1 DEF Where
        <5>3. token[t] \in Nat /\ MaxClaims \in Nat
          BY CountAssumption DEF TypeOK
        <5>4. token[t] + 1 \in 1..MaxClaims
          BY <5>2, <5>3
        <5> QED
          BY <5>1, <5>2, <5>3, <5>4 DEF Claim
      <4>2. /\ token' = [token EXCEPT ![t] = token[t] + 1]
            /\ attempt' = [attempt EXCEPT ![t] = attempt[t] + 1]
            /\ processing' = processing \cup {t}
            /\ UNCHANGED held
        BY <3>3 DEF Begin
      <4>3. token'[t] = token[t] + 1 /\ attempt'[t] = attempt[t] + 1
        BY <4>2 DEF TypeOK
      <4>4. \A u \in Task : attempt'[u] <= token'[u] /\ (u \in processing' => attempt'[u] > 0)
        BY <4>1, <4>2, <4>3 DEF TypeOK, Where
      <4>5. CASE pc' = "register"
        <5>1. cur' = cur /\ thread' = [thread EXCEPT ![<<t, token[t] + 1>>] = "claimed"]
          BY <4>5, <3>3 DEF Begin, Step
        <5>2. \A c \in Claim : c[2] > token'[c[1]] => thread'[c] = "none"
          BY <4>1, <4>2, <4>3, <5>1 DEF Where, Claim
        <5>3. thread'[Current(t)'] = "claimed"
          BY <4>1, <4>3, <5>1 DEF TypeOK, Current
        <5> QED
          BY <4>1, <4>2, <4>3, <4>4, <4>5, <5>1, <5>2, <5>3
          DEF Where, Begun, Holding, Current
      <4>6. CASE pc' = "release"
        <5>1. cur' = {} /\ thread' = thread
          BY <4>6, <3>3 DEF Begin, Step
        <5>2. \A c \in Claim : c[2] > token'[c[1]] => thread'[c] = "none"
          BY <4>1, <4>2, <4>3, <5>1 DEF Where, Claim
        <5> QED
          BY <4>1, <4>2, <4>4, <4>6, <5>1, <5>2 DEF Where, Holding
      <4> QED
        BY <4>5, <4>6, <3>3 DEF Begin, Step
    <3>4. CASE BeginNothing(t)
      BY <3>4 DEF BeginNothing, Step, At, redis, Where, Holding
    <3>5. CASE Register(t)
      BY <3>5 DEF Register, Step, At, redis, Where, Begun, Current, Holding
    <3>6. CASE DecodeFails(t)
      BY <3>6 DEF DecodeFails, Step, Settles, Current, At, redis, Where, Begun, Holding
    <3>7. CASE Discard(t)
      BY <3>7 DEF Discard, Step, At, redis, Where, Begun, Holding
    <3>8. CASE Submit(t)
      BY <3>8 DEF Submit, Step, Current, At, redis, TypeOK, Where, Begun, Holding
    <3> QED
      BY <2>15, <3>1, <3>2, <3>3, <3>4, <3>5, <3>6, <3>7, <3>8
  <2> QED
    BY <1>1, <2>1, <2>2, <2>3, <2>4, <2>5, <2>6, <2>7, <2>8, <2>9, <2>10, <2>11, <2>12,
       <2>13, <2>14, <2>15 DEF MainStep
<1>2. ASSUME StopStep \/ PollRaises \/ HeartbeatLoop \/ Lapse \/ StopCalled("other")
               \/ StopCalled("signal")
      PROVE  Where'
  <2>1. CASE StopLocks
    BY <2>1 DEF StopLocks, redis, main, Where, Current
  <2>2. CASE StopDrains
    BY <2>2 DEF StopDrains, redis, main, Where, Current
  <2>3. CASE StopRunning
    BY <2>3 DEF StopRunning, redis, main, Where, Current
  <2>4. CASE StopFlags
    BY <2>4 DEF StopFlags, Stops, redis, Where, Begun, Current, Holding
  <2>5. CASE PollRaises
    BY <2>5 DEF PollRaises, Step, At, redis, Where, Holding
  <2>6. CASE HeartbeatLoop
    BY <2>6 DEF HeartbeatLoop, redis, main, Where, Current
  <2>7. CASE Lapse
    BY <2>7 DEF Lapse, redis, main, Where, Current
  <2>8. CASE StopCalled("other")
    BY <2>8 DEF StopCalled, redis, main, Where, Current
  <2>9. CASE StopCalled("signal")
    BY <2>9 DEF StopCalled, redis, main, Where, Current
  <2> QED
    BY <1>2, <2>1, <2>2, <2>3, <2>4, <2>5, <2>6, <2>7, <2>8, <2>9 DEF StopStep
<1>3. ASSUME NEW c \in Claim, ClaimStep(c) \/ SettleLost(c) \/ Interrupted(c)
      PROVE  Where'
  <2>1. CASE Admit(c)
    BY <2>1 DEF Admit, MayAdmit, Stage, Inline, Current, redis, Where, Begun
  <2>2. CASE ReturnUnstarted(c)
    BY <2>2, CurrentClaim DEF ReturnUnstarted, GoesBack, MayAdmit, Stage, Inline,
       Current, redis, TypeOK, Where, Begun, Ending
  <2>3. CASE Settle(c)
    BY <2>3 DEF Settle, Settles, MayRun, Stage, main, redis, Where, Current, Ending
  <2>4. CASE End(c)
    BY <2>4 DEF End, MayRun, Stage, Inline, Current, redis, Where, Begun, Holding,
       Ending
  <2>5. CASE SettleLost(c)
    BY <2>5, CurrentClaim DEF SettleLost, Settles, MayRun, Stage, redis, main, TypeOK,
       Where, Current, Ending
  <2>6. CASE Interrupted(c)
    BY <2>6 DEF Interrupted, MayRun, Stage, redis, main, Where, Current, Ending
  <2> QED
    BY <1>3, <2>1, <2>2, <2>3, <2>4, <2>5, <2>6 DEF ClaimStep
<1>4. ASSUME NEW t \in Task, TakenOver(t) \/ MoveRetry(t) PROVE Where'
  <2>1. CASE TakenOver(t)
    BY <2>1 DEF TakenOver, GoesBack, main, Where, Current
  <2>2. CASE MoveRetry(t)
    BY <2>2 DEF MoveRetry, Current, main, Where
  <2> QED
    BY <1>4, <2>1, <2>2
<1>5. CASE UNCHANGED vars
  BY <1>5 DEF vars, redis, main, Where, Current
<1> QED
  BY <1>1, <1>2, <1>3, <1>4, <1>5 DEF Next

-----------------------------------------------------------------------------
\* What becomes of the permits when no claim, or one, starts or ceases to own one.

LEMMA SameOwning ==
    ASSUME \A c \in Claim : Owned(c)' <=> Owned(c)
    PROVE  Owning' = Owning
BY DEF Owning

LEMMA PermitsKept ==
    ASSUME Permits, UNCHANGED <<permits, held>>,
           \A c \in Claim : Owned(c)' <=> Owned(c)
    PROVE  Permits'
BY SameOwning DEF Permits

LEMMA PermitsGained ==
    ASSUME Permits, NEW c \in Claim, ~Owned(c), Owned(c)',
           \A d \in Claim \ {c} : Owned(d)' <=> Owned(d),
           permits' = permits, ~held', held <=> Pooled
    PROVE  Permits'
<1>1. Owning' = Owning \cup {c} /\ c \notin Owning
  BY DEF Owning
<1>2. IsFiniteSet(Owning') /\ Cardinality(Owning') = Cardinality(Owning) + 1
  BY <1>1, FS_AddElement DEF Permits
<1>3. Cardinality(Owning) \in Nat
  BY FS_CardinalityType DEF Permits
<1> QED
  BY <1>2, <1>3 DEF Permits

LEMMA PermitsLost ==
    ASSUME Permits, NEW c \in Claim, Owned(c), ~Owned(c)',
           \A d \in Claim \ {c} : Owned(d)' <=> Owned(d),
           permits' = (IF Pooled THEN permits + 1 ELSE permits), held' = held
    PROVE  Permits'
<1>1. Owning' = Owning \ {c} /\ c \in Owning
  BY DEF Owning
<1>2. IsFiniteSet(Owning') /\ Cardinality(Owning') = Cardinality(Owning) - 1
  BY <1>1, FS_RemoveElement DEF Permits
<1>3. Cardinality(Owning) \in Nat
  BY FS_CardinalityType DEF Permits
<1> QED
  BY <1>2, <1>3, CountAssumption DEF Permits

\* Only the hand-over to the pool and the end of a claim change who owns a permit.
LEMMA PermitsStep ==
    TypeOK /\ Stops /\ Where /\ Permits /\ [Next]_vars => Permits'
<1> SUFFICES ASSUME TypeOK, Stops, Where, Permits, [Next]_vars PROVE Permits'
  OBVIOUS
<1>1. ASSUME MainStep PROVE Permits'
  <2>1. CASE Enter
    BY <2>1, PermitsKept DEF Enter, Current, Needs, redis, live, flags, stops, claims,
       TypeOK, Where, Begun, Holding, Owned, Inline
  <2>2. CASE Loop
    BY <2>2, PermitsKept DEF Loop, Step, At, Owned, Inline
  <2>3. CASE Permit
    <3>1. \A c \in Claim : Owned(c)' <=> Owned(c)
      BY <2>3 DEF Permit, Step, At, Owned, Inline
    <3> QED
      BY <2>3, <3>1, SameOwning DEF Permit, Step, At, Where, Permits, Holding, Begun
  <2>4. CASE PermitStopped
    BY <2>4, PermitsKept DEF PermitStopped, Step, At, Owned, Inline
  <2>5. CASE Refresh
    BY <2>5, PermitsKept DEF Refresh, Step, At, Owned, Inline
  <2>6. CASE Snapshot
    BY <2>6, PermitsKept DEF Snapshot, Step, At, Owned, Inline
  <2>7. CASE Recovered
    BY <2>7, PermitsKept DEF Recovered, Step, At, Owned, Inline
  <2>8. CASE Forget
    BY <2>8, PermitsKept DEF Forget, Step, At, Owned, Inline
  <2>9. CASE PopLoop
    BY <2>9, PermitsKept DEF PopLoop, Step, At, Owned, Inline
  <2>10. CASE PopNone
    BY <2>10, PermitsKept DEF PopNone, Step, At, Owned, Inline
  <2>11. CASE Decoded
    BY <2>11, PermitsKept DEF Decoded, Step, At, Owned, Inline
  <2>12. CASE Release
    <3>1. \A c \in Claim : Owned(c)' <=> Owned(c)
      BY <2>12 DEF Release, Step, At, Owned, Inline
    <3>2. permits' = (IF held THEN permits + 1 ELSE permits) /\ held' = FALSE
      BY <2>12 DEF Release
    <3>3. Cardinality(Owning) \in Nat
      BY FS_CardinalityType DEF Permits
    <3> QED
      BY <3>1, <3>2, <3>3, SameOwning DEF Where, Permits
  <2>13. CASE Join
    BY <2>13, PermitsKept DEF Join, Step, At, Owned, Inline
  <2>14. CASE StopCalled("main")
    BY <2>14, PermitsKept DEF StopCalled, main, Owned, Inline
  <2>15. ASSUME NEW t \in Task,
             \/ RecoverAbandoned(t) \/ Pop(t) \/ Begin(t) \/ BeginNothing(t)
             \/ Register(t) \/ DecodeFails(t) \/ Discard(t) \/ Submit(t)
       PROVE  Permits'
    <3>1. CASE RecoverAbandoned(t)
      BY <3>1, PermitsKept DEF RecoverAbandoned, At, main, Owned, Inline
    <3>2. CASE Pop(t)
      BY <3>2, PermitsKept DEF Pop, Step, At, Owned, Inline
    <3>3. CASE Begin(t)
      BY <3>3, PermitsKept DEF Begin, Step, At, flags, TypeOK, Where, Owned, Inline,
         Ending
    <3>4. CASE BeginNothing(t)
      BY <3>4, PermitsKept DEF BeginNothing, Step, At, Owned, Inline
    <3>5. CASE Register(t)
      BY <3>5, PermitsKept DEF Register, Step, At, Owned, Inline
    <3>6. CASE DecodeFails(t)
      BY <3>6, PermitsKept DEF DecodeFails, Step, At, Owned, Inline
    <3>7. CASE Discard(t)
      BY <3>7, PermitsKept DEF Discard, Step, At, Where, Begun, Owned, Inline, Ending
    <3>8. CASE Submit(t)
      <4>1. pc = "submit" /\ t \in cur /\ cur = {t} /\ token[t] > 0 /\ UNCHANGED token
        BY <3>8 DEF Submit, Step, At, Where, Begun, redis
      <4>2. Current(t) \in Claim /\ Current(t)[1] = t
        BY <4>1, CurrentClaim
      <4>3. thread[Current(t)] = "claimed" /\ (held <=> Pooled)
        BY <4>1 DEF Where, Begun, Holding
      <4>4. \A d \in Claim : ~Inline(d)
        BY <4>1 DEF Inline
      <4>5. ~Owned(Current(t)) /\ permits' = permits /\ ~held'
        BY <3>8, <4>2, <4>3, <4>4 DEF Submit, Owned, Ending
      <4>6. CASE pc' = "release"
        <5>1. thread' = [thread EXCEPT ![Current(t)] = "queued"]
          BY <3>8, <4>6 DEF Submit, Step
        <5>2. thread'[Current(t)] = "queued"
          BY <4>2, <5>1 DEF TypeOK
        <5>3. \A d \in Claim : ~Inline(d)'
          BY <4>6 DEF Inline
        <5>4. \A d \in Claim \ {Current(t)} : thread'[d] = thread[d]
          BY <5>1
        <5>5. \A d \in Claim \ {Current(t)} : Owned(d)' <=> Owned(d)
          BY <4>4, <5>3, <5>4 DEF Owned
        <5>6. \A d \in Claim : d = Current(t) => Owned(d)'
          BY <5>2 DEF Owned
        <5>7. PICK c \in Claim : c = Current(t)
          BY <4>2
        <5> QED
          BY <4>3, <4>5, <5>5, <5>6, <5>7, PermitsGained
      <4>7. CASE pc' = "inline"
        <5>1. cur' = cur /\ thread' = thread
          BY <3>8, <4>7 DEF Submit, Step
        <5>2. PICK c \in Claim : c = Current(t)
          BY <4>2
        <5>3. c[1] = t /\ c = <<t, token[t]>>
          BY <4>2, <5>2 DEF Current
        <5>4. Inline(c)'
          BY <4>1, <4>7, <5>1, <5>3 DEF Inline, Current
        <5>5. Owned(c)'
          BY <4>3, <5>1, <5>2, <5>4 DEF Owned, Waiting
        <5>6. \A d \in Claim \ {c} : ~Inline(d)'
          BY <4>1, <5>1, <5>3 DEF Inline, Current
        <5>7. \A d \in Claim \ {c} : Owned(d)' <=> Owned(d)
          BY <4>4, <5>1, <5>6 DEF Owned
        <5> QED
          BY <4>3, <4>5, <5>2, <5>5, <5>7, PermitsGained
      <4> QED
        BY <3>8, <4>6, <4>7 DEF Submit, Step
    <3> QED
      BY <2>15, <3>1, <3>2, <3>3, <3>4, <3>5, <3>6, <3>7, <3>8
  <2> QED
    BY <1>1, <2>1, <2>2, <2>3, <2>4, <2>5, <2>6, <2>7, <2>8, <2>9, <2>10, <2>11, <2>12,
       <2>13, <2>14, <2>15 DEF MainStep
<1>2. ASSUME StopStep \/ PollRaises \/ HeartbeatLoop \/ Lapse \/ StopCalled("other")
               \/ StopCalled("signal")
      PROVE  Permits'
  <2>1. CASE StopLocks
    BY <2>1, PermitsKept DEF StopLocks, redis, main, Owned, Inline, Current
  <2>2. CASE StopDrains
    BY <2>2, PermitsKept DEF StopDrains, redis, main, Owned, Inline, Current
  <2>3. CASE StopRunning
    BY <2>3, PermitsKept DEF StopRunning, redis, main, Owned, Inline, Current
  <2>4. CASE StopFlags
    <3>1. \A c \in Claim : Owned(c)' <=> Owned(c)
      BY <2>4 DEF StopFlags, Stops, Owned, Inline, Current, redis
    <3> QED
      BY <2>4, <3>1, PermitsKept DEF StopFlags
  <2>5. CASE PollRaises
    BY <2>5, PermitsKept DEF PollRaises, Step, At, Owned, Inline
  <2>6. CASE HeartbeatLoop
    BY <2>6, PermitsKept DEF HeartbeatLoop, redis, main, Owned, Inline, Current
  <2>7. CASE Lapse
    BY <2>7, PermitsKept DEF Lapse, redis, main, Owned, Inline, Current
  <2>8. CASE StopCalled("other")
    BY <2>8, PermitsKept DEF StopCalled, redis, main, Owned, Inline, Current
  <2>9. CASE StopCalled("signal")
    BY <2>9, PermitsKept DEF StopCalled, redis, main, Owned, Inline, Current
  <2> QED
    BY <1>2, <2>1, <2>2, <2>3, <2>4, <2>5, <2>6, <2>7, <2>8, <2>9 DEF StopStep
<1>3. ASSUME NEW c \in Claim, ClaimStep(c) \/ SettleLost(c) \/ Interrupted(c)
      PROVE  Permits'
  <2>1. CASE Admit(c)
    BY <2>1, PermitsKept DEF Admit, MayRun, MayAdmit, Stage, Inline, Current, redis,
       Owned
  <2>2. CASE ReturnUnstarted(c)
    BY <2>2, PermitsKept DEF ReturnUnstarted, MayRun, MayAdmit, Stage, Inline, Current,
       redis, TypeOK, Owned, Ending
  <2>3. CASE Settle(c)
    BY <2>3, PermitsKept DEF Settle, Settles, MayRun, Stage, main, redis, Owned, Inline,
       Current, Ending
  <2>4. CASE End(c)
    <3>1. thread[c] \in Ending /\ Owned(c)
      BY <2>4 DEF End, MayRun, Owned
    <3>2. /\ thread' = [thread EXCEPT ![c] = IF thread[c] = "interrupted" THEN "lost" ELSE "over"]
          /\ permits' = (IF Pooled THEN permits + 1 ELSE permits)
          /\ UNCHANGED <<token, held>>
      BY <2>4 DEF End, Stage, redis
    <3>3. thread'[c] \in Ended /\ \A d \in Claim \ {c} : thread'[d] = thread[d]
      BY <3>2 DEF TypeOK, Ended
    <3>4. ~Owned(c)'
      BY <3>3 DEF Owned, Ended, Ending, Waiting
    <3>5. \A d \in Claim \ {c} : Owned(d)' <=> Owned(d)
      <4>1. CASE Inline(c)
        <5>1. pc = "inline" /\ pc' # "inline"
          BY <2>4, <4>1 DEF End, Inline
        <5>2. c[1] \in cur /\ c = Current(c[1]) /\ c[1] \in Task /\ cur = {c[1]}
          BY <4>1 DEF Inline, Claim, Where
        <5>3. \A d \in Claim \ {c} : ~Inline(d)
          BY <5>2 DEF Inline
        <5>4. \A d \in Claim : ~Inline(d)'
          BY <5>1 DEF Inline
        <5> QED
          BY <3>3, <5>3, <5>4 DEF Owned
      <4>2. CASE ~Inline(c)
        <5>1. UNCHANGED <<pc, cur>>
          BY <2>4, <4>2 DEF End
        <5>2. \A d \in Claim : Inline(d)' <=> Inline(d)
          BY <3>2, <5>1 DEF Inline, Current
        <5> QED
          BY <3>3, <5>2 DEF Owned
      <4> QED
        BY <4>1, <4>2
    <3> QED
      BY <3>1, <3>2, <3>4, <3>5, PermitsLost
  <2>5. CASE SettleLost(c)
    BY <2>5, PermitsKept DEF SettleLost, Settles, MayRun, Stage, redis, main, TypeOK,
       Owned, Inline, Current, Ending
  <2>6. CASE Interrupted(c)
    BY <2>6, PermitsKept DEF Interrupted, MayRun, Stage, redis, main, Owned, Inline,
       Current, Ending
  <2> QED
    BY <1>3, <2>1, <2>2, <2>3, <2>4, <2>5, <2>6 DEF ClaimStep
<1>4. ASSUME NEW t \in Task, TakenOver(t) \/ MoveRetry(t) PROVE Permits'
  <2>1. CASE TakenOver(t)
    BY <2>1, PermitsKept DEF TakenOver, main, Owned, Inline, Current
  <2>2. CASE MoveRetry(t)
    BY <2>2, PermitsKept DEF MoveRetry, Current, main, Owned, Inline
  <2> QED
    BY <1>4, <2>1, <2>2
<1>5. CASE UNCHANGED vars
  BY <1>5, PermitsKept DEF vars, redis, main, Owned, Inline, Current
<1> QED
  BY <1>1, <1>2, <1>3, <1>4, <1>5 DEF Next

-----------------------------------------------------------------------------
\* The types of what a settlement script writes.
RedisTypes ==
    /\ where \in [Task -> {"ready", "box", "delay", "away"}]
    /\ message \in [Task -> 0..MaxClaims] /\ token \in [Task -> 0..MaxClaims]
    /\ attempt \in [Task -> 0..MaxClaims]
    /\ processing \subseteq Task

LEMMA SettlesTypes ==
    ASSUME Values, NEW c \in Claim, Settles(c)
    PROVE  RedisTypes'
BY CountAssumption DEF Settles, Values, RedisTypes, redis

\* The flags stay Boolean, ...
LEMMA SwitchesStep ==
    Switches /\ [Next]_vars => Switches'
<1> SUFFICES ASSUME Switches, [Next]_vars PROVE Switches'
  OBVIOUS
<1>1. ASSUME MainStep PROVE Switches'
  <2>1. CASE Enter
    BY <2>1 DEF Enter, Current, Needs, redis, live, flags, Switches
  <2>2. CASE Loop
    BY <2>2 DEF Loop, live, flags, Switches
  <2>3. CASE Permit
    BY <2>3 DEF Permit, live, flags, Switches
  <2>4. CASE PermitStopped
    BY <2>4 DEF PermitStopped, live, flags, Switches
  <2>5. CASE Refresh
    BY <2>5 DEF Refresh, flags, Switches
  <2>6. CASE Snapshot
    BY <2>6 DEF Snapshot, live, flags, Switches
  <2>7. CASE Recovered
    BY <2>7 DEF Recovered, live, flags, Switches
  <2>8. CASE Forget
    BY <2>8 DEF Forget, live, flags, Switches
  <2>9. CASE PopLoop
    BY <2>9 DEF PopLoop, live, flags, Switches
  <2>10. CASE PopNone
    BY <2>10 DEF PopNone, live, flags, Switches
  <2>11. CASE Decoded
    BY <2>11 DEF Decoded, live, flags, Switches
  <2>12. CASE Release
    BY <2>12 DEF Release, live, flags, Switches
  <2>13. CASE Join
    BY <2>13 DEF Join, Switches
  <2>14. CASE StopCalled("main")
    BY <2>14 DEF StopCalled, live, main, flags, Switches
  <2>15. ASSUME NEW t \in Task,
             \/ RecoverAbandoned(t) \/ Pop(t) \/ Begin(t) \/ BeginNothing(t)
             \/ Register(t) \/ DecodeFails(t) \/ Discard(t) \/ Submit(t)
       PROVE  Switches'
    <3>1. CASE RecoverAbandoned(t)
      BY <3>1 DEF RecoverAbandoned, live, main, flags, Switches
    <3>2. CASE Pop(t)
      BY <3>2 DEF Pop, live, flags, Switches
    <3>3. CASE Begin(t)
      BY <3>3 DEF Begin, live, flags, Switches
    <3>4. CASE BeginNothing(t)
      BY <3>4 DEF BeginNothing, live, flags, Switches
    <3>5. CASE Register(t)
      BY <3>5 DEF Register, live, flags, Switches
    <3>6. CASE DecodeFails(t)
      BY <3>6 DEF DecodeFails, live, flags, Switches
    <3>7. CASE Discard(t)
      BY <3>7 DEF Discard, live, flags, Switches
    <3>8. CASE Submit(t)
      BY <3>8 DEF Submit, live, flags, Switches
    <3> QED
      BY <2>15, <3>1, <3>2, <3>3, <3>4, <3>5, <3>6, <3>7, <3>8
  <2> QED
    BY <1>1, <2>1, <2>2, <2>3, <2>4, <2>5, <2>6, <2>7, <2>8, <2>9, <2>10, <2>11, <2>12,
       <2>13, <2>14, <2>15 DEF MainStep
<1>2. ASSUME StopStep \/ PollRaises \/ HeartbeatLoop \/ Lapse \/ StopCalled("other")
               \/ StopCalled("signal")
      PROVE  Switches'
  <2>1. CASE StopLocks
    BY <2>1 DEF StopLocks, live, main, flags, Switches
  <2>2. CASE StopDrains
    BY <2>2 DEF StopDrains, live, main, Switches
  <2>3. CASE StopRunning
    BY <2>3 DEF StopRunning, live, main, Switches
  <2>4. CASE StopFlags
    BY <2>4 DEF StopFlags, live, Switches
  <2>5. CASE PollRaises
    BY <2>5 DEF PollRaises, live, flags, Switches
  <2>6. CASE HeartbeatLoop
    BY <2>6 DEF HeartbeatLoop, live, main, flags, Switches
  <2>7. CASE Lapse
    BY <2>7 DEF Lapse, main, flags, Switches
  <2>8. CASE StopCalled("other")
    BY <2>8 DEF StopCalled, live, main, flags, Switches
  <2>9. CASE StopCalled("signal")
    BY <2>9 DEF StopCalled, live, main, flags, Switches
  <2> QED
    BY <1>2, <2>1, <2>2, <2>3, <2>4, <2>5, <2>6, <2>7, <2>8, <2>9 DEF StopStep
<1>3. ASSUME NEW c \in Claim, ClaimStep(c) \/ SettleLost(c) \/ Interrupted(c)
      PROVE  Switches'
  <2>1. CASE Admit(c)
    BY <2>1 DEF Admit, live, flags, Switches
  <2>2. CASE ReturnUnstarted(c)
    BY <2>2 DEF ReturnUnstarted, live, flags, Switches
  <2>3. CASE Settle(c)
    BY <2>3 DEF Settle, live, main, flags, Switches
  <2>4. CASE End(c)
    BY <2>4 DEF End, live, flags, Switches
  <2>5. CASE SettleLost(c)
    BY <2>5 DEF SettleLost, live, main, flags, Switches
  <2>6. CASE Interrupted(c)
    BY <2>6 DEF Interrupted, live, main, flags, Switches
  <2> QED
    BY <1>3, <2>1, <2>2, <2>3, <2>4, <2>5, <2>6 DEF ClaimStep
<1>4. ASSUME NEW t \in Task, TakenOver(t) \/ MoveRetry(t) PROVE Switches'
  <2>1. CASE TakenOver(t)
    BY <2>1 DEF TakenOver, live, main, flags, Switches
  <2>2. CASE MoveRetry(t)
    BY <2>2 DEF MoveRetry, live, main, flags, Switches
  <2> QED
    BY <1>4, <2>1, <2>2
<1>5. CASE UNCHANGED vars
  BY <1>5 DEF vars, live, main, flags, Switches
<1> QED
  BY <1>1, <1>2, <1>3, <1>4, <1>5 DEF Next

\* ... and the other variables keep their types; only for the semaphore does
\* that depend on more than the place of the main thread.
LEMMA ValuesStep ==
    Values /\ Where /\ permits' \in 0..Slots /\ [Next]_vars => Values'
<1> SUFFICES ASSUME Values, Where, permits' \in 0..Slots, [Next]_vars PROVE Values'
  OBVIOUS
<1>1. ASSUME MainStep PROVE Values'
  <2>1. CASE Enter
    BY <2>1, CountAssumption DEF Enter, Current, Needs, redis, live, flags, stops,
       claims, Values, Where, Claim
  <2>2. CASE Loop
    BY <2>2 DEF Loop, Step, redis, stops, claims, Values
  <2>3. CASE Permit
    BY <2>3 DEF Permit, Step, redis, stops, claims, Values
  <2>4. CASE PermitStopped
    BY <2>4 DEF PermitStopped, Step, redis, stops, claims, Values
  <2>5. CASE Refresh
    BY <2>5 DEF Refresh, Step, redis, stops, claims, Values
  <2>6. CASE Snapshot
    BY <2>6 DEF Snapshot, Step, redis, stops, claims, Values
  <2>7. CASE Recovered
    BY <2>7 DEF Recovered, Step, redis, stops, claims, Values
  <2>8. CASE Forget
    BY <2>8 DEF Forget, Step, redis, stops, Values
  <2>9. CASE PopLoop
    BY <2>9 DEF PopLoop, Step, redis, stops, claims, Values
  <2>10. CASE PopNone
    BY <2>10 DEF PopNone, Step, redis, stops, claims, Values
  <2>11. CASE Decoded
    BY <2>11 DEF Decoded, Step, redis, stops, claims, Values
  <2>12. CASE Release
    BY <2>12 DEF Release, Step, redis, stops, claims, Values
  <2>13. CASE Join
    BY <2>13 DEF Join, Step, redis, stops, claims, Values
  <2>14. CASE StopCalled("main")
    BY <2>14 DEF StopCalled, redis, main, claims, Values
  <2>15. ASSUME NEW t \in Task,
             \/ RecoverAbandoned(t) \/ Pop(t) \/ Begin(t) \/ BeginNothing(t)
             \/ Register(t) \/ DecodeFails(t) \/ Discard(t) \/ Submit(t)
       PROVE  Values'
    <3>1. CASE RecoverAbandoned(t)
      BY <3>1, CountAssumption DEF RecoverAbandoned, GoesBack, main, stops, claims,
         Values
    <3>2. CASE Pop(t)
      BY <3>2 DEF Pop, Step, stops, claims, Values
    <3>3. CASE Begin(t)
      <4>1. token[t] + 1 \in 0..MaxClaims /\ attempt[t] + 1 \in 0..MaxClaims
        <5>1. token[t] < MaxClaims /\ attempt[t] <= token[t]
          BY <3>3 DEF Begin, Step, At, Where
        <5>2. token[t] \in Nat /\ attempt[t] \in Nat /\ MaxClaims \in Nat
          BY CountAssumption DEF Values
        <5> QED
          BY <5>1, <5>2
      <4>2. /\ message' \in [Task -> 0..MaxClaims] /\ token' \in [Task -> 0..MaxClaims]
            /\ attempt' \in [Task -> 0..MaxClaims] /\ processing' \subseteq Task
        BY <3>3, <4>1 DEF Begin, Values
      <4>3. thread' \in [Claim -> InFlight \cup Ending \cup Ended \cup {"none"}]
        BY <3>3 DEF Begin, Values, InFlight, Waiting
      <4>4. pc' \in {"register", "release"} /\ inside' = "none" /\ cur' \subseteq Task
        BY <3>3 DEF Begin, Step, Values
      <4>5. UNCHANGED <<where, seen, seenSpent, permits, active, spent, hb, stopper, stopPc, runs>>
        BY <3>3 DEF Begin, claims, stops
      <4> QED
        BY <4>2, <4>3, <4>4, <4>5 DEF Values
    <3>4. CASE BeginNothing(t)
      BY <3>4 DEF BeginNothing, Step, redis, stops, claims, Values
    <3>5. CASE Register(t)
      BY <3>5 DEF Register, Step, redis, stops, Values
    <3>6. CASE DecodeFails(t)
      <4>1. token[t] > 0 /\ t \in cur
        BY <3>6 DEF DecodeFails, Step, At, Where, Begun
      <4>2. PICK c \in Claim : c = Current(t)
        <5>1. token[t] \in 1..MaxClaims
          BY <4>1 DEF Values
        <5>2. Current(t) \in Claim
          BY <5>1 DEF Current, Claim
        <5> QED
          BY <5>2
      <4>3. RedisTypes'
        BY <3>6, <4>2, SettlesTypes DEF DecodeFails, RedisTypes, Values, redis
      <4> QED
        BY <3>6, <4>3 DEF DecodeFails, Step, RedisTypes, stops, claims, Values
    <3>7. CASE Discard(t)
      <4>1. thread' \in [Claim -> InFlight \cup Ending \cup Ended \cup {"none"}]
        BY <3>7 DEF Discard, Values, Ended
      <4>2. pc' \in {"pop", "release"} /\ inside' = "none" /\ cur' = {}
        BY <3>7 DEF Discard, Step
      <4>3. spent' \subseteq Task
        BY <3>7 DEF Discard, Values
      <4>4. active' \in [Task -> 0..MaxClaims]
        BY <3>7, CountAssumption DEF Discard, Values
      <4>5. UNCHANGED <<redis, seen, seenSpent, permits, hb, stopper, stopPc, runs>>
        BY <3>7 DEF Discard, stops
      <4> QED
        BY <4>1, <4>2, <4>3, <4>4, <4>5 DEF Values, redis
    <3>8. CASE Submit(t)
      BY <3>8 DEF Submit, Step, redis, stops, claims, Values, InFlight, Waiting
    <3> QED
      BY <2>15, <3>1, <3>2, <3>3, <3>4, <3>5, <3>6, <3>7, <3>8
  <2> QED
    BY <1>1, <2>1, <2>2, <2>3, <2>4, <2>5, <2>6, <2>7, <2>8, <2>9, <2>10, <2>11, <2>12,
       <2>13, <2>14, <2>15 DEF MainStep
<1>2. ASSUME StopStep \/ PollRaises \/ HeartbeatLoop \/ Lapse \/ StopCalled("other")
               \/ StopCalled("signal")
      PROVE  Values'
  <2>1. CASE StopLocks
    BY <2>1 DEF StopLocks, redis, main, claims, Values
  <2>2. CASE StopDrains
    BY <2>2 DEF StopDrains, redis, main, claims, Values
  <2>3. CASE StopRunning
    BY <2>3 DEF StopRunning, redis, main, claims, Values
  <2>4. CASE StopFlags
    BY <2>4 DEF StopFlags, redis, claims, Values
  <2>5. CASE PollRaises
    BY <2>5 DEF PollRaises, Step, redis, stops, claims, Values
  <2>6. CASE HeartbeatLoop
    BY <2>6 DEF HeartbeatLoop, redis, main, stops, claims, Values
  <2>7. CASE Lapse
    BY <2>7 DEF Lapse, redis, main, stops, claims, Values
  <2>8. CASE StopCalled("other")
    BY <2>8 DEF StopCalled, redis, main, claims, Values
  <2>9. CASE StopCalled("signal")
    BY <2>9 DEF StopCalled, redis, main, claims, Values
  <2> QED
    BY <1>2, <2>1, <2>2, <2>3, <2>4, <2>5, <2>6, <2>7, <2>8, <2>9 DEF StopStep
<1>3. ASSUME NEW c \in Claim, ClaimStep(c) \/ SettleLost(c) \/ Interrupted(c)
      PROVE  Values'
  <2>1. CASE Admit(c)
    BY <2>1 DEF Admit, Stage, redis, stops, claims, Values, Claim, InFlight
  <2>2. CASE ReturnUnstarted(c)
    <3>1. RedisTypes'
      <4>1. CASE Owns(c) /\ c[1] \in processing /\ GoesBack(c[1])
                   /\ attempt' = [attempt EXCEPT ![c[1]] = attempt[c[1]] - 1]
                   /\ UNCHANGED <<message, token>>
        <5>1. c[1] \in Task /\ attempt[c[1]] \in 1..MaxClaims
          BY <4>1 DEF Values, Where
        <5>2. attempt[c[1]] - 1 \in 0..MaxClaims
          BY <5>1, CountAssumption
        <5> QED
          BY <4>1, <5>1, <5>2 DEF GoesBack, RedisTypes, Values
      <4>2. CASE UNCHANGED redis
        BY <4>2 DEF RedisTypes, Values, redis
      <4> QED
        BY <2>2, <4>1, <4>2 DEF ReturnUnstarted
    <3>2. thread' \in [Claim -> InFlight \cup Ending \cup Ended \cup {"none"}]
      BY <2>2 DEF ReturnUnstarted, Stage, Values, Ending
    <3>3. inside' \in {"none", "start", "claims"}
      BY <2>2 DEF ReturnUnstarted, Values
    <3>4. UNCHANGED <<pc, cur, seen, seenSpent, permits, active, spent, hb, stopper, stopPc, runs>>
      BY <2>2 DEF ReturnUnstarted, claims, stops
    <3> QED
      BY <3>1, <3>2, <3>3, <3>4 DEF RedisTypes, Values
  <2>3. CASE Settle(c)
    <3>1. RedisTypes'
      BY <2>3, SettlesTypes DEF Settle
    <3> QED
      BY <2>3, <3>1 DEF Settle, Stage, RedisTypes, main, stops, claims, Values, Ending
  <2>4. CASE End(c)
    BY <2>4, CountAssumption DEF End, Stage, redis, stops, Values, Claim, Ended
  <2>5. CASE SettleLost(c)
    <3>1. RedisTypes'
      BY <2>5, SettlesTypes DEF SettleLost, RedisTypes, Values, redis
    <3> QED
      BY <2>5, <3>1 DEF SettleLost, Stage, RedisTypes, main, stops, claims, Values,
         Ending
  <2>6. CASE Interrupted(c)
    BY <2>6 DEF Interrupted, Stage, redis, main, stops, claims, Values, Ending
  <2> QED
    BY <1>3, <2>1, <2>2, <2>3, <2>4, <2>5, <2>6 DEF ClaimStep
<1>4. ASSUME NEW t \in Task, TakenOver(t) \/ MoveRetry(t) PROVE Values'
  <2>1. CASE TakenOver(t)
    BY <2>1 DEF TakenOver, GoesBack, main, stops, claims, Values
  <2>2. CASE MoveRetry(t)
    BY <2>2 DEF MoveRetry, main, stops, claims, Values
  <2> QED
    BY <1>4, <2>1, <2>2
<1>5. CASE UNCHANGED vars
  BY <1>5 DEF vars, redis, main, stops, claims, Values
<1> QED
  BY <1>1, <1>2, <1>3, <1>4, <1>5 DEF Next

-----------------------------------------------------------------------------
\* The inductive invariant.
Inv == TypeOK /\ Stops /\ Where /\ Permits

LEMMA InitInv == Init => Inv
<1> SUFFICES ASSUME Init PROVE Inv
  OBVIOUS
<1>1. TypeOK
  <2>1. Switches
    BY DEF Init, Switches
  <2>2. Values
    BY CountAssumption DEF Init, Values
  <2> QED
    BY <2>1, <2>2, TypeParts
<1>2. Stops
  BY DEF Init, Stops
<1>3. Where
  BY DEF Init, Where, Begun, Holding
<1>4. Permits
  <2>1. Owning = {}
    BY DEF Init, Owning, Owned, Inline, Ending
  <2>2. IsFiniteSet(Owning) /\ Cardinality(Owning) = 0
    BY <2>1, FS_EmptySet
  <2> QED
    BY <2>2, CountAssumption DEF Init, Permits
<1> QED
  BY <1>1, <1>2, <1>3, <1>4 DEF Inv

LEMMA InvStep == Inv /\ [Next]_vars => Inv'
<1> SUFFICES ASSUME Inv, [Next]_vars PROVE Inv'
  OBVIOUS
<1>1. Stops' /\ Where' /\ Permits'
  BY StopsStep, WhereStep, PermitsStep DEF Inv
<1>2. permits' \in 0..Slots
  <2>1. Cardinality(Owning)' \in Nat
    BY <1>1, FS_CardinalityType DEF Permits
  <2> QED
    BY <1>1, <2>1 DEF Permits
<1>3. Switches' /\ Values'
  BY <1>2, SwitchesStep, ValuesStep, TypeParts DEF Inv
<1>4. TypeOK'
  BY <1>3 DEF TypeOK, Switches, Values
<1> QED
  BY <1>1, <1>4 DEF Inv

THEOREM InvHolds == Spec => []Inv
<1> QED
  BY InitInv, InvStep, PTL DEF Spec

\* Every variable keeps its type: no attempt is given back that was not
\* charged, the semaphore is never over its limit.
THEOREM TypeCorrect == Spec => []TypeOK
<1>1. Inv => TypeOK
  BY DEF Inv
<1> QED
  BY <1>1, InvHolds, PTL

\* No permit is lost and none is made, whatever fails in the poll, in the
\* hand-over to the pool or in a handler, and whenever stop() comes.
THEOREM PermitsConservedHolds == Spec => []PermitsConserved
<1>1. Inv => PermitsConserved
  <2> SUFFICES ASSUME Inv PROVE PermitsConserved
    OBVIOUS
  <2>1. Owning = {c \in Claim : \/ thread[c] \in {"queued", "running"} \cup Ending
                                \/ Inline(c) /\ thread[c] \in Waiting}
    BY DEF Owning, Owned
  <2> QED
    BY <2>1 DEF Inv, Permits, PermitsConserved
<1> QED
  BY <1>1, InvHolds, PTL

\* However stop() and the reads of the heartbeat thread interleave, it ends only
\* when every claim has ended.
THEOREM HeartbeatCoversClaimsHolds == Spec => []HeartbeatCoversClaims
<1>1. Inv => HeartbeatCoversClaims
  BY DEF Inv, Stops, HeartbeatCoversClaims
<1> QED
  BY <1>1, InvHolds, PTL

-----------------------------------------------------------------------------
\* The registry of active claims is by task: it tells the truth as long as at
\* most one claim of each task is not over.

Alive(c) == thread[c] \in InFlight \cup Ending

\* The poll loop between the look at running and the look at the stop request.
Early == {"permit", "refresh", "snapshot", "recover", "forget"}

\* The claims whose message nobody may take.  After stop() a message that was
\* returned may be popped once more while its thread still ends.
Steady(c) ==
    \/ thread[c] = "running"
    \/ thread[c] = "interrupted" /\ "settle" \notin Faults
    \/ Alive(c) /\ ~event
    \/ thread[c] \in Waiting /\ pc \in Early

Sole(c) == \A d \in Claim : d[1] = c[1] /\ d # c => ~Alive(d)

SteadyInv(c) ==
    Steady(c) =>
        /\ c = Current(c[1]) /\ Sole(c)
        /\ where[c[1]] \in {"delay", "away"} \/ Owns(c)
        /\ ~(pc = "popped" /\ c[1] \in cur)
        /\ (pc = "register" /\ c[1] \in cur) \/ active[c[1]] = c[2]
        /\ pc = "recover" => seen[c[1]] = c[2]

Registrations == (event => ~running) /\ \A c \in Claim : SteadyInv(c)

LEMMA SteadyFrame ==
    ASSUME NEW c \in Claim, SteadyInv(c),
           where'[c[1]] = where[c[1]], message'[c[1]] = message[c[1]],
           token'[c[1]] = token[c[1]], active'[c[1]] = active[c[1]],
           \A d \in Claim : d[1] = c[1] => thread'[d] = thread[d],
           ~event' => ~event,
           pc' \in Early => pc \in Early \/ ~event,
           pc' = "popped" /\ c[1] \in cur' => pc = "popped" /\ c[1] \in cur,
           pc = "register" /\ c[1] \in cur => pc' = "register" /\ c[1] \in cur',
           pc' = "recover" => pc = "recover" /\ seen' = seen
    PROVE  SteadyInv(c)'
<1>1. Steady(c)' => Steady(c)
  BY DEF Steady, Alive, InFlight
<1>2. Sole(c) => Sole(c)'
  BY DEF Sole, Alive
<1>3. (Current(c[1])' = Current(c[1])) /\ (Owns(c)' <=> Owns(c))
  BY DEF Current, Owns
<1> QED
  BY <1>1, <1>2, <1>3 DEF SteadyInv

\* A claim of a task that has another living claim is not steady.
LEMMA NotSteady ==
    ASSUME NEW c \in Claim, NEW d \in Claim, SteadyInv(c), d[1] = c[1], d # c, Alive(d)
    PROVE  ~Steady(c)
BY DEF SteadyInv, Sole

\* stop() clears running before it sets the event.
LEMMA EventStep ==
    ASSUME Stops, event => ~running, [Next]_vars
    PROVE  event' => ~running'
<1>1. CASE MainStep
  <2>1. UNCHANGED <<event, running>>
    BY <1>1 DEF MainStep, Enter, Loop, Permit, PermitStopped, Refresh, Snapshot, Recovered,
       Forget, PopLoop, PopNone, Decoded, Release, Join, StopCalled, RecoverAbandoned, Pop,
       Begin, BeginNothing, Register, DecodeFails, Discard, Submit, flags
  <2> QED
    BY <2>1
<1>2. CASE StopStep
  BY <1>2 DEF StopStep, StopLocks, StopDrains, StopRunning, StopFlags, Stops, flags
<1>3. CASE \/ PollRaises \/ HeartbeatLoop \/ Lapse \/ StopCalled("other") \/ StopCalled("signal")
           \/ \E t \in Task : TakenOver(t) \/ MoveRetry(t)
           \/ UNCHANGED vars
  BY <1>3 DEF PollRaises, HeartbeatLoop, Lapse, StopCalled, TakenOver, MoveRetry, flags, vars
<1>4. CASE \E c \in Claim : ClaimStep(c) \/ SettleLost(c) \/ Interrupted(c)
  BY <1>4 DEF ClaimStep, Admit, ReturnUnstarted, Settle, End, SettleLost, Interrupted, flags
<1> QED
  BY <1>1, <1>2, <1>3, <1>4 DEF Next

\* Without a task that comes back while its thread still ends ("due"), whatever
\* stop(), the poll, the pool and the recovery do, a steady claim stays registered.
LEMMA RegistrationsStep ==
    ASSUME "due" \notin Faults
    PROVE  Inv /\ Registrations /\ [Next]_vars => Registrations'
<1> SUFFICES ASSUME Inv, Registrations, [Next]_vars PROVE Registrations'
  OBVIOUS
<1>0. event' => ~running'
  BY EventStep DEF Registrations, Inv
<1> SUFFICES ASSUME NEW c \in Claim PROVE SteadyInv(c)'
  BY <1>0 DEF Registrations
<1>s. SteadyInv(c) /\ (event => ~running)
  BY DEF Registrations
<1>t. c[1] \in Task /\ c[2] \in 1..MaxClaims /\ c = <<c[1], c[2]>>
  BY DEF Claim
<1>1. ASSUME MainStep PROVE SteadyInv(c)'
  <2>1. CASE Enter
    BY <1>s, <2>1, SteadyFrame DEF Enter, Current, Needs, redis, claims, flags, Early
  <2>2. CASE Loop
    BY <1>s, <2>2, SteadyFrame DEF Loop, Step, At, redis, claims, flags, Early
  <2>3. CASE Permit
    BY <1>s, <2>3, SteadyFrame DEF Permit, Step, At, redis, claims, flags, Early
  <2>4. CASE PermitStopped
    BY <1>s, <2>4, SteadyFrame DEF PermitStopped, Step, At, redis, claims, flags, Early
  <2>5. CASE Refresh
    BY <1>s, <2>5, SteadyFrame DEF Refresh, Step, At, redis, claims, flags, Early
  <2>6. CASE Snapshot
    <3>1. /\ UNCHANGED <<redis, claims, flags, thread, cur>>
          /\ pc = "snapshot" /\ pc' = "recover" /\ seen' = active
      BY <2>6 DEF Snapshot, Step, At, redis, claims, flags
    <3>2. (Steady(c)' <=> Steady(c)) /\ (Sole(c)' <=> Sole(c)) /\ (Owns(c)' <=> Owns(c))
          /\ Current(c[1])' = Current(c[1])
      BY <3>1 DEF Steady, Alive, Sole, Owns, Current, Early, redis, flags
    <3> QED
      BY <1>s, <3>1, <3>2 DEF SteadyInv, redis, claims
  <2>7. CASE Recovered
    BY <1>s, <2>7, SteadyFrame DEF Recovered, Step, At, redis, claims, flags, Early
  <2>8. CASE Forget
    BY <1>s, <2>8, SteadyFrame DEF Forget, Step, At, redis, claims, flags, Early
  <2>9. CASE PopLoop
    BY <1>s, <2>9, SteadyFrame DEF PopLoop, Step, At, redis, claims, flags, Early
  <2>10. CASE PopNone
    BY <1>s, <2>10, SteadyFrame DEF PopNone, Step, At, redis, claims, flags, Early
  <2>11. CASE Decoded
    BY <1>s, <2>11, SteadyFrame DEF Decoded, Step, At, redis, claims, flags, Early
  <2>12. CASE Release
    BY <1>s, <2>12, SteadyFrame DEF Release, Step, At, redis, claims, flags, Early
  <2>13. CASE Join
    BY <1>s, <2>13, SteadyFrame DEF Join, Step, At, redis, claims, flags, Early
  <2>14. CASE StopCalled("main")
    BY <1>s, <2>14, SteadyFrame DEF StopCalled, redis, main, claims, flags, Early
  <2>15. ASSUME NEW t \in Task,
             \/ RecoverAbandoned(t) \/ Pop(t) \/ Begin(t) \/ BeginNothing(t)
             \/ Register(t) \/ DecodeFails(t) \/ Discard(t) \/ Submit(t)
       PROVE  SteadyInv(c)'
    <3>1. CASE RecoverAbandoned(t)
      <4>1. CASE c[1] # t
        BY <1>s, <1>t, <3>1, <4>1, SteadyFrame DEF RecoverAbandoned, GoesBack, At, main, claims, flags, Inv, TypeOK, Early
      <4>2. CASE c[1] = t
        <5>1. pc = "recover" /\ pc' = pc /\ thread' = thread /\ event' = event /\ Unprotected(t)
          BY <3>1 DEF RecoverAbandoned, At, main, flags
        <5>2. Steady(c)' <=> Steady(c)
          BY <5>1 DEF Steady, Alive
        <5>3. ~Steady(c)
          BY <1>s, <1>t, <4>2, <5>1 DEF SteadyInv, Owns, Unprotected
        <5> QED
          BY <5>2, <5>3 DEF SteadyInv
      <4> QED
        BY <4>1, <4>2
    <3>2. CASE Pop(t)
      <4>1. CASE c[1] # t
        BY <1>s, <1>t, <3>2, <4>1, SteadyFrame DEF Pop, Step, At, claims, flags, Inv, TypeOK, Early
      <4>2. CASE c[1] = t
        <5>1. where[t] = "ready" /\ pc' \in {"popped", "release"} /\ UNCHANGED <<thread, event>>
          BY <3>2 DEF Pop, Step, flags
        <5>2. Steady(c)' => Steady(c)
          BY <5>1 DEF Steady, Alive, Early
        <5>3. ~Steady(c)
          BY <1>s, <4>2, <5>1 DEF SteadyInv, Owns
        <5> QED
          BY <5>2, <5>3 DEF SteadyInv
      <4> QED
        BY <4>1, <4>2
    <3>3. CASE Begin(t)
      <4>1. /\ t \in cur /\ pc = "popped" /\ where[t] = "box" /\ where' = where
            /\ message' = [message EXCEPT ![t] = token[t] + 1]
            /\ token' = [token EXCEPT ![t] = token[t] + 1]
            /\ pc' \in {"register", "release"} /\ active' = active /\ event' = event
        BY <3>3 DEF Begin, Step, At, claims, flags
      <4>2. /\ cur = {t} /\ token[t] \in Nat /\ token[t] + 1 \in 1..MaxClaims
            /\ token'[t] = token[t] + 1 /\ message'[t] = token[t] + 1
        <5>1. cur = {t} /\ token[t] < MaxClaims
          BY <4>1 DEF Inv, Where
        <5>2. token[t] \in Nat /\ MaxClaims \in Nat
          BY CountAssumption DEF Inv, TypeOK
        <5> QED
          BY <4>1, <5>1, <5>2 DEF Inv, TypeOK
      <4>3. CASE c[1] # t
        <5>1. \A d \in Claim : d[1] = c[1] => thread'[d] = thread[d]
          BY <3>3, <4>3 DEF Begin, Inv, TypeOK, Claim
        <5> QED
          BY <1>s, <1>t, <4>1, <4>3, <5>1, SteadyFrame DEF Inv, TypeOK, Early
      <4>4. CASE c[1] = t
        <5>1. ~Steady(c)
          BY <1>s, <4>1, <4>4 DEF SteadyInv
        <5>2. CASE thread'[c] = thread[c]
          <6>1. ~Steady(c)'
            BY <4>1, <5>1, <5>2 DEF Steady, Alive, Early
          <6> QED
            BY <6>1 DEF SteadyInv
        <5>3. CASE thread'[c] # thread[c]
          <6>1. /\ c = <<t, token[t] + 1>> /\ pc' = "register" /\ cur' = cur
                /\ thread' = [thread EXCEPT ![c] = "claimed"]
            <7>1. CASE thread' = [thread EXCEPT ![<<t, token[t] + 1>>] = "claimed"]
                       /\ pc' = "register" /\ cur' = cur
              BY <5>3, <7>1 DEF Inv, TypeOK
            <7>2. CASE thread' = thread
              BY <5>3, <7>2
            <7> QED
              BY <3>3, <7>1, <7>2 DEF Begin, Step
          <6>2. SUFFICES ASSUME ~event PROVE SteadyInv(c)'
            BY <4>1, <6>1 DEF SteadyInv, Steady, Alive, Early, Inv, TypeOK
          <6>3. \A d \in Claim : d[1] = t => ~Alive(d)
            BY <4>1, <6>2 DEF Registrations, SteadyInv, Steady
          <6>4. Sole(c)'
            BY <4>4, <6>1, <6>3 DEF Sole, Alive
          <6>5. c = Current(c[1])' /\ Owns(c)'
            BY <4>1, <4>2, <6>1 DEF Current, Owns
          <6> QED
            BY <4>1, <4>4, <6>1, <6>4, <6>5 DEF SteadyInv
        <5> QED
          BY <5>2, <5>3
      <4> QED
        BY <4>3, <4>4
    <3>4. CASE BeginNothing(t)
      BY <1>s, <3>4, SteadyFrame DEF BeginNothing, Step, At, redis, claims, flags, Early
    <3>5. CASE Register(t)
      <4>1. CASE c[1] # t
        BY <1>s, <1>t, <3>5, <4>1, SteadyFrame DEF Register, Step, At, redis, flags, Inv, Where, TypeOK, Early
      <4>2. CASE c[1] = t
        <5>1. /\ pc = "register" /\ pc' = "decode" /\ active'[t] = token[t]
              /\ UNCHANGED <<redis, thread, event>>
          BY <3>5 DEF Register, Step, At, flags, Inv, TypeOK
        <5>2. (Steady(c)' => Steady(c)) /\ (Sole(c)' <=> Sole(c)) /\ (Owns(c)' <=> Owns(c))
              /\ Current(c[1])' = Current(c[1])
          BY <5>1 DEF Steady, Alive, Sole, Owns, Current, Early, redis
        <5>3. c = Current(c[1]) => active'[t] = c[2]
          BY <4>2, <5>1 DEF Current
        <5> QED
          BY <1>s, <4>2, <5>1, <5>2, <5>3 DEF SteadyInv, redis
      <4> QED
        BY <4>1, <4>2
    <3>6. CASE DecodeFails(t)
      <4>1. CASE c[1] # t
        BY <1>s, <1>t, <3>6, <4>1, SteadyFrame DEF DecodeFails, Settles, Current, Step, At, redis, claims, flags, Inv, TypeOK, Early
      <4>2. CASE c[1] = t
        <5>1. /\ pc = "decode" /\ pc' \in {"discard", "discardSpent"} /\ token' = token
              /\ UNCHANGED <<claims, thread, event>>
              /\ Settles(Current(t)) \/ UNCHANGED redis
          BY <3>6 DEF DecodeFails, Settles, Step, At, flags, redis
        <5>2. (Steady(c)' => Steady(c)) /\ (Sole(c)' <=> Sole(c)) /\ Current(c[1])' = Current(c[1])
          BY <5>1 DEF Steady, Alive, Sole, Current, Early
        <5>3. \/ where'[t] \in {"delay", "away"}
              \/ where'[t] = where[t] /\ message'[t] = message[t]
          BY <5>1 DEF Settles, Current, redis, Inv, TypeOK
        <5> QED
          BY <1>s, <4>2, <5>1, <5>2, <5>3 DEF SteadyInv, Owns, claims
      <4> QED
        BY <4>1, <4>2
    <3>7. CASE Discard(t)
      <4>1. CASE c[1] # t
        BY <1>s, <1>t, <3>7, <4>1, SteadyFrame DEF Discard, Current, Step, At, redis, flags, Inv, TypeOK, Early
      <4>2. CASE c[1] = t
        <5>1. /\ pc \in {"discard", "discardSpent"} /\ pc' \in {"pop", "release"}
              /\ thread' = [thread EXCEPT ![Current(t)] = "over"] /\ event' = event
          BY <3>7 DEF Discard, Step, At, flags
        <5>2. ~Steady(c)'
          <6>1. CASE c = Current(t)
            BY <5>1, <6>1 DEF Steady, Alive, InFlight, Waiting, Ending, Inv, TypeOK
          <6>2. CASE c # Current(t)
            <7>1. Steady(c)' => Steady(c)
              BY <5>1, <6>2 DEF Steady, Alive, Early, Inv, TypeOK
            <7> QED
              BY <1>s, <4>2, <6>2, <7>1 DEF SteadyInv
          <6> QED
            BY <6>1, <6>2
        <5> QED
          BY <5>2 DEF SteadyInv
      <4> QED
        BY <4>1, <4>2
    <3>8. CASE Submit(t)
      <4>1. CASE c[1] # t
        BY <1>s, <1>t, <3>8, <4>1, SteadyFrame DEF Submit, Current, Step, At, redis, claims, flags, Inv, TypeOK, Early
      <4>2. CASE c[1] = t
        <5>1. /\ pc = "submit" /\ pc' \in {"release", "inline"} /\ t \in cur
              /\ UNCHANGED <<redis, claims, event>>
              /\ thread' = thread \/ thread' = [thread EXCEPT ![Current(t)] = "queued"]
          BY <3>8 DEF Submit, Step, At, flags
        <5>2. thread[Current(t)] = "claimed"
          BY <5>1 DEF Inv, Where, Begun
        <5>3. \A d \in Claim : Alive(d)' => Alive(d)
          BY <5>1, <5>2 DEF Alive, InFlight, Waiting, Ending, Inv, TypeOK
        <5>4. Steady(c)' => Steady(c)
          BY <5>1, <5>2, <5>3 DEF Steady, Early, Inv, TypeOK
        <5>5. (Sole(c) => Sole(c)') /\ (Owns(c)' <=> Owns(c)) /\ Current(c[1])' = Current(c[1])
          BY <5>1, <5>3 DEF Sole, Owns, Current, redis
        <5> QED
          BY <1>s, <5>1, <5>4, <5>5 DEF SteadyInv, redis, claims
      <4> QED
        BY <4>1, <4>2
    <3> QED
      BY <2>15, <3>1, <3>2, <3>3, <3>4, <3>5, <3>6, <3>7, <3>8
  <2> QED
    BY <1>1, <2>1, <2>2, <2>3, <2>4, <2>5, <2>6, <2>7, <2>8, <2>9,
       <2>10, <2>11, <2>12, <2>13, <2>14, <2>15 DEF MainStep
<1>2. ASSUME StopStep \/ PollRaises \/ HeartbeatLoop \/ Lapse \/ StopCalled("other")
               \/ StopCalled("signal")
      PROVE  SteadyInv(c)'
  <2>1. CASE StopLocks
    BY <1>s, <2>1, SteadyFrame DEF StopLocks, redis, main, claims, flags, Early
  <2>2. CASE StopDrains
    BY <1>s, <2>2, SteadyFrame DEF StopDrains, redis, main, claims, Early
  <2>3. CASE StopRunning
    BY <1>s, <2>3, SteadyFrame DEF StopRunning, redis, main, claims, Early
  <2>4. CASE StopFlags
    BY <1>s, <2>4, SteadyFrame DEF StopFlags, redis, claims, Inv, Stops, Early
  <2>5. CASE PollRaises
    BY <1>s, <2>5, SteadyFrame DEF PollRaises, Step, At, redis, claims, flags, Early
  <2>6. CASE HeartbeatLoop
    BY <1>s, <2>6, SteadyFrame DEF HeartbeatLoop, redis, main, claims, flags, Early
  <2>7. CASE Lapse
    BY <1>s, <2>7, SteadyFrame DEF Lapse, redis, main, claims, flags, Early
  <2>8. CASE StopCalled("other")
    BY <1>s, <2>8, SteadyFrame DEF StopCalled, redis, main, claims, flags, Early
  <2>9. CASE StopCalled("signal")
    BY <1>s, <2>9, SteadyFrame DEF StopCalled, redis, main, claims, flags, Early
  <2> QED
    BY <1>2, <2>1, <2>2, <2>3, <2>4, <2>5, <2>6, <2>7, <2>8, <2>9 DEF StopStep
<1>3. ASSUME NEW d \in Claim, ClaimStep(d) \/ SettleLost(d) \/ Interrupted(d)
      PROVE  SteadyInv(c)'
  <2>0. d[1] \in Task
    BY DEF Claim
  <2>1. Alive(d)
    BY <1>3 DEF ClaimStep, Admit, ReturnUnstarted, Settle, End, SettleLost, Interrupted, MayRun,
       Alive, InFlight, Ending
  <2>2. /\ event' = event /\ token' = token /\ seen' = seen
        /\ pc' = pc \/ (pc = "inline" /\ pc' \in {"exiting", "release"})
        /\ cur' = cur \/ cur' = {}
        /\ pc = "register" => pc' = "register" /\ cur' = cur
    BY <1>3 DEF ClaimStep, Admit, ReturnUnstarted, Settle, End, SettleLost, Interrupted, Settles,
       Inline, redis, main, flags
  <2>3. CASE c[1] # d[1]
    <3>1. /\ where'[c[1]] = where[c[1]] /\ message'[c[1]] = message[c[1]]
      BY <1>3, <1>t, <2>0, <2>3 DEF ClaimStep, Admit, ReturnUnstarted, Settle, End, SettleLost,
         Interrupted, Settles, GoesBack, redis, Inv, TypeOK
    <3>2. active'[c[1]] = active[c[1]]
      BY <1>3, <1>t, <2>0, <2>3 DEF ClaimStep, Admit, ReturnUnstarted, Settle, End, SettleLost,
         Interrupted, claims, Inv, TypeOK
    <3>3. \A e \in Claim : e[1] = c[1] => thread'[e] = thread[e]
      BY <1>3, <2>3 DEF ClaimStep, Admit, ReturnUnstarted, Settle, End, SettleLost,
         Interrupted, Stage, Inv, TypeOK
    <3> QED
      BY <1>s, <2>2, <3>1, <3>2, <3>3, SteadyFrame DEF Early
  <2>4. CASE c[1] = d[1] /\ c # d
    <3>1. ~Steady(c)
      BY <1>s, <2>1, <2>4, NotSteady
    <3>2. thread'[c] = thread[c]
      BY <1>3, <2>4 DEF ClaimStep, Admit, ReturnUnstarted, Settle, End, SettleLost,
         Interrupted, Stage, Inv, TypeOK
    <3>3. ~Steady(c)'
      BY <2>2, <3>1, <3>2 DEF Steady, Alive, Early
    <3> QED
      BY <3>3 DEF SteadyInv
  <2>5. CASE c = d /\ (ReturnUnstarted(d) \/ End(d))
    <3>1. ~Steady(c)'
      <4>1. CASE ReturnUnstarted(d)
        BY <2>2, <2>5, <4>1 DEF ReturnUnstarted, Stage, Steady, Alive, InFlight, Waiting,
           Inv, TypeOK
      <4>2. CASE End(d)
        <5>1. thread'[d] \in Ended
          BY <4>2 DEF End, Stage, Ended, Inv, TypeOK
        <5> QED
          BY <2>5, <5>1 DEF Steady, Alive, InFlight, Waiting, Ending, Ended
      <4> QED
        BY <2>5, <4>1, <4>2
    <3> QED
      BY <3>1 DEF SteadyInv
  <2>6. CASE c = d /\ (Admit(d) \/ Settle(d) \/ SettleLost(d) \/ Interrupted(d))
    <3>1. Steady(c)
      BY <2>1, <2>6 DEF Admit, Settle, SettleLost, Interrupted, MayRun, Steady
    <3>2. /\ active' = active /\ pc' = pc /\ cur' = cur
          /\ \A e \in Claim \ {d} : thread'[e] = thread[e]
      BY <2>6 DEF Admit, Settle, SettleLost, Interrupted, Stage, claims, main, Inv, TypeOK
    <3>3. \/ where'[c[1]] \in {"delay", "away"}
          \/ where'[c[1]] = where[c[1]] /\ message'[c[1]] = message[c[1]]
      BY <2>0, <2>6 DEF Admit, Settle, SettleLost, Interrupted, Settles, redis, Inv, TypeOK
    <3>4. (Sole(c) => Sole(c)') /\ Current(c[1])' = Current(c[1])
      BY <2>2, <2>6, <3>2 DEF Sole, Alive, Current
    <3> QED
      BY <1>s, <2>2, <3>1, <3>2, <3>3, <3>4 DEF SteadyInv, Owns
  <2> QED
    BY <1>3, <2>3, <2>4, <2>5, <2>6 DEF ClaimStep
<1>4. ASSUME NEW t \in Task, TakenOver(t) \/ MoveRetry(t) PROVE SteadyInv(c)'
  <2>1. CASE c[1] # t
    BY <1>s, <1>t, <1>4, <2>1, SteadyFrame
       DEF TakenOver, MoveRetry, GoesBack, main, claims, flags, Inv, TypeOK, Early
  <2>2. CASE c[1] = t
    <3>1. /\ UNCHANGED <<thread, event, pc, cur, seen, active, token, message>>
      BY <1>4 DEF TakenOver, MoveRetry, main, claims, flags
    <3>2. /\ Steady(c)' <=> Steady(c)
          /\ Sole(c)' <=> Sole(c)
          /\ Current(c[1])' = Current(c[1])
      BY <3>1 DEF Steady, Alive, Sole, Current
    <3>3. CASE where'[t] = "away"
      BY <1>s, <2>2, <3>1, <3>2, <3>3 DEF SteadyInv
    <3>4. CASE where'[t] = "ready"
      <4>1. CASE MoveRetry(t)
        <5>1. thread[Current(t)] \in Ended
          BY <4>1 DEF MoveRetry
        <5>2. ~Steady(c)
          BY <1>s, <2>2, <5>1 DEF SteadyInv, Steady, Alive, InFlight, Waiting, Ending, Ended
        <5> QED
          BY <3>2, <5>2 DEF SteadyInv
      <4>2. CASE TakenOver(t)
        <5>1. \A n \in 1..MaxClaims : thread[<<t, n>>] \in {"none"} \cup Ended
          BY <1>t, <2>2, <3>4, <4>2 DEF TakenOver, Inv, TypeOK
        <5>2. ~Steady(c)
          BY <1>t, <2>2, <5>1 DEF Steady, Alive, InFlight, Waiting, Ending, Ended
        <5> QED
          BY <3>2, <5>2 DEF SteadyInv
      <4> QED
        BY <1>4, <4>1, <4>2
    <3> QED
      BY <1>4, <1>t, <2>2, <3>3, <3>4 DEF TakenOver, MoveRetry, GoesBack, Inv, TypeOK
  <2> QED
    BY <2>1, <2>2
<1>5. CASE UNCHANGED vars
  BY <1>s, <1>5, SteadyFrame DEF vars, redis, main, claims, flags
<1> QED
  BY <1>1, <1>2, <1>3, <1>4, <1>5 DEF Next

LEMMA RegistrationsInit == Init => Registrations
<1>1. ASSUME Init, NEW c \in Claim PROVE SteadyInv(c)
  <2>1. thread[c] = "none"
    BY <1>1 DEF Init
  <2> QED
    BY <2>1 DEF SteadyInv, Steady, Alive, InFlight, Waiting, Ending
<1> QED
  BY <1>1 DEF Init, Registrations

THEOREM RegistrationsHold ==
    ASSUME "due" \notin Faults
    PROVE  Spec => [](Inv /\ Registrations)
<1>1. Inv /\ Registrations /\ [Next]_vars => Registrations'
  BY RegistrationsStep
<1> QED
  BY <1>1, InvHolds, RegistrationsInit, PTL DEF Spec

\* Unless a task comes back while its thread still ends, a claim that waits for
\* the pool or runs is registered: its lease is renewed, its message stays.
THEOREM ClaimRegisteredHolds ==
    ASSUME "due" \notin Faults
    PROVE  Spec => []ClaimRegistered
<1>1. Inv /\ Registrations => ClaimRegistered
  <2> SUFFICES ASSUME Inv, Registrations, NEW c \in Claim,
                      thread[c] \in (IF event THEN {"running"} ELSE InFlight),
                      ~(c[1] \in cur /\ pc = "register")
               PROVE  active[c[1]] = c[2]
    BY DEF ClaimRegistered
  <2>1. Steady(c)
    BY DEF Steady, Alive
  <2> QED
    BY <2>1 DEF Registrations, SteadyInv
<1> QED
  BY <1>1, RegistrationsHold, PTL

-----------------------------------------------------------------------------
\* What the record of a task says agrees with its message: while its location is
\* processing the message of its last claim is in the list of this worker.
BoxInv(t) ==
    /\ t \in processing => where[t] = "box" /\ message[t] = token[t]
    /\ pc = "popped" /\ t \in cur => t \notin processing
    /\ \A d \in Claim : d[1] = t /\ active[t] = d[2] => Alive(d)

Boxes == \A t \in Task : BoxInv(t)

LEMMA BoxFrame ==
    ASSUME NEW t \in Task, BoxInv(t),
           where'[t] = where[t], message'[t] = message[t], token'[t] = token[t],
           t \in processing' => t \in processing, active'[t] = active[t],
           \A d \in Claim : d[1] = t /\ Alive(d) => Alive(d)',
           pc' = "popped" /\ t \in cur' => pc = "popped" /\ t \in cur
    PROVE  BoxInv(t)'
BY DEF BoxInv

LEMMA BoxesStep == Inv /\ Boxes /\ [Next]_vars => Boxes'
<1> SUFFICES ASSUME Inv, Boxes, [Next]_vars, NEW u \in Task PROVE BoxInv(u)'
  BY DEF Boxes
<1>0. BoxInv(u)
  BY DEF Boxes
<1>1. CASE \/ Enter \/ Loop \/ Permit \/ PermitStopped \/ Refresh \/ Snapshot \/ Recovered
           \/ Forget \/ PopLoop \/ PopNone \/ Decoded \/ Release \/ Join \/ StopCalled("main")
           \/ StopCalled("other") \/ StopCalled("signal") \/ PollRaises
           \/ \E t \in Task : BeginNothing(t)
  <2>1. /\ UNCHANGED <<redis, active, thread>>
        /\ pc' = "popped" => pc = "popped" /\ cur' = cur
    BY <1>1 DEF Enter, Needs, Loop, Permit, PermitStopped, Refresh, Snapshot, Recovered, Forget,
       PopLoop, PopNone, Decoded, Release, Join, StopCalled, PollRaises, BeginNothing, Step,
       claims, main
  <2> QED
    BY <1>0, <2>1, BoxFrame DEF redis, Alive
<1>2. CASE StopStep \/ HeartbeatLoop \/ Lapse \/ UNCHANGED vars
  <2>1. /\ UNCHANGED <<redis, active, thread>>
        /\ pc' = "popped" => pc = "popped" /\ cur' = cur
    BY <1>2 DEF StopStep, StopLocks, StopDrains, StopRunning, StopFlags, HeartbeatLoop, Lapse,
       vars, claims, main
  <2> QED
    BY <1>0, <2>1, BoxFrame DEF redis, Alive
<1>3. ASSUME NEW t \in Task,
             \/ RecoverAbandoned(t) \/ Pop(t) \/ Register(t) \/ DecodeFails(t) \/ Submit(t)
             \/ TakenOver(t) \/ MoveRetry(t)
      PROVE  BoxInv(u)'
  <2>1. CASE RecoverAbandoned(t) \/ TakenOver(t)
    <3>1. /\ UNCHANGED <<message, token, active, thread, pc, cur>>
          /\ u # t => where'[u] = where[u] /\ (u \in processing' => u \in processing)
          /\ t \notin processing'
      BY <2>1 DEF RecoverAbandoned, TakenOver, GoesBack, claims, main, Inv, TypeOK
    <3>2. CASE u # t
      BY <1>0, <3>1, <3>2, BoxFrame DEF Alive
    <3>3. CASE u = t
      BY <1>0, <3>1, <3>3 DEF BoxInv, Alive
    <3> QED
      BY <3>2, <3>3
  <2>2. CASE Pop(t)
    <3>1. /\ UNCHANGED <<message, token, active, thread, processing>> /\ where[t] = "ready"
          /\ u # t => where'[u] = where[u]
          /\ pc' \in {"popped", "release"} /\ (pc' = "popped" => cur' = {t})
      BY <2>2 DEF Pop, Step, claims, Inv, TypeOK
    <3>2. CASE u # t
      BY <1>0, <3>1, <3>2, BoxFrame DEF Alive
    <3>3. CASE u = t
      BY <1>0, <3>1, <3>3 DEF BoxInv, Alive
    <3> QED
      BY <3>2, <3>3
  <2>3. CASE Register(t)
    <3>1. /\ UNCHANGED <<redis, thread>> /\ pc = "register" /\ pc' = "decode" /\ t \in cur
          /\ active' = [active EXCEPT ![t] = token[t]]
      BY <2>3 DEF Register, Step, At
    <3>2. thread[Current(t)] = "claimed" /\ active'[t] = token[t]
      BY <3>1 DEF Inv, Where, Begun, TypeOK
    <3>3. CASE u # t
      <4>1. active'[u] = active[u]
        BY <3>1, <3>3 DEF Inv, TypeOK
      <4> QED
        BY <1>0, <3>1, <3>3, <4>1, BoxFrame DEF Alive, redis
    <3>4. CASE u = t
      <4>1. ASSUME NEW d \in Claim, d[1] = t, active'[t] = d[2] PROVE Alive(d)'
        <5>1. d = Current(t)
          BY <3>2, <4>1 DEF Claim, Current
        <5> QED
          BY <3>1, <3>2, <5>1 DEF Alive, InFlight, Waiting
      <4> QED
        BY <1>0, <3>1, <3>4, <4>1 DEF BoxInv, Alive, redis
    <3> QED
      BY <3>3, <3>4
  <2>4. CASE DecodeFails(t)
    <3>1. /\ UNCHANGED <<token, active, thread>> /\ pc' \in {"discard", "discardSpent"}
          /\ Settles(Current(t)) \/ UNCHANGED redis
      BY <2>4 DEF DecodeFails, Settles, Step, claims, redis
    <3>2. \/ u # t /\ where'[u] = where[u] /\ message'[u] = message[u]
                   /\ (u \in processing' => u \in processing)
          \/ u = t /\ t \notin processing'
          \/ UNCHANGED redis
      BY <3>1 DEF Settles, Current, Inv, TypeOK
    <3>3. CASE u = t /\ t \notin processing'
      BY <1>0, <3>1, <3>3 DEF BoxInv, Alive
    <3>4. CASE ~(u = t /\ t \notin processing')
      BY <1>0, <3>1, <3>2, <3>4, BoxFrame DEF Alive, redis
    <3> QED
      BY <3>3, <3>4
  <2>5. CASE Submit(t)
    <3>1. /\ UNCHANGED <<redis, active>> /\ pc = "submit" /\ pc' \in {"release", "inline"}
          /\ t \in cur
          /\ thread' = thread \/ thread' = [thread EXCEPT ![Current(t)] = "queued"]
      BY <2>5 DEF Submit, Step, At, claims
    <3>2. \A d \in Claim : Alive(d) => Alive(d)'
      BY <3>1 DEF Alive, InFlight, Waiting, Inv, TypeOK
    <3> QED
      BY <1>0, <3>1, <3>2, BoxFrame DEF redis
  <2>6. CASE MoveRetry(t)
    <3>1. /\ UNCHANGED <<message, token, active, thread, processing, pc, cur>>
          /\ where[t] = "delay" /\ (u # t => where'[u] = where[u])
      BY <2>6 DEF MoveRetry, claims, main, Inv, TypeOK
    <3>2. CASE u # t
      BY <1>0, <3>1, <3>2, BoxFrame DEF Alive
    <3>3. CASE u = t
      BY <1>0, <3>1, <3>3 DEF BoxInv, Alive
    <3> QED
      BY <3>2, <3>3
  <2> QED
    BY <1>3, <2>1, <2>2, <2>3, <2>4, <2>5, <2>6
<1>4. ASSUME NEW t \in Task, Begin(t) PROVE BoxInv(u)'
  <2>1. /\ where[t] = "box" /\ UNCHANGED <<where, active>> /\ pc' \in {"register", "release"}
        /\ message' = [message EXCEPT ![t] = token[t] + 1]
        /\ token' = [token EXCEPT ![t] = token[t] + 1]
        /\ processing' = processing \cup {t}
        /\ \/ thread' = [thread EXCEPT ![<<t, token[t] + 1>>] = "claimed"]
           \/ thread' = thread
    BY <1>4 DEF Begin, Step, claims
  <2>2. \A d \in Claim : Alive(d) => Alive(d)'
    BY <2>1 DEF Alive, InFlight, Waiting, Inv, TypeOK
  <2>3. CASE u # t
    BY <1>0, <2>1, <2>2, <2>3, BoxFrame DEF Inv, TypeOK
  <2>4. CASE u = t
    <3>1. message'[t] = token'[t]
      BY <2>1 DEF Inv, TypeOK
    <3>2. \A d \in Claim : d[1] = t /\ active'[t] = d[2] => Alive(d)'
      BY <1>0, <2>1, <2>2, <2>4 DEF BoxInv
    <3> QED
      BY <2>1, <2>4, <3>1, <3>2 DEF BoxInv
  <2> QED
    BY <2>3, <2>4
<1>5. ASSUME NEW t \in Task, Discard(t) PROVE BoxInv(u)'
  <2>1. /\ UNCHANGED redis /\ pc' \in {"pop", "release"}
        /\ thread' = [thread EXCEPT ![Current(t)] = "over"]
        /\ active' = [active EXCEPT ![t] = 0]
    BY <1>5 DEF Discard, Step
  <2>2. CASE u # t
    <3>1. \A d \in Claim : d[1] = u => thread'[d] = thread[d]
      BY <2>1, <2>2 DEF Current, Inv, TypeOK
    <3> QED
      BY <1>0, <2>1, <2>2, <3>1, BoxFrame DEF redis, Alive, Inv, TypeOK
  <2>3. CASE u = t
    <3>1. active'[t] = 0
      BY <2>1 DEF Inv, TypeOK
    <3> QED
      BY <1>0, <2>1, <2>3, <3>1, CountAssumption DEF BoxInv, Claim, redis
  <2> QED
    BY <2>2, <2>3
<1>6. ASSUME NEW c \in Claim, ClaimStep(c) \/ SettleLost(c) \/ Interrupted(c)
      PROVE  BoxInv(u)'
  <2>0. c[1] \in Task
    BY DEF Claim
  <2>1. pc' = "popped" => pc = "popped" /\ cur' = cur
    BY <1>6 DEF ClaimStep, Admit, ReturnUnstarted, Settle, End, SettleLost, Interrupted, Inline,
       main
  <2>2. \/ u # c[1] /\ where'[u] = where[u] /\ message'[u] = message[u]
                    /\ (u \in processing' => u \in processing)
        \/ u = c[1] /\ u \notin processing'
        \/ where'[u] = where[u] /\ message'[u] = message[u]
           /\ (u \in processing' => u \in processing)
    BY <1>6, <2>0 DEF ClaimStep, Admit, ReturnUnstarted, Settle, End, SettleLost, Interrupted,
       Settles, GoesBack, redis, Inv, TypeOK
  <2>3. token' = token
    BY <1>6 DEF ClaimStep, Admit, ReturnUnstarted, Settle, End, SettleLost, Interrupted,
       Settles, redis
  <2>4. CASE End(c) /\ u = c[1]
    <3>1. active'[u] = 0 /\ UNCHANGED redis
      BY <2>4 DEF End, Inv, TypeOK
    <3> QED
      BY <1>0, <2>1, <3>1, CountAssumption DEF BoxInv, Claim, redis
  <2>5. CASE ~(End(c) /\ u = c[1])
    <3>1. active'[u] = active[u]
      BY <1>6, <2>0, <2>5 DEF ClaimStep, Admit, ReturnUnstarted, Settle, End, SettleLost,
         Interrupted, claims, Inv, TypeOK
    <3>2. \A d \in Claim : d[1] = u /\ Alive(d) => Alive(d)'
      BY <1>6, <2>5 DEF ClaimStep, Admit, ReturnUnstarted, Settle, End, SettleLost,
         Interrupted, Stage, Alive, InFlight, Ending, Inv, TypeOK
    <3>3. CASE u \notin processing'
      <4>1. \A d \in Claim : d[1] = u /\ active'[u] = d[2] => Alive(d)'
        BY <1>0, <3>1, <3>2 DEF BoxInv
      <4> QED
        BY <3>3, <4>1 DEF BoxInv
    <3>4. CASE u \in processing'
      BY <1>0, <2>1, <2>2, <2>3, <3>1, <3>2, <3>4, BoxFrame
    <3> QED
      BY <3>3, <3>4
  <2> QED
    BY <2>4, <2>5
<1> QED
  BY <1>1, <1>2, <1>3, <1>4, <1>5, <1>6 DEF Next, MainStep

LEMMA BoxesInit == Init => Boxes
BY CountAssumption DEF Init, Boxes, BoxInv, Claim

-----------------------------------------------------------------------------
\* The registry names this worker until run() ends, and longer if it leaves a message.
Registry ==
    /\ pc # "down" => registry = TRUE
    /\ \A t \in Task : where[t] = "box" => registry = TRUE

LEMMA RegistryStep == Inv /\ Registry /\ [Next]_vars => Registry'
<1> SUFFICES ASSUME Inv, Registry, [Next]_vars PROVE Registry'
  OBVIOUS
<1>1. CASE Join
  BY <1>1 DEF Join, Step, redis, Inv, TypeOK, Registry
<1>2. CASE Refresh \/ HeartbeatLoop
  BY <1>2 DEF Refresh, HeartbeatLoop, Step, At, live, redis, main, Registry
<1>3. ASSUME ~Join, ~Refresh, ~HeartbeatLoop
      PROVE  /\ registry' = registry /\ (pc = "down" => pc' = "down")
             /\ pc # "down" \/ \A t \in Task : where'[t] = "box" => where[t] = "box"
  <2>1. CASE \/ Enter \/ Loop \/ Permit \/ PermitStopped \/ Snapshot \/ Recovered \/ Forget
             \/ PopLoop \/ PopNone \/ Decoded \/ Release \/ PollRaises \/ StopStep \/ Lapse
             \/ StopCalled("main") \/ StopCalled("other") \/ StopCalled("signal")
             \/ UNCHANGED vars
    BY <2>1 DEF Enter, Needs, Loop, Permit, PermitStopped, Snapshot, Recovered, Forget,
       PopLoop, PopNone, Decoded, Release, PollRaises, StopStep, StopLocks, StopDrains,
       StopRunning, StopFlags, Lapse, StopCalled, Step, At, vars, live, redis, main,
       Inv, Stops
  <2>2. CASE \E t \in Task : \/ RecoverAbandoned(t) \/ Pop(t) \/ Begin(t) \/ BeginNothing(t)
                             \/ Register(t) \/ DecodeFails(t) \/ Discard(t) \/ Submit(t)
    BY <2>2 DEF RecoverAbandoned, Pop, Begin, BeginNothing, Register, DecodeFails, Discard,
       Submit, Step, At, live
  <2>3. CASE \E t \in Task : TakenOver(t) \/ MoveRetry(t)
    BY <2>3 DEF TakenOver, MoveRetry, GoesBack, live, main, Inv, TypeOK
  <2>4. CASE \E c \in Claim : ClaimStep(c) \/ SettleLost(c) \/ Interrupted(c)
    <3>1. PICK c \in Claim : ClaimStep(c) \/ SettleLost(c) \/ Interrupted(c)
      BY <2>4
    <3>2. pc # "down" /\ registry' = registry
      BY <3>1 DEF ClaimStep, Admit, ReturnUnstarted, Settle, End, SettleLost, Interrupted,
         MayRun, Waiting, Ending, Ended, live, Inv, Stops
    <3> QED
      BY <3>2
  <2> QED
    BY <1>3, <2>1, <2>2, <2>3, <2>4 DEF Next, MainStep
<1>4. CASE ~Join /\ ~Refresh /\ ~HeartbeatLoop
  BY <1>3, <1>4 DEF Registry
<1> QED
  BY <1>1, <1>2, <1>4

\* A message that is not with another worker charges the handlers that ran and, while
\* a claim of it waits, one more.  A lost reply of the poll, or a payload that cannot
\* be read, charges an attempt that no handler had.
Pending(t) == \E c \in Claim : c[1] = t /\ thread[c] \in Waiting
Left(t)    == \E c \in Claim : c[1] = t /\ thread[c] \in {"interrupted", "lost"}

ChargeInv(t) ==
    /\ \A c \in Claim : c[1] = t /\ thread[c] \in Waiting =>
           where[t] = "away" \/ (Owns(c) /\ t \in processing)
    /\ where[t] # "away" /\ ~Left(t) =>
           attempt[t] <= runs[t] + 1 /\ (Pending(t) \/ attempt[t] <= runs[t])

Charges == pc \notin {"discard", "discardSpent"} /\ \A t \in Task : ChargeInv(t)

LEMMA ChargeFrame ==
    ASSUME NEW t \in Task, ChargeInv(t),
           where'[t] = where[t], message'[t] = message[t], attempt'[t] = attempt[t],
           runs'[t] = runs[t], t \in processing => t \in processing',
           \A d \in Claim : d[1] = t => (thread'[d] \in Waiting <=> thread[d] \in Waiting)
               /\ (thread[d] \in {"interrupted", "lost"} => thread'[d] \in {"interrupted", "lost"})
    PROVE  ChargeInv(t)'
<1>1. (Pending(t)' <=> Pending(t)) /\ (Left(t) => Left(t)')
  BY DEF Pending, Left
<1>2. \A d \in Claim : d[1] = t => (Owns(d)' <=> Owns(d))
  BY DEF Owns
<1> QED
  BY <1>1, <1>2 DEF ChargeInv

LEMMA ChargeAway ==
    ASSUME NEW t \in Task, where'[t] = "away"
    PROVE  ChargeInv(t)'
<1>1. \A c \in Claim : where'[t] = "away" \/ (Owns(c)' /\ t \in processing')
  OBVIOUS
<1> QED
  BY <1>1, Zenon DEF ChargeInv

\* The message goes where no claim waits for it.
LEMMA ChargeMoved ==
    ASSUME NEW t \in Task, ChargeInv(t), ~Pending(t)', where[t] # "away",
           Left(t) => Left(t)', Pending(t) => FALSE,
           attempt'[t] <= attempt[t], runs'[t] = runs[t],
           attempt[t] \in Nat, attempt'[t] \in Nat, runs[t] \in Nat
    PROVE  ChargeInv(t)'
BY DEF ChargeInv, Pending

LEMMA ChargesStep ==
    ASSUME "due" \notin Faults, "poll" \notin Faults, "decode" \notin Faults
    PROVE  Inv /\ Registrations /\ Boxes /\ Charges /\ [Next]_vars => Charges'
<1> SUFFICES ASSUME Inv, Registrations, Boxes, Charges, [Next]_vars PROVE Charges'
  OBVIOUS
<1>0. pc' \notin {"discard", "discardSpent"}
  <2>1. CASE MainStep
    BY <2>1 DEF MainStep, Enter, Loop, Permit, PermitStopped, Refresh, Snapshot, Recovered,
       Forget, PopLoop, PopNone, Decoded, Release, Join, StopCalled, RecoverAbandoned, Pop,
       Begin, BeginNothing, Register, DecodeFails, Discard, Submit, Step, main, Charges
  <2>2. CASE StopStep \/ HeartbeatLoop \/ Lapse \/ StopCalled("other") \/ StopCalled("signal")
             \/ UNCHANGED vars \/ \E t \in Task : TakenOver(t) \/ MoveRetry(t)
    BY <2>2 DEF StopStep, StopLocks, StopDrains, StopRunning, StopFlags, HeartbeatLoop, Lapse,
       StopCalled, TakenOver, MoveRetry, vars, main, Charges
  <2>3. CASE \E c \in Claim : ClaimStep(c) \/ SettleLost(c) \/ Interrupted(c)
    BY <2>3 DEF ClaimStep, Admit, ReturnUnstarted, Settle, End, SettleLost, Interrupted, main,
       Charges
  <2> QED
    BY <2>1, <2>2, <2>3 DEF Next, PollRaises
<1> SUFFICES ASSUME NEW u \in Task PROVE ChargeInv(u)'
  BY <1>0 DEF Charges
<1>s. ChargeInv(u) /\ BoxInv(u)
  BY DEF Charges, Boxes
<1>1. CASE \/ Enter \/ Loop \/ Permit \/ PermitStopped \/ Refresh \/ Snapshot \/ Recovered
           \/ Forget \/ PopLoop \/ PopNone \/ Decoded \/ Release \/ Join \/ StopCalled("main")
           \/ StopCalled("other") \/ StopCalled("signal")
           \/ \E t \in Task : BeginNothing(t) \/ Register(t)
  <2>1. UNCHANGED <<redis, runs, thread>>
    BY <1>1 DEF Enter, Loop, Permit, PermitStopped, Refresh, Snapshot, Recovered, Forget,
       PopLoop, PopNone, Decoded, Release, Join, StopCalled, BeginNothing, Register
  <2> QED
    BY <1>s, <2>1, ChargeFrame DEF redis
<1>2. CASE StopStep \/ HeartbeatLoop \/ Lapse \/ UNCHANGED vars
  <2>1. UNCHANGED <<redis, runs, thread>>
    BY <1>2 DEF StopStep, StopLocks, StopDrains, StopRunning, StopFlags, HeartbeatLoop, Lapse,
       vars
  <2> QED
    BY <1>s, <2>1, ChargeFrame DEF redis
<1>3. ASSUME NEW t \in Task, RecoverAbandoned(t) \/ Pop(t) \/ TakenOver(t) \/ MoveRetry(t)
      PROVE  ChargeInv(u)'
  <2>1. /\ UNCHANGED <<message, thread, runs>> /\ where[t] \in {"ready", "box", "delay"}
        /\ attempt'[t] <= attempt[t]
        /\ u # t => where'[u] = where[u] /\ attempt'[u] = attempt[u]
                    /\ (u \in processing => u \in processing')
    BY <1>3 DEF RecoverAbandoned, Unprotected, Pop, TakenOver, MoveRetry, GoesBack, Inv, TypeOK
  <2>2. CASE u # t
    BY <1>s, <2>1, <2>2, ChargeFrame
  <2>3. CASE u = t /\ where'[t] = "away"
    BY <2>3, ChargeAway
  <2>4. CASE u = t /\ where'[t] # "away"
    <3>1. ~Pending(t)
      <4>1. CASE RecoverAbandoned(t)
        <5> SUFFICES ASSUME NEW c \in Claim, c[1] = t, thread[c] \in Waiting PROVE FALSE
          BY DEF Pending
        <5>1. pc = "recover" /\ Unprotected(t)
          BY <4>1 DEF RecoverAbandoned, At
        <5>2. Steady(c) /\ SteadyInv(c)
          BY <5>1 DEF Steady, Early, Registrations
        <5>3. seen[t] = c[2] /\ Owns(c) /\ c[2] # 0
          BY <5>1, <5>2, CountAssumption DEF SteadyInv, Unprotected, Claim
        <5> QED
          BY <5>1, <5>3 DEF Unprotected, Owns
      <4>2. CASE TakenOver(t)
        <5>1. \A n \in 1..MaxClaims : thread[<<t, n>>] \in {"none"} \cup Ended
          BY <2>4, <4>2 DEF TakenOver, Inv, TypeOK
        <5>2. \A c \in Claim : c[1] = t => c = <<t, c[2]>> /\ c[2] \in 1..MaxClaims
          BY DEF Claim
        <5> QED
          BY <5>1, <5>2 DEF Pending, Waiting, Ended
      <4>3. CASE Pop(t) \/ MoveRetry(t)
        BY <1>s, <2>4, <4>3 DEF Pop, MoveRetry, ChargeInv, Pending, Owns
      <4> QED
        BY <1>3, <4>1, <4>2, <4>3
    <3>2. ~Pending(t)' /\ (Left(t) => Left(t)')
      BY <2>1, <3>1 DEF Pending, Left
    <3>3. attempt[t] \in Nat /\ attempt'[t] \in Nat /\ runs[t] \in Nat
      BY <1>3 DEF RecoverAbandoned, Pop, TakenOver, MoveRetry, Inv, TypeOK
    <3> QED
      BY <1>s, <2>1, <2>4, <3>1, <3>2, <3>3, ChargeMoved
  <2> QED
    BY <2>2, <2>3, <2>4
<1>4. ASSUME NEW t \in Task, Begin(t) PROVE ChargeInv(u)'
  <2>1. /\ where[t] = "box" /\ UNCHANGED <<where, runs>> /\ pc = "popped" /\ t \in cur
        /\ message' = [message EXCEPT ![t] = token[t] + 1]
        /\ attempt' = [attempt EXCEPT ![t] = attempt[t] + 1]
        /\ processing' = processing \cup {t}
        /\ thread' = [thread EXCEPT ![<<t, token[t] + 1>>] = "claimed"]
    BY <1>4 DEF Begin, Step, At
  <2>2. <<t, token[t] + 1>> \in Claim /\ thread[<<t, token[t] + 1>>] = "none"
    <3>1. token[t] \in Nat /\ MaxClaims \in Nat /\ token[t] < MaxClaims
      BY <2>1, CountAssumption DEF Inv, TypeOK, Where
    <3>2. <<t, token[t] + 1>> \in Claim
      BY <3>1 DEF Claim
    <3> QED
      BY <3>1, <3>2 DEF Inv, Where
  <2>3. CASE u # t
    <3>1. \A d \in Claim : d[1] = u => thread'[d] = thread[d]
      BY <2>1, <2>3 DEF Inv, TypeOK
    <3> QED
      BY <1>s, <2>1, <2>3, <3>1, ChargeFrame DEF Inv, TypeOK
  <2>4. CASE u = t
    <3>1. ~Pending(t)
      BY <1>s, <2>1, <2>4 DEF ChargeInv, BoxInv, Pending
    <3>2. \A d \in Claim : d[1] = t /\ thread'[d] \in Waiting => d = <<t, token[t] + 1>>
      BY <2>1, <3>1 DEF Pending, Inv, TypeOK
    <3>3. \A d \in Claim : d = <<t, token[t] + 1>> => Owns(d)'
      BY <2>1 DEF Owns, Inv, TypeOK
    <3>4. Left(t) => Left(t)'
      BY <2>1, <2>2 DEF Left, Inv, TypeOK
    <3>5. attempt'[t] = attempt[t] + 1 /\ attempt[t] \in Nat /\ runs[t] \in Nat
      BY <2>1 DEF Inv, TypeOK
    <3>6. Pending(t)'
      <4>1. thread'[<<t, token[t] + 1>>] = "claimed" /\ <<t, token[t] + 1>>[1] = t
        BY <2>1, <2>2 DEF Inv, TypeOK
      <4> QED
        BY <2>2, <4>1 DEF Pending, Waiting
    <3> QED
      BY <1>s, <2>1, <2>4, <3>1, <3>2, <3>3, <3>4, <3>5, <3>6 DEF ChargeInv
  <2> QED
    BY <2>3, <2>4
<1>5. ASSUME NEW t \in Task, DecodeFails(t) \/ Discard(t) \/ Submit(t) PROVE ChargeInv(u)'
  <2>1. /\ UNCHANGED <<redis, runs>> /\ pc = "submit" /\ t \in cur
        /\ thread' = thread \/ thread' = [thread EXCEPT ![Current(t)] = "queued"]
    BY <1>5 DEF DecodeFails, Discard, Submit, Step, At, Charges
  <2>2. thread[Current(t)] = "claimed"
    BY <2>1 DEF Inv, Where, Begun
  <2>3. \A d \in Claim : \/ thread'[d] = thread[d]
                         \/ thread[d] = "claimed" /\ thread'[d] = "queued"
    BY <2>1, <2>2 DEF Inv, TypeOK
  <2> QED
    BY <1>s, <2>1, <2>3, ChargeFrame DEF redis, Waiting
<1>6. ASSUME NEW c \in Claim, ClaimStep(c) \/ SettleLost(c) \/ Interrupted(c)
      PROVE  ChargeInv(u)'
  <2>0. c[1] \in Task
    BY DEF Claim
  <2>1. \A d \in Claim \ {c} : thread'[d] = thread[d]
    BY <1>6 DEF ClaimStep, Admit, ReturnUnstarted, Settle, End, SettleLost, Interrupted,
       Stage, Inv, TypeOK
  <2>2. CASE u # c[1]
    <3>1. /\ where'[u] = where[u] /\ message'[u] = message[u] /\ attempt'[u] = attempt[u]
          /\ runs'[u] = runs[u] /\ (u \in processing => u \in processing')
      BY <1>6, <2>0, <2>2 DEF ClaimStep, Admit, ReturnUnstarted, Settle, End, SettleLost,
         Interrupted, Settles, GoesBack, redis, Inv, TypeOK
    <3>2. \A d \in Claim : d[1] = u => thread'[d] = thread[d]
      BY <2>1, <2>2
    <3> QED
      BY <1>s, <3>1, <3>2, ChargeFrame
  <2>3. CASE u = c[1] /\ where[u] = "away"
    <3>1. where' = where
      BY <1>6, <2>3 DEF ClaimStep, Admit, ReturnUnstarted, Settle, End, SettleLost,
         Interrupted, Settles, Owns, redis
    <3> QED
      BY <2>3, <3>1, ChargeAway
  <2>4. CASE u = c[1] /\ where[u] # "away"
    \* Two claims of a task do not both own its message.
    <3>1. \A d \in Claim : d[1] = u /\ Owns(c) /\ Owns(d) => d = c
      BY <2>4 DEF Owns, Claim
    <3>2. \A d \in Claim : d[1] = u /\ thread[d] \in Waiting => Owns(d) /\ u \in processing
      BY <1>s, <2>4 DEF ChargeInv
    <3>3. attempt[u] \in Nat /\ runs[u] \in Nat
      BY DEF Inv, TypeOK
    <3>4. CASE Admit(c)
      <4>1. /\ UNCHANGED redis /\ runs'[u] = runs[u] + 1 /\ thread[c] \in Waiting
            /\ thread'[c] = "running"
        BY <2>4, <3>4 DEF Admit, MayRun, Stage, Inv, TypeOK
      <4>2. Left(u) => Left(u)'
        BY <2>1, <4>1 DEF Left, Waiting
      <4>3. \A d \in Claim : d[1] = u /\ thread'[d] \in Waiting => Owns(d)' /\ u \in processing'
        BY <2>1, <3>2, <4>1 DEF Owns, Waiting, redis
      <4> QED
        BY <1>s, <2>4, <3>3, <4>1, <4>2, <4>3 DEF ChargeInv, redis
    <3>5. CASE ReturnUnstarted(c)
      <4>1. thread[c] \in Waiting /\ Owns(c) /\ u \in processing
        BY <2>4, <3>2, <3>5 DEF ReturnUnstarted, MayRun
      <4>2. CASE thread'[c] = "interrupted" /\ UNCHANGED redis
        <5>1. Left(u)'
          BY <2>4, <4>2 DEF Left
        <5>2. \A d \in Claim : d[1] = u /\ thread'[d] \in Waiting => Owns(d)' /\ u \in processing'
          BY <2>1, <3>2, <4>2 DEF Owns, Waiting, redis
        <5> QED
          BY <5>1, <5>2 DEF ChargeInv
      <4>3. CASE /\ thread'[c] = "ending" /\ attempt' = [attempt EXCEPT ![u] = attempt[u] - 1]
                 /\ runs' = runs
        <5>1. ~Pending(u)'
          BY <2>1, <3>1, <3>2, <4>1, <4>3 DEF Pending, Waiting
        <5>2. Left(u) => Left(u)'
          BY <2>1, <4>1, <4>3 DEF Left, Waiting
        <5>3. attempt'[u] = attempt[u] - 1
          BY <4>3 DEF Inv, TypeOK
        <5> QED
          BY <1>s, <2>4, <3>3, <4>3, <5>1, <5>2, <5>3 DEF ChargeInv, Pending
      <4> QED
        BY <2>4, <3>5, <4>1, <4>2, <4>3 DEF ReturnUnstarted, Stage, Inv, TypeOK
    <3>6. CASE Settle(c) \/ SettleLost(c)
      <4>1. /\ thread[c] = "running" /\ thread'[c] \in {"running", "ending"}
            /\ runs' = runs /\ attempt' = attempt
            /\ Settles(c) \/ UNCHANGED redis
        BY <3>6 DEF Settle, SettleLost, MayRun, Settles, Stage, redis, Inv, TypeOK
      <4>2. CASE UNCHANGED redis
        BY <1>s, <2>1, <4>1, <4>2, ChargeFrame DEF redis, Waiting
      <4>3. CASE Owns(c)
        <5>1. ~Pending(u)
          BY <3>1, <3>2, <4>1, <4>3 DEF Pending, Waiting
        <5>2. ~Pending(u)' /\ (Left(u) => Left(u)')
          BY <2>1, <4>1, <5>1 DEF Pending, Left, Waiting
        <5> QED
          BY <1>s, <2>4, <3>3, <4>1, <5>1, <5>2, ChargeMoved
      <4> QED
        BY <4>1, <4>2, <4>3 DEF Settles
    <3>7. CASE Interrupted(c)
      <4>1. UNCHANGED redis /\ thread[c] = "running" /\ thread'[c] = "interrupted"
        BY <3>7 DEF Interrupted, MayRun, Stage, Inv, TypeOK
      <4>2. Left(u)'
        BY <2>4, <4>1 DEF Left
      <4>3. \A d \in Claim : d[1] = u /\ thread'[d] \in Waiting => Owns(d)' /\ u \in processing'
        BY <2>1, <3>2, <4>1 DEF Owns, Waiting, redis
      <4> QED
        BY <4>2, <4>3 DEF ChargeInv
    <3>8. CASE End(c)
      <4>1. /\ UNCHANGED redis /\ runs' = runs
            /\ \/ thread[c] = "ending" /\ thread'[c] = "over"
               \/ thread[c] = "interrupted" /\ thread'[c] = "lost"
        BY <3>8 DEF End, MayRun, Stage, Ending, Inv, TypeOK
      <4> QED
        BY <1>s, <2>1, <4>1, ChargeFrame DEF redis, Waiting
    <3> QED
      BY <1>6, <3>4, <3>5, <3>6, <3>7, <3>8 DEF ClaimStep
  <2> QED
    BY <2>2, <2>3, <2>4
<1> QED
  BY <1>1, <1>2, <1>3, <1>4, <1>5, <1>6 DEF Next, MainStep, PollRaises

LEMMA StrandedInit == Init => Registry /\ Charges
<1>1. ASSUME Init, NEW t \in Task PROVE ChargeInv(t)
  BY <1>1 DEF Init, ChargeInv, Waiting
<1> QED
  BY <1>1 DEF Init, Registry, Charges

\* Unless a task comes back while its thread still ends, a call of the poll fails or
\* a payload cannot be read: after run() a message left behind is in a list the
\* others look at, and a task is charged for no handler that did not run.
THEOREM NothingStrandedHolds ==
    ASSUME "due" \notin Faults, "poll" \notin Faults, "decode" \notin Faults
    PROVE  Spec => []NothingStranded
<1>1. Inv /\ Registrations /\ Boxes /\ Charges /\ [Next]_vars => Charges'
  BY ChargesStep
<1>2. Inv /\ Registry /\ Charges => NothingStranded
  <2> SUFFICES ASSUME Inv, Registry, Charges, pc = "down", NEW t \in Task
               PROVE  /\ where[t] = "box" => registry
                      /\ where[t] = "ready"
                         /\ (\A n \in 1..MaxClaims : thread[<<t, n>>] # "lost") =>
                            attempt[t] <= runs[t]
    BY DEF NothingStranded
  <2>1. \A c \in Claim : thread[c] \in {"none", "over", "lost"}
    BY DEF Inv, Stops, Ended
  <2>2. ~Pending(t)
    BY <2>1 DEF Pending, Waiting
  <2>3. ASSUME \A n \in 1..MaxClaims : thread[<<t, n>>] # "lost" PROVE ~Left(t)
    <3>1. \A c \in Claim : c[1] = t => c = <<t, c[2]>> /\ c[2] \in 1..MaxClaims
      BY DEF Claim
    <3> QED
      BY <2>1, <2>3, <3>1 DEF Left
  <2> QED
    BY <2>2, <2>3 DEF Registry, Charges, ChargeInv
<1>3. Spec => []Registrations
  BY RegistrationsHold, PTL
<1>4. Init => Boxes /\ Registry /\ Charges
  BY BoxesInit, StrandedInit
<1>5. Inv /\ Boxes /\ Registry /\ [Next]_vars => Boxes' /\ Registry'
  BY BoxesStep, RegistryStep
<1> QED
  BY <1>1, <1>2, <1>3, <1>4, <1>5, InvHolds, PTL DEF Spec

-----------------------------------------------------------------------------
\* Which attempts of a task were used: by the last claim of it that was begun,
\* whether or not the poll had the answer.
Last(t) == IF token[t] = 0 THEN "none" ELSE thread[Current(t)]

Quiet == {"release", "loop", "permit", "refresh", "snapshot", "exiting", "joining", "down"}

\* A claim in this stage still has its message.
Ours(t) ==
    \/ Last(t) \in {"running", "interrupted"}
    \/ Last(t) \in Waiting /\ (~event \/ pc \in Early)

Discarding(t) == pc \in {"discard", "discardSpent"} /\ t \in cur

\* What recovery will be told of the task: a record that is still processing after
\* its claim ended is marked as spent, in this round or in one before it.
Marked(t) ==
    /\ t \in processing /\ Last(t) \in Ended =>
           t \in spent /\ (pc = "recover" => t \in seenSpent \/ seen[t] = token[t])
    /\ pc = "forget" /\ t \in processing => seen[t] = token[t]
    /\ pc \in {"recover", "forget"} /\ t \in seenSpent => seen[t] # token[t]
    /\ t \in spent =>
           /\ Last(t) \in Ended
           /\ \/ t \in processing \/ pc \in Quiet
              \/ pc \in {"recover", "forget"} /\ t \in seenSpent

Charged(t) ==
    /\ Last(t) = "ending" => t \notin processing
    /\ pc = "discard" /\ t \in cur => t \notin processing
    /\ Ours(t) => t \in processing \/ Discarding(t)
    /\ runs[t] <= attempt[t]
    /\ t \in processing /\ Last(t) \in Waiting \cup {"none"} => runs[t] < attempt[t]

UseInv(t) == Marked(t) /\ Charged(t)

Uses == \A t \in Task : UseInv(t)

LEMMA LastKept ==
    ASSUME TypeOK, NEW t \in Task, token'[t] = token[t],
           \A d \in Claim : d = Current(t) => thread'[d] = thread[d]
    PROVE  Last(t)' = Last(t)
<1>1. CASE token[t] = 0
  BY <1>1 DEF Last
<1>2. CASE token[t] # 0
  <2>1. token[t] > 0
    BY <1>2 DEF TypeOK
  <2>2. Current(t) \in Claim
    BY <2>1, CurrentClaim
  <2>3. Current(t)' = Current(t)
    BY DEF Current
  <2> QED
    BY <1>2, <2>2, <2>3 DEF Last
<1> QED
  BY <1>1, <1>2

LEMMA LastIs ==
    ASSUME NEW t \in Task, NEW c \in Claim, c = Current(t)
    PROVE  Last(t) = thread[c] /\ c[1] = t /\ c[2] = token[t] /\ token[t] > 0
BY CountAssumption DEF Last, Current, Claim

\* The claim the poll holds is the last one.
LEMMA PollLast ==
    ASSUME Inv, NEW t \in cur, pc \in Begun
    PROVE  Last(t) = "claimed" /\ token[t] > 0 /\ Current(t) \in Claim
<1>1. token[t] > 0 /\ thread[Current(t)] = "claimed" /\ t \in Task
  BY DEF Inv, Where, TypeOK
<1> QED
  BY <1>1, CurrentClaim DEF Inv, Last

LEMMA OursSteady ==
    ASSUME "settle" \notin Faults, Inv, Registrations, NEW t \in Task, Ours(t)
    PROVE  /\ token[t] > 0 /\ (pc = "recover" => seen[t] = token[t])
           /\ where[t] = "box" => message[t] = token[t]
<1>1. token[t] > 0
  BY DEF Ours, Last, Waiting, Inv, TypeOK
<1>2. PICK c \in Claim : c = Current(t)
  BY <1>1, CurrentClaim DEF Inv
<1>3. Last(t) = thread[c] /\ c[1] = t /\ c[2] = token[t]
  BY <1>2, LastIs
<1>4. Steady(c)
  BY <1>3 DEF Ours, Steady, Alive, InFlight
<1> QED
  BY <1>1, <1>3, <1>4 DEF Registrations, SteadyInv, Owns

\* A claim that runs, was interrupted, or may still be admitted is the last one.
LEMMA SteadyLast ==
    ASSUME Registrations, NEW c \in Claim, Steady(c)
    PROVE  c = Current(c[1]) /\ Last(c[1]) = thread[c] /\ c[2] = token[c[1]] /\ c[1] \in Task
<1>1. c = Current(c[1]) /\ c[1] \in Task
  BY DEF Registrations, SteadyInv, Claim
<1> QED
  BY <1>1, LastIs

LEMMA MarkedFrame ==
    ASSUME NEW t \in Task, Marked(t), token'[t] = token[t], Last(t)' = Last(t),
           t \in processing' <=> t \in processing, t \in spent' <=> t \in spent,
           pc' \in {"recover", "forget"} =>
               pc' = pc /\ seen'[t] = seen[t] /\ (t \in seenSpent' <=> t \in seenSpent),
           pc \in Quiet \cup {"recover", "forget"} => pc' = pc \/ pc' \in Quiet
    PROVE  Marked(t)'
BY DEF Marked

LEMMA ChargedFrame ==
    ASSUME NEW t \in Task, Charged(t), Last(t)' = Last(t),
           t \in processing' <=> t \in processing,
           attempt'[t] = attempt[t], runs'[t] = runs[t],
           ~event' => ~event, pc' \in Early => pc \in Early \/ ~event,
           pc' = "discard" /\ t \in cur' => pc = "discard" /\ t \in cur,
           Discarding(t) => Discarding(t)'
    PROVE  Charged(t)'
BY DEF Charged, Ours

\* A step of the poll loop that only moves on: recover and forget are entered and
\* left by steps of their own.
Onward ==
    /\ pc' \notin {"recover", "forget"} \/ (pc' = pc /\ UNCHANGED <<seen, seenSpent>>)
    /\ pc \in Quiet \cup {"recover", "forget"} => pc' = pc \/ pc' \in Quiet
    /\ pc' \in Early => pc \in Early \/ ~event
    /\ pc' # "discard" \/ (pc' = pc /\ cur' = cur)
    /\ pc \notin {"discard", "discardSpent"} \/ (pc' = pc /\ cur' = cur)

LEMMA UseFrame ==
    ASSUME TypeOK, NEW t \in Task, UseInv(t), Onward, ~event' => ~event,
           token'[t] = token[t], attempt'[t] = attempt[t], runs'[t] = runs[t],
           t \in processing' <=> t \in processing, t \in spent' <=> t \in spent,
           \A d \in Claim : d = Current(t) => thread'[d] = thread[d]
    PROVE  UseInv(t)'
<1>1. Last(t)' = Last(t)
  BY LastKept
<1>2. Marked(t)'
  BY <1>1, MarkedFrame DEF UseInv, Onward
<1>3. Charged(t)'
  BY <1>1, ChargedFrame DEF UseInv, Onward, Discarding
<1> QED
  BY <1>2, <1>3 DEF UseInv

\* The rounds of recovery: what Snapshot reads, RecoverAbandoned decides on and
\* Forget drops is the same in each round.
LEMMA UsesRecovery ==
    ASSUME "settle" \notin Faults, Inv, Registrations, Boxes, NEW u \in Task, UseInv(u),
           \/ Snapshot \/ Recovered \/ Forget
           \/ \E t \in Task : RecoverAbandoned(t)
    PROVE  UseInv(u)'
<1>m. Marked(u) /\ Charged(u) /\ BoxInv(u)
  BY DEF UseInv, Boxes
<1>d. token[u] # 0 => Current(u) \in Claim
  BY CurrentClaim DEF Inv, TypeOK
<1>1. CASE Snapshot
  <2>1. /\ UNCHANGED <<redis, claims, flags, thread, cur, runs>>
        /\ pc = "snapshot" /\ pc' = "recover" /\ seen' = active /\ seenSpent' = spent
    BY <1>1 DEF Snapshot, Step, At
  <2>2. Last(u)' = Last(u)
    BY <2>1 DEF Last, Current, redis
  <2>3. u \in spent => active[u] # token[u]
    <3>1. SUFFICES ASSUME u \in spent, active[u] = token[u] PROVE FALSE
      OBVIOUS
    <3>2. Last(u) \in Ended
      BY <1>m, <3>1 DEF Marked
    <3>3. PICK c \in Claim : c = Current(u)
      BY <1>d, <3>2 DEF Last, Ended
    <3>4. Last(u) = thread[c] /\ Alive(c)
      BY <1>m, <3>1, <3>3, LastIs DEF BoxInv
    <3> QED
      BY <3>2, <3>4 DEF Alive, InFlight, Waiting, Ending, Ended
  <2>4. Marked(u)'
    BY <1>m, <2>1, <2>2, <2>3 DEF Marked, redis, claims
  <2>5. Charged(u)'
    BY <1>m, <2>1, <2>2, ChargedFrame DEF Early, Discarding, redis, flags
  <2> QED
    BY <2>4, <2>5 DEF UseInv
<1>2. CASE Recovered
  <2>1. /\ UNCHANGED <<redis, claims, flags, thread, cur, runs, seen, seenSpent>>
        /\ pc = "recover" /\ pc' = "forget" /\ ~Unprotected(u)
    BY <1>2 DEF Recovered, Step, At
  <2>2. Last(u)' = Last(u)
    BY <2>1 DEF Last, Current, redis
  <2>3. u \in processing => seen[u] = token[u]
    BY <1>m, <2>1 DEF BoxInv, Unprotected
  <2>4. Marked(u)'
    BY <1>m, <2>1, <2>2, <2>3 DEF Marked, Quiet, redis, claims
  <2>5. Charged(u)'
    BY <1>m, <2>1, <2>2, ChargedFrame DEF Early, Discarding, redis, flags
  <2> QED
    BY <2>4, <2>5 DEF UseInv
<1>3. CASE Forget
  <2>1. /\ UNCHANGED <<redis, active, flags, thread, cur, runs, seen, seenSpent>>
        /\ pc = "forget" /\ pc' = "pop" /\ spent' = spent \ seenSpent
    BY <1>3 DEF Forget, Step, At
  <2>2. Last(u)' = Last(u)
    BY <2>1 DEF Last, Current, redis
  <2>4. Marked(u)'
    BY <1>m, <2>1, <2>2 DEF Marked, Quiet, redis
  <2>5. Charged(u)'
    BY <1>m, <2>1, <2>2, ChargedFrame DEF Early, Discarding, redis, flags
  <2> QED
    BY <2>4, <2>5 DEF UseInv
<1>4. ASSUME NEW t \in Task, RecoverAbandoned(t) PROVE UseInv(u)'
  <2>1. /\ pc = "recover" /\ Unprotected(t)
        /\ UNCHANGED <<message, token, main, claims, flags, thread, runs>>
        /\ processing' = processing \ {t}
        /\ u # t => attempt'[u] = attempt[u]
    BY <1>4 DEF RecoverAbandoned, GoesBack, At, Inv, TypeOK
  <2>2. CASE u # t
    BY <2>1, <2>2, UseFrame DEF Onward, Early, main, claims, flags, Inv
  <2>3. CASE u = t
    <3>1. Last(t)' = Last(t)
      BY <2>1 DEF Last, Current
    <3>2. ~Ours(t)
      BY <2>1, OursSteady DEF Unprotected
    <3>3. ~Ours(t)'
      BY <2>1, <3>1, <3>2 DEF Ours, main, flags
    <3>4. t \in processing => message[t] = token[t] /\ (token[t] = 0 \/ seen[t] # token[t])
      BY <1>m, <2>1, <2>3 DEF BoxInv, Unprotected
    <3>5. t \in processing /\ Last(t) \in Ended => t \in seenSpent
      BY <1>m, <2>1, <2>3, <3>4 DEF Marked, Last, Ended
    <3>6. Marked(t)'
      BY <1>m, <2>1, <2>3, <3>1, <3>5 DEF Marked, Quiet, main, claims
    <3>7. runs'[t] <= attempt'[t]
      <4>1. CASE t \in processing \ seenSpent
        <5>1. Last(t) \in Waiting \cup {"none"}
          <6>1. Last(t) \in InFlight \cup Ending \cup Ended \cup {"none"}
            BY <1>d, <2>3 DEF Last, Inv, TypeOK
          <6> QED
            BY <1>m, <2>3, <3>2, <3>5, <4>1, <6>1 DEF Ours, Charged, InFlight, Ending
        <5>2. runs[t] < attempt[t]
          BY <1>m, <2>3, <4>1, <5>1 DEF Charged
        <5>3. attempt'[t] \in {attempt[t], attempt[t] - 1}
          BY <1>4 DEF RecoverAbandoned, Inv, TypeOK
        <5> QED
          BY <2>1, <5>2, <5>3 DEF Inv, TypeOK
      <4>2. CASE t \notin processing \ seenSpent
        <5>1. attempt'[t] = attempt[t]
          BY <1>4, <4>2 DEF RecoverAbandoned, Inv, TypeOK
        <5> QED
          BY <1>m, <2>1, <2>3, <5>1 DEF Charged
      <4> QED
        BY <4>1, <4>2
    <3>8. Charged(t)'
      BY <2>1, <3>3, <3>7 DEF Charged
    <3> QED
      BY <2>3, <3>6, <3>8 DEF UseInv
  <2> QED
    BY <2>2, <2>3
<1> QED
  BY <1>1, <1>2, <1>3, <1>4

\* From the attempt begun to the hand-over, or to the claim given up.
LEMMA UsesPoll ==
    ASSUME "settle" \notin Faults, Inv, Registrations, Boxes, NEW u \in Task, UseInv(u),
           NEW t \in Task, Begin(t) \/ DecodeFails(t) \/ Discard(t) \/ Submit(t)
    PROVE  UseInv(u)'
<1>m. Marked(u) /\ Charged(u) /\ BoxInv(u)
  BY DEF UseInv, Boxes
<1>c. t \in cur /\ cur = {t}
  BY DEF Begin, DecodeFails, Discard, Submit, Inv, Where
<1>1. CASE Begin(t)
  <2>1. /\ where[t] = "box" /\ UNCHANGED <<runs, claims, flags>> /\ pc = "popped"
        /\ pc' \in {"register", "release"}
        /\ token' = [token EXCEPT ![t] = token[t] + 1]
        /\ attempt' = [attempt EXCEPT ![t] = attempt[t] + 1]
        /\ processing' = processing \cup {t}
        /\ \/ thread' = [thread EXCEPT ![<<t, token[t] + 1>>] = "claimed"]
           \/ thread' = thread
    BY <1>1 DEF Begin, Step, At
  <2>2. CASE u # t
    <3>1. \A d \in Claim : d = Current(u) => thread'[d] = thread[d]
      BY <2>1, <2>2 DEF Current, Inv, TypeOK
    <3>2. Onward
      BY <2>1 DEF Onward, Quiet, Early
    <3> QED
      BY <2>1, <2>2, <3>1, <3>2, UseFrame DEF claims, flags, Inv, TypeOK
  <2>3. CASE u = t
    <3>1. /\ token[t] \in Nat /\ MaxClaims \in Nat /\ token[t] < MaxClaims
          /\ attempt[t] \in Nat /\ runs[t] \in Nat
      BY <1>c, <2>1, CountAssumption DEF Inv, TypeOK, Where
    <3>2. <<t, token[t] + 1>> \in Claim
      BY <3>1 DEF Claim
    <3>3. thread[<<t, token[t] + 1>>] = "none"
      BY <3>1, <3>2 DEF Inv, Where
    <3>4. token'[t] = token[t] + 1 /\ attempt'[t] = attempt[t] + 1
      BY <2>1 DEF Inv, TypeOK
    <3>5. Last(t)' \in {"claimed", "none"}
      BY <2>1, <3>1, <3>2, <3>3, <3>4 DEF Last, Current, Inv, TypeOK
    <3>6. t \notin processing
      BY <1>c, <1>m, <2>1, <2>3 DEF BoxInv
    <3>7. t \notin spent
      BY <1>m, <2>1, <2>3, <3>6 DEF Marked, Quiet
    <3>8. Marked(t)'
      BY <2>1, <3>5, <3>7 DEF Marked, Ended, claims
    <3>9. Charged(t)'
      BY <1>m, <2>1, <2>3, <3>1, <3>4, <3>5 DEF Charged
    <3> QED
      BY <2>3, <3>8, <3>9 DEF UseInv
  <2> QED
    BY <2>2, <2>3
<1>2. CASE DecodeFails(t)
  <2>1. /\ UNCHANGED <<token, attempt, claims, flags, thread, runs, cur>> /\ pc = "decode"
        /\ \/ Settles(Current(t)) /\ pc' = "discard"
           \/ (Settles(Current(t)) \/ UNCHANGED redis) /\ pc' = "discardSpent"
    BY <1>2 DEF DecodeFails, Settles, Step, At, redis
  <2>2. CASE u # t
    <3>1. u \in processing' <=> u \in processing
      BY <2>1, <2>2 DEF Settles, Current, redis
    <3>2. Last(u)' = Last(u)
      BY <2>1 DEF Last, Current
    <3>3. Marked(u)'
      BY <1>m, <2>1, <3>1, <3>2, MarkedFrame DEF Quiet, claims
    <3>4. Charged(u)'
      BY <1>c, <1>m, <2>1, <2>2, <3>1, <3>2, ChargedFrame DEF Discarding, Early, flags
    <3> QED
      BY <3>3, <3>4 DEF UseInv
  <2>3. CASE u = t
    <3>1. Last(t) = "claimed" /\ token[t] > 0
      BY <1>c, <2>1, PollLast DEF Begun
    <3>2. Last(t)' = "claimed"
      BY <2>1, <3>1 DEF Last, Current
    <3>3. t \notin spent
      BY <1>m, <2>3, <3>1 DEF Marked, Ended
    <3>4. t \in processing => Owns(Current(t))
      BY <1>m, <2>3 DEF BoxInv, Owns, Current
    <3>5. /\ pc' = "discard" => t \notin processing'
          /\ t \in processing' => t \in processing
      BY <2>1, <3>4 DEF Settles, Current, redis
    <3>6. Marked(t)'
      BY <2>1, <3>2, <3>3 DEF Marked, Ended, claims
    <3>7. Charged(t)'
      BY <1>c, <1>m, <2>1, <2>3, <3>1, <3>2, <3>5 DEF Charged, Discarding, Waiting
    <3> QED
      BY <2>3, <3>6, <3>7 DEF UseInv
  <2> QED
    BY <2>2, <2>3
<1>3. CASE Discard(t)
  <2>1. /\ UNCHANGED <<redis, flags, runs>> /\ cur' = {}
        /\ thread' = [thread EXCEPT ![Current(t)] = "over"]
        /\ \/ pc = "discard" /\ pc' = "pop" /\ spent' = spent
           \/ pc = "discardSpent" /\ pc' = "release" /\ spent' = spent \cup {t}
    BY <1>3 DEF Discard, Step, At
  <2>2. CASE u # t
    <3>1. \A d \in Claim : d = Current(u) => thread'[d] = thread[d]
      BY <2>1, <2>2 DEF Current, Inv, TypeOK
    <3>2. Last(u)' = Last(u)
      BY <2>1, <3>1, LastKept DEF redis, Inv
    <3>3. Marked(u)'
      BY <1>m, <2>1, <2>2, <3>2, MarkedFrame DEF Quiet, redis
    <3>4. Charged(u)'
      BY <1>c, <1>m, <2>1, <2>2, <3>2, ChargedFrame DEF Discarding, Early, redis, flags
    <3> QED
      BY <3>3, <3>4 DEF UseInv
  <2>3. CASE u = t
    <3>1. Last(t) = "claimed" /\ token[t] > 0 /\ Current(t) \in Claim
      BY <1>c, <2>1, PollLast DEF Begun
    <3>2. Last(t)' = "over"
      BY <2>1, <3>1 DEF Last, Current, redis, Inv, TypeOK
    <3>3. t \notin spent
      BY <1>m, <2>3, <3>1 DEF Marked, Ended
    <3>4. pc = "discard" => t \notin processing
      BY <1>c, <1>m, <2>3 DEF Charged
    <3>6. Marked(t)'
      BY <2>1, <3>2, <3>3, <3>4 DEF Marked, Ended, Quiet, redis
    <3>7. Charged(t)'
      BY <1>m, <2>1, <2>3, <3>2 DEF Charged, Ours, Waiting, redis
    <3> QED
      BY <2>3, <3>6, <3>7 DEF UseInv
  <2> QED
    BY <2>2, <2>3
<1>4. CASE Submit(t)
  <2>1. /\ UNCHANGED <<redis, claims, flags, runs>> /\ pc = "submit"
        /\ pc' \in {"release", "inline"}
        /\ thread' = thread \/ thread' = [thread EXCEPT ![Current(t)] = "queued"]
    BY <1>4 DEF Submit, Step, At
  <2>2. Onward
    BY <2>1 DEF Onward, Quiet, Early
  <2>3. CASE u # t
    <3>1. \A d \in Claim : d = Current(u) => thread'[d] = thread[d]
      BY <2>1, <2>3 DEF Current, Inv, TypeOK
    <3> QED
      BY <2>1, <2>2, <3>1, UseFrame DEF redis, claims, flags, Inv
  <2>4. CASE u = t
    <3>1. Last(t) = "claimed" /\ token[t] > 0 /\ Current(t) \in Claim
      BY <1>c, <2>1, PollLast DEF Begun
    <3>2. Last(t)' \in Waiting
      BY <2>1, <3>1 DEF Last, Current, Waiting, redis, Inv, TypeOK
    <3>3. t \notin spent
      BY <1>m, <2>4, <3>1 DEF Marked, Ended
    <3>4. Ours(t)' => t \in processing
      BY <1>m, <2>1, <2>4, <3>1, <3>2 DEF Charged, Discarding, Ours, Waiting, Early, flags
    <3>5. Marked(t)'
      BY <2>1, <3>2, <3>3 DEF Marked, Ended, Waiting, claims
    <3>6. Charged(t)'
      BY <1>m, <2>1, <2>4, <3>1, <3>2, <3>4 DEF Charged, Waiting, redis
    <3> QED
      BY <2>4, <3>5, <3>6 DEF UseInv
  <2> QED
    BY <2>3, <2>4
<1> QED
  BY <1>1, <1>2, <1>3, <1>4

\* A handler starts, returns, settles or ends: it had its message, or no claim to one.
LEMMA UsesClaim ==
    ASSUME "settle" \notin Faults, Inv, Registrations, Boxes, NEW u \in Task, UseInv(u),
           NEW c \in Claim, ClaimStep(c) \/ Interrupted(c)
    PROVE  UseInv(u)'
<1>m. Marked(u) /\ Charged(u) /\ BoxInv(u)
  BY DEF UseInv, Boxes
<1>1. \A d \in Claim \ {c} : thread'[d] = thread[d]
  BY DEF ClaimStep, Admit, ReturnUnstarted, Settle, End, Interrupted, Stage, Inv, TypeOK
<1>2. c[1] \in Task /\ UNCHANGED <<token, seen, seenSpent, flags>>
  BY DEF ClaimStep, Admit, ReturnUnstarted, Settle, End, Interrupted, Settles, redis, main, Claim
<1>3. Onward
  BY DEF ClaimStep, Admit, ReturnUnstarted, Settle, End, Interrupted, Inline, Onward, Quiet,
     Early, main
<1>4. u # c[1] => /\ attempt'[u] = attempt[u] /\ runs'[u] = runs[u]
                  /\ u \in processing' <=> u \in processing
                  /\ u \in spent' <=> u \in spent
  BY <1>2 DEF ClaimStep, Admit, ReturnUnstarted, Settle, End, Interrupted, Settles, GoesBack,
     redis, claims, Inv, TypeOK
<1>5. CASE u # c[1]
  <2>1. \A d \in Claim : d = Current(u) => thread'[d] = thread[d]
    BY <1>1, <1>5 DEF Current
  <2> QED
    BY <1>2, <1>3, <1>4, <1>5, <2>1, UseFrame DEF flags, Inv
<1>6. CASE u = c[1] /\ c # Current(u)
  <2>1. \A d \in Claim : d = Current(u) => thread'[d] = thread[d]
    BY <1>1, <1>6
  <2>2. ~Steady(c)
    BY <1>6, SteadyLast
  <2>3. u \in processing => ~Owns(c)
    BY <1>2, <1>6, <1>m DEF BoxInv, Owns, Current, Claim
  <2>4. /\ UNCHANGED <<attempt, runs>> /\ (u \in processing' <=> u \in processing)
        /\ (u \in spent' <=> u \in spent)
    <3>1. CASE ReturnUnstarted(c)
      BY <1>6, <2>3, <3>1 DEF ReturnUnstarted, redis, claims
    <3>2. CASE Admit(c)
      BY <2>2, <3>2 DEF Admit, MayRun, Steady, Alive, InFlight
    <3>3. CASE Settle(c) \/ Interrupted(c)
      BY <2>2, <3>3 DEF Settle, Interrupted, MayRun, Steady
    <3>4. CASE End(c)
      BY <2>2, <3>4 DEF End, MayRun, Steady, Ending, redis, claims
    <3> QED
      BY <3>1, <3>2, <3>3, <3>4 DEF ClaimStep
  <2> QED
    BY <1>2, <1>3, <1>6, <2>1, <2>4, UseFrame DEF flags, Inv
<1>7. CASE u = c[1] /\ c = Current(u)
  <2>1. Last(u) = thread[c] /\ c[2] = token[u] /\ token[u] > 0
    BY <1>7, LastIs
  <2>2. Last(u)' = thread'[c]
    BY <1>2, <1>7, <2>1 DEF Last, Current
  <2>3. u \in processing => Owns(c)
    BY <1>7, <1>m, <2>1 DEF BoxInv, Owns
  <2>4. Discarding(u) => thread[c] = "claimed"
    BY <2>1, PollLast DEF Discarding, Begun
  <2>5. attempt[u] \in Nat /\ runs[u] \in Nat
    BY DEF Inv, TypeOK
  <2>6. CASE Admit(c)
    <3>1. /\ UNCHANGED <<redis, claims, pc, cur>> /\ thread'[c] = "running"
          /\ thread[c] \in Waiting /\ ~event /\ runs'[u] = runs[u] + 1
      BY <1>7, <2>6 DEF Admit, MayRun, Stage, Inv, TypeOK
    <3>2. ~Discarding(u)
      BY <2>4, <2>6 DEF Admit, MayAdmit, Inline, Discarding
    <3>3. u \in processing
      BY <1>m, <2>1, <3>1, <3>2 DEF Charged, Ours
    <3>4. runs[u] < attempt[u]
      BY <1>m, <2>1, <3>1, <3>3 DEF Charged
    <3>5. u \notin spent
      BY <1>m, <2>1, <3>1 DEF Marked, Ended, Waiting
    <3>6. Marked(u)'
      BY <1>m, <1>2, <2>2, <3>1, <3>5 DEF Marked, Ended, redis, claims
    <3>7. Charged(u)'
      BY <1>m, <2>2, <2>5, <3>1, <3>2, <3>3, <3>4
         DEF Charged, Waiting, Discarding, redis
    <3> QED
      BY <3>6, <3>7 DEF UseInv
  <2>7. CASE ReturnUnstarted(c)
    <3>1. /\ thread[c] \in Waiting /\ thread'[c] = "ending"
          /\ UNCHANGED <<claims, pc, cur, runs>> /\ u \notin processing'
          /\ \/ UNCHANGED <<attempt, processing>>
             \/ u \in processing /\ attempt'[u] = attempt[u] - 1
      BY <1>7, <2>3, <2>7 DEF ReturnUnstarted, MayRun, GoesBack, Stage, redis, Inv, TypeOK
    <3>2. u \notin spent
      BY <1>m, <2>1, <3>1 DEF Marked, Ended, Waiting
    <3>3. runs'[u] <= attempt'[u]
      BY <1>m, <2>1, <2>5, <3>1 DEF Charged
    <3>4. Marked(u)'
      BY <1>m, <1>2, <2>2, <3>1, <3>2 DEF Marked, Ended, claims
    <3>5. Charged(u)'
      BY <2>2, <3>1, <3>3 DEF Charged, Ours, Waiting
    <3> QED
      BY <3>4, <3>5 DEF UseInv
  <2>8. CASE Settle(c)
    <3>1. /\ thread[c] = "running" /\ thread'[c] = "ending"
          /\ UNCHANGED <<claims, pc, cur, runs, attempt>> /\ u \notin processing'
      BY <1>7, <2>3, <2>8 DEF Settle, MayRun, Settles, Stage, main, redis, Inv, TypeOK
    <3>2. u \notin spent
      BY <1>m, <2>1, <3>1 DEF Marked, Ended
    <3>4. Marked(u)'
      BY <1>m, <1>2, <2>2, <3>1, <3>2 DEF Marked, Ended, claims
    <3>5. Charged(u)'
      BY <1>m, <2>2, <3>1 DEF Charged, Ours, Waiting
    <3> QED
      BY <3>4, <3>5 DEF UseInv
  <2>9. CASE Interrupted(c)
    <3>1. /\ thread[c] = "running" /\ thread'[c] = "interrupted"
          /\ UNCHANGED <<redis, claims, pc, cur, runs>>
      BY <2>9 DEF Interrupted, MayRun, Stage, main, Inv, TypeOK
    <3>2. u \notin spent /\ u \in processing
      BY <1>m, <2>1, <2>4, <3>1 DEF Marked, Ended, Charged, Ours
    <3>4. Marked(u)'
      BY <1>m, <1>2, <2>2, <3>1, <3>2 DEF Marked, Ended, redis, claims
    <3>5. Charged(u)'
      BY <1>m, <2>1, <2>2, <2>4, <3>1, <3>2 DEF Charged, Waiting, Discarding, redis
    <3> QED
      BY <3>4, <3>5 DEF UseInv
  <2>10. CASE End(c)
    <3>1. /\ UNCHANGED <<redis, runs>>
          /\ \/ thread[c] = "ending" /\ thread'[c] = "over" /\ (u \in spent' <=> u \in spent)
             \/ thread[c] = "interrupted" /\ thread'[c] = "lost" /\ u \in spent'
          /\ pc' = pc \/ pc' \in Quiet
      BY <1>7, <2>10 DEF End, MayRun, Stage, Ending, Quiet, Inv, TypeOK
    <3>2. u \notin spent
      BY <1>m, <2>1, <3>1 DEF Marked, Ended
    <3>3. thread[c] = "interrupted" => u \in processing /\ (pc = "recover" => seen[u] = token[u])
      <4>1. SUFFICES ASSUME thread[c] = "interrupted"
                     PROVE  u \in processing /\ (pc = "recover" => seen[u] = token[u])
        OBVIOUS
      <4>2. Ours(u)
        BY <2>1, <4>1 DEF Ours
      <4> QED
        BY <1>m, <2>4, <4>1, <4>2, OursSteady DEF Charged
    <3>4. thread[c] = "ending" => u \notin processing
      BY <1>m, <2>1 DEF Charged
    <3>5. Marked(u)'
      BY <1>m, <1>2, <2>2, <3>1, <3>2, <3>3, <3>4 DEF Marked, Ended, Quiet, redis
    <3>6. Charged(u)'
      BY <1>m, <1>3, <2>2, <2>4, <3>1, <3>4
         DEF Charged, Ours, Waiting, Discarding, Onward, Quiet, redis
    <3> QED
      BY <3>5, <3>6 DEF UseInv
  <2> QED
    BY <2>6, <2>7, <2>8, <2>9, <2>10 DEF ClaimStep
<1> QED
  BY <1>5, <1>6, <1>7

\* While run() lasts the heartbeat does not lapse, so no other worker takes a message.
Beats == pc # "down" => heartbeat = TRUE

LEMMA BeatsStep ==
    ASSUME "lapse" \notin Faults
    PROVE  Inv /\ Beats /\ [Next]_vars => Beats'
<1> SUFFICES ASSUME Inv, Beats, [Next]_vars PROVE Beats'
  OBVIOUS
<1>1. CASE Join \/ Refresh \/ HeartbeatLoop
  BY <1>1 DEF Join, Refresh, HeartbeatLoop, Step, live, main, Beats
<1>2. CASE \/ Enter \/ Loop \/ Permit \/ PermitStopped \/ Snapshot \/ Recovered \/ Forget
           \/ PopLoop \/ PopNone \/ Decoded \/ Release \/ PollRaises \/ StopStep
           \/ StopCalled("main") \/ StopCalled("other") \/ StopCalled("signal")
           \/ UNCHANGED vars
  BY <1>2 DEF Enter, Needs, Loop, Permit, PermitStopped, Snapshot, Recovered, Forget,
     PopLoop, PopNone, Decoded, Release, PollRaises, StopStep, StopLocks, StopDrains,
     StopRunning, StopFlags, StopCalled, Step, At, vars, live, main, Inv, Stops, Beats
<1>3. CASE \E t \in Task : \/ RecoverAbandoned(t) \/ Pop(t) \/ Begin(t) \/ BeginNothing(t)
                           \/ Register(t) \/ DecodeFails(t) \/ Discard(t) \/ Submit(t)
                           \/ TakenOver(t) \/ MoveRetry(t)
  BY <1>3 DEF RecoverAbandoned, Pop, Begin, BeginNothing, Register, DecodeFails, Discard,
     Submit, TakenOver, MoveRetry, Step, At, live, main, Beats
<1>4. CASE \E c \in Claim : ClaimStep(c) \/ SettleLost(c) \/ Interrupted(c)
  <2>1. PICK c \in Claim : ClaimStep(c) \/ SettleLost(c) \/ Interrupted(c)
    BY <1>4
  <2>2. pc # "down" /\ heartbeat' = heartbeat
    BY <2>1 DEF ClaimStep, Admit, ReturnUnstarted, Settle, End, SettleLost, Interrupted,
       MayRun, Waiting, Ending, Ended, live, Inv, Stops
  <2> QED
    BY <2>2 DEF Beats
<1>5. CASE Lapse
  BY <1>5 DEF Lapse, main, Inv, Stops, Beats
<1> QED
  BY <1>1, <1>2, <1>3, <1>4, <1>5 DEF Next, MainStep

LEMMA UsesStep ==
    ASSUME "due" \notin Faults, "settle" \notin Faults
    PROVE  Inv /\ Registrations /\ Boxes /\ Beats /\ Uses /\ [Next]_vars => Uses'
<1> SUFFICES ASSUME Inv, Registrations, Boxes, Beats, Uses, [Next]_vars, NEW u \in Task
             PROVE  UseInv(u)'
  BY DEF Uses
<1>0. UseInv(u) /\ TypeOK
  BY DEF Uses, Inv
<1>1. CASE \/ Enter \/ Loop \/ Permit \/ PermitStopped \/ Refresh \/ PopLoop \/ PopNone
           \/ Decoded \/ Release \/ Join \/ StopCalled("main") \/ StopCalled("other")
           \/ StopCalled("signal") \/ PollRaises \/ \E t \in Task : BeginNothing(t) \/ Register(t)
  <2>1. UNCHANGED <<redis, spent, thread, event, runs>>
    BY <1>1 DEF Enter, Loop, Permit, PermitStopped, Refresh, PopLoop, PopNone, Decoded,
       Release, Join, StopCalled, PollRaises, BeginNothing, Register, flags, claims
  <2>2. Onward
    BY <1>1 DEF Enter, Loop, Permit, PermitStopped, Refresh, PopLoop, PopNone, Decoded,
       Release, Join, StopCalled, PollRaises, BeginNothing, Register, Step, At, main, Onward,
       Quiet, Early, Registrations
  <2> QED
    BY <1>0, <2>1, <2>2, UseFrame DEF redis
<1>2. CASE StopStep \/ HeartbeatLoop \/ Lapse \/ UNCHANGED vars
  <2>1. UNCHANGED <<redis, spent, thread, runs, seen, seenSpent, cur>> /\ (~event' => ~event)
    BY <1>2 DEF StopStep, StopLocks, StopDrains, StopRunning, StopFlags, HeartbeatLoop, Lapse,
       vars, claims, main, flags
  <2>2. pc' = pc \/ (pc = "exiting" /\ pc' = "joining")
    BY <1>2 DEF StopStep, StopLocks, StopDrains, StopRunning, StopFlags, HeartbeatLoop, Lapse,
       vars, main, Inv, Stops
  <2>3. Onward
    BY <2>1, <2>2 DEF Onward, Quiet, Early
  <2> QED
    BY <1>0, <2>1, <2>3, UseFrame DEF redis
<1>3. CASE \/ Snapshot \/ Recovered \/ Forget \/ \E t \in Task : RecoverAbandoned(t)
  BY <1>0, <1>3, UsesRecovery
<1>4. CASE \E t \in Task : Begin(t) \/ DecodeFails(t) \/ Discard(t) \/ Submit(t)
  BY <1>0, <1>4, UsesPoll
<1>5. ASSUME NEW t \in Task, Pop(t) \/ MoveRetry(t) PROVE UseInv(u)'
  <2>1. UNCHANGED <<token, attempt, processing, spent, thread, event, runs>>
    BY <1>5 DEF Pop, MoveRetry, claims, flags
  <2>2. Onward
    BY <1>5 DEF Pop, MoveRetry, Step, At, main, Onward, Quiet, Early
  <2> QED
    BY <1>0, <2>1, <2>2, UseFrame
<1>6. ASSUME NEW t \in Task, TakenOver(t) PROVE UseInv(u)'
  <2>1. /\ UNCHANGED <<token, attempt, thread, main, claims, flags, runs>>
        /\ processing' = processing \ {t} /\ pc = "down"
    BY <1>6 DEF TakenOver, GoesBack, Beats
  <2>2. Last(u)' = Last(u)
    BY <2>1 DEF Last, Current
  <2>3. Last(u) \in {"none", "over", "lost"}
    BY <1>0, <2>1, CurrentClaim DEF Last, Inv, Stops, Ended, TypeOK
  <2>4. Marked(u)'
    BY <1>0, <2>1, <2>2 DEF UseInv, Marked, Quiet, main, claims
  <2>5. Charged(u)'
    BY <1>0, <2>1, <2>2, <2>3 DEF UseInv, Charged, Ours, Waiting, main
  <2> QED
    BY <2>4, <2>5 DEF UseInv
<1>7. CASE \E c \in Claim : ClaimStep(c) \/ SettleLost(c) \/ Interrupted(c)
  BY <1>0, <1>7, UsesClaim DEF SettleLost
<1> QED
  BY <1>1, <1>2, <1>3, <1>4, <1>5, <1>6, <1>7 DEF Next, MainStep

LEMMA UsesInit == Init => Beats /\ Uses
<1>1. ASSUME Init, NEW t \in Task PROVE UseInv(t)
  <2>1. Last(t) = "none"
    BY <1>1 DEF Init, Last
  <2> QED
    BY <1>1, <2>1 DEF Init, UseInv, Marked, Charged, Ours, Waiting, Ended
<1> QED
  BY <1>1 DEF Init, Beats, Uses

\* Unless a settlement has no answer, the heartbeat lapses or a task comes back while
\* its thread still ends: recovery gives back no attempt that a handler has used.
THEOREM UsedAttemptKeptHolds ==
    ASSUME "due" \notin Faults, "settle" \notin Faults, "lapse" \notin Faults
    PROVE  Spec => []UsedAttemptKept
<1>1. Inv /\ Registrations /\ Boxes /\ Beats /\ Uses /\ [Next]_vars => Uses'
  BY UsesStep
<1>2. Inv /\ Boxes /\ Beats /\ [Next]_vars => Boxes' /\ Beats'
  BY BoxesStep, BeatsStep
<1>3. Spec => []Registrations
  BY RegistrationsHold, PTL
<1>4. Init => Boxes /\ Beats /\ Uses
  BY BoxesInit, UsesInit
<1>5. Uses => UsedAttemptKept
  BY DEF Uses, UseInv, Charged, UsedAttemptKept
<1> QED
  BY <1>1, <1>2, <1>3, <1>4, <1>5, InvHolds, PTL DEF Spec
=============================================================================
