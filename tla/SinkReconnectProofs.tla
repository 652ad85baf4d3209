------------------------- MODULE SinkReconnectProofs -------------------------
(***************************************************************************)
(* The sink gives up on a phone that does not answer, whatever the length  *)
(* of its queue and the number of retries: an attempt is opened only after *)
(* it was counted, or was already due when the count was cleared.          *)
(***************************************************************************)
EXTENDS SinkReconnect, SequenceTheorems, FiniteSetTheorems, TLAPS

Addresses == Peers \cup {NoPeer}
Events == [kind : {"conn", "attempt", "stackUp"}, st : LinkStates \cup {"none"},
           peer : Addresses, abnormal : BOOLEAN]

\* Until the stack has come up nothing has happened but the power-on.
BootInv ==
    ~StackRuns =>
        /\ appQueue = <<StackUp>>
        /\ radio = "down" /\ appPc = "idle" /\ forgetPc = "idle"
        /\ timer = FALSE /\ posting = FALSE
        /\ retries = 0 /\ allowed = MaxRetries

\* There is leave for every attempt to come, and for every retry not yet counted.
DueInv == Due + (MaxRetries - retries) <= allowed

ReconnectInv == ReconnectTypeOK /\ BootInv /\ DueInv

(***************************************************************************)
(* How many attempts a queue holds.                                        *)
(***************************************************************************)

AttemptsIn(q) == {i \in 1..Len(q) : q[i].kind = "attempt"}

LEMMA AttemptsAreCounted ==
    ASSUME NEW q \in Seq(Events)
    PROVE  /\ IsFiniteSet(AttemptsIn(q))
           /\ Cardinality(AttemptsIn(q)) \in Nat
<1>1. IsFiniteSet(1..Len(q))
    BY LenProperties, FS_Interval
<1>2. AttemptsIn(q) \in SUBSET (1..Len(q))
    BY DEF AttemptsIn
<1> QED BY <1>1, <1>2, FS_Subset, FS_CardinalityType

LEMMA AttemptsAppended ==
    ASSUME NEW q \in Seq(Events), NEW e \in Events
    PROVE  Cardinality(AttemptsIn(Append(q, e)))
               <= Cardinality(AttemptsIn(q)) + (IF e.kind = "attempt" THEN 1 ELSE 0)
<1> DEFINE n == Len(q)
           r == Append(q, e)
<1>1. n \in Nat /\ Len(r) = n + 1 /\ r[n + 1] = e /\ \A i \in 1..n : r[i] = q[i]
    BY LenProperties, AppendProperties
<1> HIDE DEF n, r
<1>2. AttemptsIn(q) = {i \in 1..n : q[i].kind = "attempt"}
    BY DEF AttemptsIn, n
<1>3. AttemptsIn(r) = {i \in 1..(n + 1) : r[i].kind = "attempt"}
    BY <1>1 DEF AttemptsIn
<1>4. 1..(n + 1) = (1..n) \cup {n + 1}
    BY <1>1
<1>5. CASE e.kind = "attempt"
    <2>1. AttemptsIn(r) = AttemptsIn(q) \cup {n + 1}
        BY <1>1, <1>2, <1>3, <1>4, <1>5
    <2>2. n + 1 \notin AttemptsIn(q)
        BY <1>1, <1>2
    <2>3. IsFiniteSet(AttemptsIn(q)) /\ Cardinality(AttemptsIn(q)) \in Nat
        BY AttemptsAreCounted
    <2>4. Cardinality(AttemptsIn(r)) = Cardinality(AttemptsIn(q)) + 1
        BY <2>1, <2>2, <2>3, FS_AddElement
    <2> QED BY <1>5, <2>3, <2>4 DEF r
<1>6. CASE e.kind # "attempt"
    <2>1. AttemptsIn(r) = AttemptsIn(q)
        BY <1>1, <1>2, <1>3, <1>4, <1>6
    <2> QED BY <1>6, <2>1, AttemptsAreCounted DEF r
<1> QED BY <1>5, <1>6

LEMMA AttemptsTaken ==
    ASSUME NEW q \in Seq(Events), q # <<>>
    PROVE  Cardinality(AttemptsIn(Tail(q)))
               <= Cardinality(AttemptsIn(q)) - (IF Head(q).kind = "attempt" THEN 1 ELSE 0)
<1> DEFINE n == Len(q)
           r == Tail(q)
           Rest == AttemptsIn(q) \ {1}
           f == [i \in AttemptsIn(r) |-> i + 1]
<1>1. /\ n \in Nat \ {0} /\ Len(r) = n - 1 /\ Head(q) = q[1]
      /\ \A i \in 1..(n - 1) : r[i] = q[i + 1]
    BY LenProperties, EmptySeq, HeadTailProperties
<1>2. IsFiniteSet(Rest)
    BY AttemptsAreCounted, FS_RemoveElement
<1>3. Cardinality(Rest)
          = Cardinality(AttemptsIn(q)) - (IF Head(q).kind = "attempt" THEN 1 ELSE 0)
    <2>1. 1 \in AttemptsIn(q) <=> Head(q).kind = "attempt"
        BY <1>1 DEF AttemptsIn
    <2>2. IsFiniteSet(AttemptsIn(q)) /\ Cardinality(AttemptsIn(q)) \in Nat
        BY AttemptsAreCounted
    <2>3. Cardinality(Rest) = IF 1 \in AttemptsIn(q) THEN Cardinality(AttemptsIn(q)) - 1
                                                    ELSE Cardinality(AttemptsIn(q))
        BY <2>2, FS_RemoveElement
    <2> HIDE DEF Rest
    <2> QED BY <2>1, <2>2, <2>3
<1>4. f \in Injection(AttemptsIn(r), Rest)
    <2>1. AttemptsIn(r) = {i \in 1..(n - 1) : q[i + 1].kind = "attempt"}
        BY <1>1 DEF AttemptsIn
    <2>2. \A i \in AttemptsIn(r) : i \in Nat /\ i + 1 \in Rest
        BY <1>1, <2>1 DEF AttemptsIn
    <2>3. f \in [AttemptsIn(r) -> Rest]
        BY <2>2
    <2>4. \A i, j \in AttemptsIn(r) : f[i] = f[j] => i = j
        BY <2>2
    <2> QED BY <2>3, <2>4 DEF Injection, IsInjective
<1> HIDE DEF f, Rest
<1>5. Cardinality(AttemptsIn(r)) <= Cardinality(Rest)
    BY <1>2, <1>4, FS_Injection
<1> QED BY <1>3, <1>5

(***************************************************************************)
(* Type correctness.                                                       *)
(***************************************************************************)

\* ReconnectTypeOK in the names of this module.
Typed ==
    /\ radio \in {"down", "asked", "opening", "up", "closing"}
    /\ radioPeer \in Addresses
    /\ appQueue \in Seq(Events)
    /\ Len(appQueue) <= AppQueueSize
    /\ conn \in LinkStates
    /\ peer \in Addresses
    /\ nvsLast \in Addresses
    /\ ramLast \in Addresses
    /\ retries \in 0..MaxRetries
    /\ appPc = "schedule" => retries < MaxRetries
    /\ userDisc \in BOOLEAN
    /\ timer \in BOOLEAN /\ posting \in BOOLEAN
    /\ appPc \in {"idle", "schedule", "done"}
    /\ forgetPc \in {"idle", "disconnect", "bond", "blob", "target"}
    /\ allowed \in Int
    /\ lost \in Addresses

LEMMA TypedIsTypeOK == ReconnectTypeOK <=> Typed
BY DEF ReconnectTypeOK, Typed, Events, Addresses

LEMMA TypedIsTypeOKNext == ReconnectTypeOK' <=> Typed'
BY DEF ReconnectTypeOK, Typed, Events, Addresses

LEMMA EventsAreTyped ==
    /\ \A st \in LinkStates, p \in Addresses, abnormal \in BOOLEAN :
         Event(st, p, abnormal) \in Events
    /\ Attempt \in Events /\ StackUp \in Events
    /\ {"connecting", "connected", "disconnected", "disconnecting"} = LinkStates
BY DEF Event, Attempt, StackUp, Events, Addresses, LinkStates

LEMMA ReportKeepsQueue ==
    ASSUME Typed, NEW e \in Events, Report(e)
    PROVE  appQueue' \in Seq(Events) /\ Len(appQueue') <= AppQueueSize
<1>1. appQueue \in Seq(Events) /\ Len(appQueue) \in Nat
    BY LenProperties DEF Typed
<1>2. Append(appQueue, e) \in Seq(Events) /\ Len(Append(appQueue, e)) = Len(appQueue) + 1
    BY <1>1, AppendProperties
<1> QED BY <1>1, <1>2, ReconnectAssumption DEF Report

LEMMA TakeKeepsQueue ==
    ASSUME Typed, NEW kind, Take(kind)
    PROVE  /\ appQueue' \in Seq(Events) /\ Len(appQueue') <= AppQueueSize
           /\ Head(appQueue) \in Events
           /\ Head(appQueue).st \in LinkStates \cup {"none"}
           /\ Head(appQueue).peer \in Addresses
<1>1. appQueue \in Seq(Events) /\ Len(appQueue) \in Nat /\ appQueue # <<>>
    BY LenProperties DEF Typed, Take
<1>2. /\ Tail(appQueue) \in Seq(Events) /\ Len(Tail(appQueue)) = Len(appQueue) - 1
      /\ Head(appQueue) \in Events
    BY <1>1, HeadTailProperties
<1>3. Len(appQueue') <= AppQueueSize
    BY <1>1, <1>2, ReconnectAssumption DEF Typed, Take
<1> QED BY <1>2, <1>3 DEF Take, Events

LEMMA StackKeepsTypes ==
    ASSUME Typed,
           (\E p \in Peers : PhoneConnects(p)) \/ Opening \/ Opened
             \/ (\E abnormal \in BOOLEAN : Closed(abnormal))
    PROVE  Typed'
<1> USE EventsAreTyped DEF Addresses
<1>1. ASSUME NEW p \in Peers, PhoneConnects(p) PROVE Typed'
    <2>1. appQueue' \in Seq(Events) /\ Len(appQueue') <= AppQueueSize
        BY <1>1, ReportKeepsQueue DEF PhoneConnects
    <2> QED BY <1>1, <2>1 DEF Typed, PhoneConnects, sinkVars, taskVars, historyVars
<1>2. CASE Opening
    <2>1. appQueue' \in Seq(Events) /\ Len(appQueue') <= AppQueueSize
        BY <1>2, ReportKeepsQueue DEF Opening, Typed
    <2> QED BY <1>2, <2>1 DEF Typed, Opening, sinkVars, taskVars, historyVars
<1>3. CASE Opened
    <2>1. appQueue' \in Seq(Events) /\ Len(appQueue') <= AppQueueSize
        BY <1>3, ReportKeepsQueue DEF Opened, Typed
    <2> QED BY <1>3, <2>1 DEF Typed, Opened, sinkVars, taskVars, historyVars
<1>4. ASSUME NEW abnormal \in BOOLEAN, Closed(abnormal) PROVE Typed'
    <2>1. appQueue' \in Seq(Events) /\ Len(appQueue') <= AppQueueSize
        BY <1>4, ReportKeepsQueue DEF Closed, Typed
    <2> QED BY <1>4, <2>1 DEF Typed, Closed, sinkVars, taskVars, historyVars
<1> QED BY <1>1, <1>2, <1>3, <1>4

LEMMA DueIsCounted == Typed => /\ Cardinality(QueuedAttempts) \in Nat
                               /\ Due \in Nat
                               /\ One(posting) \in {0, 1}
<1>1. Typed => Cardinality(QueuedAttempts) \in Nat
    BY AttemptsAreCounted DEF Typed, QueuedAttempts, AttemptsIn
<1> QED BY <1>1 DEF Due, One

\* The number of retries stays a number of retries.
LEMMA RetriesStayCounted ==
    /\ 0 \in 0..MaxRetries /\ 1 \in 0..MaxRetries
    /\ \A n \in 0..MaxRetries : n < MaxRetries => n + 1 \in 0..MaxRetries
BY ReconnectAssumption

LEMMA AppTaskKeepsTypes ==
    ASSUME Typed, AppTask
    PROVE  Typed'
<1> USE EventsAreTyped
<1>1. CASE HandleStackUp
    <2>1. appQueue' \in Seq(Events) /\ Len(appQueue') <= AppQueueSize
        BY <1>1, TakeKeepsQueue DEF HandleStackUp
    <2>2. ramLast' \in Addresses /\ retries' \in 0..MaxRetries /\ timer' \in BOOLEAN
        BY <1>1, RetriesStayCounted DEF Typed, HandleStackUp
    <2>3. appPc' = "idle"
        BY <1>1 DEF HandleStackUp, Take, taskVars
    <2> QED BY <1>1, <2>1, <2>2, <2>3
            DEF Typed, HandleStackUp, stackVars, taskVars, historyVars
<1>2. CASE HandleDisconnected
    <2>1. /\ appQueue' \in Seq(Events) /\ Len(appQueue') <= AppQueueSize
          /\ peer' \in Addresses /\ lost' \in Addresses
        BY <1>2, TakeKeepsQueue DEF HandleDisconnected, Typed
    <2>2. /\ appPc' \in {"idle", "schedule", "done"}
          /\ appPc' = "schedule" => retries < MaxRetries
        BY <1>2 DEF HandleDisconnected, Retries
    <2> QED BY <1>2, <2>1, <2>2 DEF Typed, HandleDisconnected, stackVars
<1>3. CASE FinishDisconnected
    <2>1. retries' \in 0..MaxRetries /\ timer' \in BOOLEAN
        BY <1>3, RetriesStayCounted DEF Typed, FinishDisconnected, ScheduleReconnect
    <2> QED BY <1>3, <2>1 DEF Typed, FinishDisconnected, stackVars, historyVars
<1>4. CASE HandleConnected
    <2>1. /\ appQueue' \in Seq(Events) /\ Len(appQueue') <= AppQueueSize
          /\ peer' \in Addresses /\ nvsLast' \in Addresses
        BY <1>4, TakeKeepsQueue DEF HandleConnected
    <2>2. retries' \in 0..MaxRetries /\ allowed' \in Int
        BY <1>4, DueIsCounted, RetriesStayCounted, ReconnectAssumption DEF HandleConnected
    <2>3. appPc' = "idle"
        BY <1>4 DEF HandleConnected, Take, taskVars
    <2> QED BY <1>4, <2>1, <2>2, <2>3
            DEF Typed, HandleConnected, stackVars, taskVars, Addresses
<1>5. CASE HandleOther
    <2>1. appQueue' \in Seq(Events) /\ Len(appQueue') <= AppQueueSize
        BY <1>5, TakeKeepsQueue DEF HandleOther
    <2> QED BY <1>5, <2>1 DEF Typed, HandleOther, stackVars, taskVars, historyVars
<1>6. CASE HandleAttempt
    <2>1. appQueue' \in Seq(Events) /\ Len(appQueue') <= AppQueueSize
        BY <1>6, TakeKeepsQueue DEF HandleAttempt
    <2>2. allowed' \in Int /\ lost' \in Addresses
        BY <1>6 DEF Typed, HandleAttempt, Addresses
    <2>3. /\ radio' \in {"down", "asked", "opening", "up", "closing"}
          /\ radioPeer' \in Addresses
        BY <1>6 DEF Typed, HandleAttempt
    <2> QED BY <1>6, <2>1, <2>2, <2>3 DEF Typed, HandleAttempt, sinkVars, taskVars
<1> QED BY <1>1, <1>2, <1>3, <1>4, <1>5, <1>6 DEF AppTask

LEMMA OthersKeepTypes ==
    ASSUME Typed, TimerExpires \/ TimerPosts \/ ForgetBegins \/ MainLoop \/ PowerCycle
    PROVE  Typed'
<1> USE EventsAreTyped DEF Addresses
<1>0. CASE TimerExpires
    <2>1. timer' \in BOOLEAN /\ posting' \in BOOLEAN
        BY <1>0 DEF TimerExpires
    <2> QED BY <1>0, <2>1 DEF Typed, TimerExpires, stackVars, historyVars
<1>1. CASE TimerPosts
    <2>1. appQueue' \in Seq(Events) /\ Len(appQueue') <= AppQueueSize
        BY <1>1, ReportKeepsQueue DEF TimerPosts
    <2>2. posting' \in BOOLEAN
        BY <1>1 DEF TimerPosts
    <2> QED BY <1>1, <2>1, <2>2 DEF Typed, TimerPosts, stackVars, sinkVars, historyVars
<1>2. CASE ForgetBegins
    BY <1>2 DEF Typed, ForgetBegins, stackVars, sinkVars, taskVars, historyVars
<1>3. CASE ForgetDisconnects
    <2>1. CASE radio \in {"opening", "up"} /\ radioPeer = peer
        <3>1. appQueue' \in Seq(Events) /\ Len(appQueue') <= AppQueueSize
            BY <1>3, <2>1, ReportKeepsQueue DEF ForgetDisconnects, Typed
        <3> QED BY <1>3, <2>1, <3>1 DEF Typed, ForgetDisconnects, historyVars
    <2>2. CASE ~(radio \in {"opening", "up"} /\ radioPeer = peer)
        BY <1>3, <2>2 DEF Typed, ForgetDisconnects, historyVars
    <2> QED BY <2>1, <2>2
<1>4. CASE RemoveBond
    BY <1>4 DEF Typed, RemoveBond, stackVars, sinkVars, historyVars
<1>5. CASE EraseBlob
    BY <1>5 DEF Typed, EraseBlob, stackVars, taskVars, historyVars
<1>6. CASE ForgetTarget
    <2>1. retries' \in 0..MaxRetries /\ retries' < MaxRetries /\ allowed' \in Int
        BY <1>6, DueIsCounted, RetriesStayCounted, ReconnectAssumption DEF ForgetTarget
    <2> QED BY <1>6, <2>1 DEF Typed, ForgetTarget, stackVars
<1>7. CASE PowerCycle
    <2>1. appQueue' \in Seq(Events) /\ Len(appQueue') <= AppQueueSize
        BY <1>7, ReconnectAssumption DEF PowerCycle
    <2>2. retries' \in 0..MaxRetries /\ allowed' \in Int
        BY <1>7, RetriesStayCounted, ReconnectAssumption DEF PowerCycle
    <2> QED BY <1>7, <2>1, <2>2 DEF Typed, PowerCycle, LinkStates
<1> QED BY <1>0, <1>1, <1>2, <1>3, <1>4, <1>5, <1>6, <1>7 DEF MainLoop

LEMMA TypesAreInductive ==
    /\ ReconnectInit => ReconnectTypeOK
    /\ ReconnectTypeOK /\ [ReconnectNext]_reconnectVars => ReconnectTypeOK'
<1>1. ASSUME ReconnectInit PROVE ReconnectTypeOK
    <2>1. appQueue \in Seq(Events) /\ Len(appQueue) <= AppQueueSize
        BY <1>1, EventsAreTyped, ReconnectAssumption DEF ReconnectInit
    <2>2. retries \in 0..MaxRetries /\ allowed \in Int
        BY <1>1, RetriesStayCounted, ReconnectAssumption DEF ReconnectInit
    <2>3. Typed
        BY <1>1, <2>1, <2>2 DEF Typed, ReconnectInit, LinkStates, Addresses
    <2> QED BY <2>3, TypedIsTypeOK
<1>2. ASSUME ReconnectTypeOK, [ReconnectNext]_reconnectVars PROVE ReconnectTypeOK'
    <2>1. Typed
        BY <1>2, TypedIsTypeOK
    <2>2. CASE ReconnectNext
        BY <2>1, <2>2, StackKeepsTypes, AppTaskKeepsTypes, OthersKeepTypes, TypedIsTypeOKNext
           DEF ReconnectNext
    <2>3. CASE UNCHANGED reconnectVars
        <3>1. Typed'
            BY <2>1, <2>3 DEF Typed, reconnectVars, stackVars, sinkVars, taskVars, historyVars
        <3> QED BY <3>1, TypedIsTypeOKNext
    <2> QED BY <1>2, <2>2, <2>3
<1> QED BY <1>1, <1>2

\* Types: whatever the stack, the phones and the user do, a power cycle included, no event
\* is posted to a full queue and the sink never counts more retries than it is allowed.
THEOREM ReconnectTypeCorrect == ReconnectSpec => []ReconnectTypeOK
<1>1. ReconnectInit => ReconnectTypeOK
    BY TypesAreInductive
<1>2. ReconnectTypeOK /\ [ReconnectNext]_reconnectVars => ReconnectTypeOK'
    BY TypesAreInductive
<1> QED BY <1>1, <1>2, PTL DEF ReconnectSpec

(***************************************************************************)
(* Until the stack runs, nothing happens.                                  *)
(***************************************************************************)

LEMMA RunningStackStays ==
    ASSUME Typed, StackRuns
    PROVE  /\ \A e \in Events : Report(e) /\ e.kind # "stackUp" => StackRuns'
           /\ \A kind : Take(kind) => StackRuns'
           /\ UNCHANGED appQueue => StackRuns'
<1>1. appQueue \in Seq(Events) /\ Len(appQueue) \in Nat
    BY LenProperties DEF Typed
<1>2. ASSUME NEW e \in Events, Report(e), e.kind # "stackUp" PROVE StackRuns'
    <2>1. /\ Len(appQueue') = Len(appQueue) + 1
          /\ \A i \in 1..Len(appQueue) : appQueue'[i] = appQueue[i]
          /\ appQueue'[Len(appQueue) + 1] = e
        BY <1>1, <1>2, AppendProperties DEF Report
    <2>2. 1..(Len(appQueue) + 1) = (1..Len(appQueue)) \cup {Len(appQueue) + 1}
        BY <1>1
    <2>3. \A i \in 1..(Len(appQueue) + 1) : appQueue'[i].kind # "stackUp"
        BY <1>2, <2>1, <2>2 DEF StackRuns
    <2> QED BY <2>1, <2>3 DEF StackRuns
<1>3. ASSUME NEW kind, Take(kind) PROVE StackRuns'
    <2> DEFINE n == Len(appQueue)
    <2>1. /\ n \in Nat /\ Len(appQueue') = n - 1
          /\ \A i \in 1..Len(appQueue') : appQueue'[i] = appQueue[i + 1]
        BY <1>1, <1>3, HeadTailProperties DEF Take
    <2>2. \A i \in 1..n : appQueue[i].kind # "stackUp"
        BY DEF StackRuns
    <2> HIDE DEF n
    <2>3. \A i \in 1..(n - 1) : i + 1 \in 1..n
        BY <2>1
    <2> QED BY <2>1, <2>2, <2>3 DEF StackRuns
<1> QED BY <1>2, <1>3 DEF StackRuns

LEMMA TakingStartsStack ==
    ASSUME Typed, BootInv, NEW kind, Take(kind)
    PROVE  StackRuns'
<1>1. CASE StackRuns
    BY <1>1, RunningStackStays
<1>2. CASE ~StackRuns
    <2>1. appQueue \in Seq(Events) /\ appQueue # <<>> /\ Len(appQueue) = 1
        BY <1>2 DEF Typed, BootInv, Take
    <2>2. Len(appQueue') = 0
        BY <2>1, HeadTailProperties DEF Take
    <2> QED BY <2>2 DEF StackRuns
<1> QED BY <1>1, <1>2

LEMMA StackKeepsRunning ==
    ASSUME Typed, BootInv, ReconnectNext, ~PowerCycle
    PROVE  StackRuns'
<1> USE EventsAreTyped
<1>1. \A st \in LinkStates, p \in Addresses, abnormal \in BOOLEAN :
        Event(st, p, abnormal).kind # "stackUp" /\ Attempt.kind # "stackUp"
    BY DEF Event, Attempt
<1>2. ASSUME NEW p \in Peers, PhoneConnects(p) PROVE StackRuns'
    BY <1>1, <1>2, RunningStackStays DEF PhoneConnects, Addresses
<1>3. CASE Opening
    <2>1. StackRuns
        BY <1>3 DEF BootInv, Opening
    <2> QED BY <1>1, <1>3, <2>1, RunningStackStays DEF Opening, Typed
<1>4. CASE Opened
    <2>1. StackRuns
        BY <1>4 DEF BootInv, Opened
    <2> QED BY <1>1, <1>4, <2>1, RunningStackStays DEF Opened, Typed
<1>5. ASSUME NEW abnormal \in BOOLEAN, Closed(abnormal) PROVE StackRuns'
    <2>1. StackRuns
        BY <1>5 DEF BootInv, Closed
    <2> QED BY <1>1, <1>5, <2>1, RunningStackStays DEF Closed, Typed
<1>0. CASE FinishDisconnected
    <2>1. StackRuns
        BY <1>0 DEF BootInv, FinishDisconnected
    <2> QED BY <1>0, <2>1, RunningStackStays DEF FinishDisconnected
<1>6. CASE AppTask /\ ~FinishDisconnected
    <2>1. \E kind : Take(kind)
        BY <1>6 DEF AppTask, HandleStackUp, HandleDisconnected, HandleConnected,
                          HandleOther, HandleAttempt
    <2> QED BY <2>1, TakingStartsStack
<1>7. CASE TimerExpires \/ TimerPosts
    <2>1. StackRuns
        BY <1>7 DEF BootInv, TimerExpires, TimerPosts
    <2> QED BY <1>1, <1>7, <2>1, RunningStackStays DEF TimerExpires, TimerPosts, Typed
<1>8. CASE ForgetBegins
    BY <1>8, RunningStackStays DEF ForgetBegins
<1>9. CASE MainLoop
    <2>1. StackRuns
        BY <1>9 DEF BootInv, MainLoop, ForgetDisconnects, RemoveBond, EraseBlob, ForgetTarget
    <2>2. UNCHANGED appQueue \/ Report(Event("disconnecting", peer, FALSE))
        BY <1>9 DEF MainLoop, ForgetDisconnects, RemoveBond, EraseBlob, ForgetTarget
    <2> QED BY <1>1, <2>1, <2>2, RunningStackStays DEF Typed
<1> QED BY <1>0, <1>2, <1>3, <1>4, <1>5, <1>6, <1>7, <1>8, <1>9 DEF ReconnectNext

LEMMA BootIsInductive ==
    /\ ReconnectInit => BootInv
    /\ ReconnectTypeOK /\ BootInv /\ [ReconnectNext]_reconnectVars => BootInv'
<1>1. ReconnectInit => BootInv
    BY DEF ReconnectInit, BootInv
<1>2. ASSUME ReconnectTypeOK, BootInv, [ReconnectNext]_reconnectVars PROVE BootInv'
    <2>1. CASE ReconnectNext /\ ~PowerCycle
        BY <1>2, <2>1, TypedIsTypeOK, StackKeepsRunning DEF BootInv
    <2>2. CASE PowerCycle
        BY <2>2 DEF PowerCycle, BootInv
    <2>3. CASE UNCHANGED reconnectVars
        BY <1>2, <2>3 DEF BootInv, StackRuns, reconnectVars, stackVars, sinkVars, taskVars, historyVars
    <2> QED BY <1>2, <2>1, <2>2, <2>3
<1> QED BY <1>1, <1>2

(***************************************************************************)
(* An attempt is opened only after it was counted.                         *)
(***************************************************************************)

\* DueInv, with its parts named.
Waiting == Cardinality(AttemptsIn(appQueue))
Running == One(posting) + One(timer)

LEMMA DueIsTheSum ==
    /\ Due = Waiting + Running
    /\ Due' = Waiting' + Running'
    /\ Cardinality(QueuedAttempts) = Waiting
<1>1. Due = Waiting + Running /\ Cardinality(QueuedAttempts) = Waiting
    BY DEF Due, QueuedAttempts, Waiting, Running, AttemptsIn
<1>2. Due' = Waiting' + Running'
    BY DEF Due, QueuedAttempts, Waiting, Running, AttemptsIn
<1> QED BY <1>1, <1>2

LEMMA PartsAreCounts ==
    Typed => /\ allowed \in Int /\ retries \in 0..MaxRetries /\ MaxRetries \in Nat
             /\ Waiting \in Nat /\ Running \in 0..2
<1>1. Typed => Waiting \in Nat
    BY AttemptsAreCounted DEF Typed, Waiting
<1>2. One(TRUE) = 1 /\ One(FALSE) = 0
    BY DEF One
<1> QED BY <1>1, <1>2, ReconnectAssumption DEF Typed, Running, One

LEMMA PartsAreCountsNext ==
    Typed' => /\ allowed' \in Int /\ retries' \in 0..MaxRetries /\ MaxRetries \in Nat
              /\ Waiting' \in Nat /\ Running' \in 0..2
<1>1. Typed' => Waiting' \in Nat
    BY AttemptsAreCounted DEF Typed, Waiting
<1>2. One(TRUE) = 1 /\ One(FALSE) = 0
    BY DEF One
<1> QED BY <1>1, <1>2, ReconnectAssumption DEF Typed, Running, One

LEMMA ReportingWaits ==
    ASSUME Typed, NEW e \in Events, Report(e)
    PROVE  Waiting' <= Waiting + (IF e.kind = "attempt" THEN 1 ELSE 0)
BY AttemptsAppended DEF Typed, Report, Waiting

\* A report of the link is no attempt.
LEMMA LinkReportsWait ==
    ASSUME Typed, NEW st \in LinkStates, NEW p \in Addresses, NEW abnormal \in BOOLEAN,
           Report(Event(st, p, abnormal))
    PROVE  Waiting' <= Waiting
<1>1. Event(st, p, abnormal) \in Events
    BY EventsAreTyped
<1>2. Event(st, p, abnormal).kind = "conn"
    BY DEF Event
<1>3. Waiting \in Nat
    BY AttemptsAreCounted DEF Typed, Waiting
<1>4. Waiting' <= Waiting + (IF Event(st, p, abnormal).kind = "attempt" THEN 1 ELSE 0)
    BY <1>1, ReportingWaits
<1> QED BY <1>2, <1>3, <1>4

LEMMA TakingWaits ==
    ASSUME Typed, NEW kind, Take(kind)
    PROVE  Waiting' <= Waiting - (IF kind = "attempt" THEN 1 ELSE 0)
BY AttemptsTaken DEF Typed, Take, Waiting

\* What the actions do to the count, the attempts and those to come.
LEMMA CountSteps ==
    ASSUME Typed, Typed', BootInv, ReconnectNext
    PROVE  \/ /\ allowed' = allowed /\ retries' = retries
              /\ Waiting' + Running' <= Waiting + Running
           \/ /\ allowed' = allowed /\ retries' = retries + 1
              /\ Waiting' + Running' <= Waiting + Running + 1
           \/ /\ allowed' = allowed - 1 /\ retries' = retries
              /\ Waiting' + Running' <= Waiting + Running - 1
           \/ /\ retries' = 0
              /\ MaxRetries + Waiting' + Running' <= allowed'
<1> USE EventsAreTyped, PartsAreCounts, PartsAreCountsNext
<1>0. Attempt.kind = "attempt"
    BY DEF Attempt
<1>1. ASSUME NEW p \in Peers, PhoneConnects(p)
      PROVE  /\ allowed' = allowed /\ retries' = retries
             /\ Waiting' + Running' <= Waiting + Running
    <2>1. Waiting' <= Waiting
        BY <1>1, LinkReportsWait DEF PhoneConnects, Addresses
    <2> QED BY <1>1, <2>1 DEF PhoneConnects, sinkVars, taskVars, historyVars, Running
<1>2. ASSUME Opening \/ Opened \/ \E abnormal \in BOOLEAN : Closed(abnormal)
      PROVE  /\ allowed' = allowed /\ retries' = retries
             /\ Waiting' + Running' <= Waiting + Running
    <2>1. Waiting' <= Waiting
        BY <1>2, LinkReportsWait DEF Opening, Opened, Closed, Typed
    <2>2. Running' = Running
        <3>1. timer' = timer /\ posting' = posting
            BY <1>2 DEF Opening, Opened, Closed, sinkVars, taskVars
        <3> QED BY <3>1 DEF Running, One
    <2>3. allowed' = allowed /\ retries' = retries
        BY <1>2 DEF Opening, Opened, Closed, sinkVars, taskVars, historyVars
    <2> QED BY <2>1, <2>2, <2>3
<1>3. ASSUME HandleStackUp
      PROVE  /\ allowed' = allowed
             /\ \/ /\ retries' = retries
                   /\ Waiting' + Running' <= Waiting + Running
                \/ /\ retries' = retries + 1
                   /\ Waiting' + Running' <= Waiting + Running + 1
    <2>1. Waiting' <= Waiting
        BY <1>3, TakingWaits DEF HandleStackUp
    <2>2. ~StackRuns
        <3>1. /\ appQueue # <<>> /\ Head(appQueue) = appQueue[1] /\ Len(appQueue) >= 1
              /\ Head(appQueue).kind = "stackUp"
            BY <1>3, LenProperties, EmptySeq, HeadTailProperties DEF HandleStackUp, Take, Typed
        <3> QED BY <3>1 DEF StackRuns
    <2>3. posting' = posting /\ ~posting /\ ~timer /\ retries = 0 /\ allowed' = allowed
        BY <1>3, <2>2 DEF HandleStackUp, BootInv, taskVars, historyVars
    <2>4. Running = 0 /\ Running' = One(timer')
        BY <2>3 DEF Running, One
    <2>5. \/ retries' = retries /\ timer' = timer
          \/ retries' = retries + 1
        BY <1>3, <2>3 DEF HandleStackUp
    <2>6. One(timer') \in {0, 1} /\ (~timer' => One(timer') = 0)
        BY DEF One
    <2> QED BY <2>1, <2>3, <2>4, <2>5, <2>6
<1>4. ASSUME HandleDisconnected
      PROVE  /\ allowed' = allowed /\ retries' = retries
             /\ Waiting' + Running' <= Waiting + Running
    <2>1. Waiting' <= Waiting
        BY <1>4, TakingWaits DEF HandleDisconnected
    <2> QED BY <1>4, <2>1 DEF HandleDisconnected, Running
<1>12. ASSUME FinishDisconnected
      PROVE  /\ allowed' = allowed
             /\ \/ /\ retries' = retries
                   /\ Waiting' + Running' <= Waiting + Running
                \/ /\ retries' = retries + 1
                   /\ Waiting' + Running' <= Waiting + Running + 1
    <2>1. Waiting' = Waiting
        BY <1>12 DEF FinishDisconnected, Waiting
    <2>2. posting' = posting /\ allowed' = allowed
        BY <1>12 DEF FinishDisconnected, historyVars
    <2>3. One(timer') <= One(timer) + (IF appPc = "schedule" THEN 1 ELSE 0)
        BY <1>12 DEF FinishDisconnected, ScheduleReconnect, One
    <2>4. retries' = retries + (IF appPc = "schedule" THEN 1 ELSE 0)
        BY <1>12 DEF FinishDisconnected, ScheduleReconnect
    <2>5. One(timer) \in {0, 1} /\ One(timer') \in {0, 1} /\ One(posting) \in {0, 1}
        BY DEF One
    <2> QED BY <2>1, <2>2, <2>3, <2>4, <2>5 DEF Running
<1>5. ASSUME HandleConnected
      PROVE  /\ retries' = 0
             /\ MaxRetries + Waiting' + Running' <= allowed'
    <2>1. Waiting' <= Waiting
        BY <1>5, TakingWaits DEF HandleConnected
    <2>2. allowed' = MaxRetries + (Waiting + Running)
        BY <1>5, DueIsTheSum DEF HandleConnected
    <2>3. Running' = Running
        BY <1>5 DEF HandleConnected, taskVars, Running
    <2> QED BY <1>5, <2>1, <2>2, <2>3 DEF HandleConnected
<1>6. ASSUME HandleOther
      PROVE  /\ allowed' = allowed /\ retries' = retries
             /\ Waiting' + Running' <= Waiting + Running
    <2>1. Waiting' <= Waiting
        BY <1>6, TakingWaits DEF HandleOther
    <2> QED BY <1>6, <2>1 DEF HandleOther, taskVars, historyVars, Running
<1>7. ASSUME HandleAttempt
      PROVE  /\ allowed' \in {allowed, allowed - 1}
             /\ retries' = retries
             /\ Waiting' + Running' <= Waiting + Running - 1
    <2>1. Waiting' <= Waiting - 1
        BY <1>7, TakingWaits DEF HandleAttempt
    <2>2. Running' = Running
        BY <1>7 DEF HandleAttempt, sinkVars, taskVars, Running
    <2>3. allowed' \in {allowed, allowed - 1} /\ retries' = retries
        BY <1>7 DEF HandleAttempt, sinkVars
    <2> QED BY <2>1, <2>2, <2>3
<1>8. ASSUME TimerExpires \/ TimerPosts
      PROVE  /\ allowed' = allowed /\ retries' = retries
             /\ Waiting' + Running' <= Waiting + Running
    <2>1. CASE TimerExpires
        <3>1. Waiting' = Waiting
            BY <2>1 DEF TimerExpires, Waiting
        <3>2. Running' = Running
            BY <2>1 DEF TimerExpires, Running, One
        <3> QED BY <2>1, <3>1, <3>2 DEF TimerExpires, historyVars
    <2>2. CASE TimerPosts
        <3>1. Waiting' <= Waiting + 1
            BY <1>0, <2>2, ReportingWaits DEF TimerPosts
        <3>2. Running' = Running - 1
            BY <2>2 DEF TimerPosts, sinkVars, Running, One
        <3> QED BY <2>2, <3>1, <3>2 DEF TimerPosts, sinkVars, historyVars
    <2> QED BY <1>8, <2>1, <2>2
<1>9. ASSUME ForgetBegins \/ ForgetDisconnects \/ RemoveBond \/ EraseBlob
      PROVE  /\ allowed' = allowed /\ retries' = retries
             /\ Waiting' + Running' <= Waiting + Running
    <2>1. UNCHANGED appQueue \/ Report(Event("disconnecting", peer, FALSE))
        BY <1>9 DEF ForgetBegins, ForgetDisconnects, RemoveBond, EraseBlob
    <2>2. Waiting' <= Waiting
        <3>1. CASE UNCHANGED appQueue
            BY <3>1 DEF Waiting
        <3>2. CASE Report(Event("disconnecting", peer, FALSE))
            BY <3>2, LinkReportsWait DEF Typed
        <3> QED BY <2>1, <3>1, <3>2
    <2>3. Running' = Running
        <3>1. timer' = timer /\ posting' = posting
            BY <1>9 DEF ForgetBegins, ForgetDisconnects, RemoveBond, EraseBlob, sinkVars
        <3> QED BY <3>1 DEF Running, One
    <2>4. allowed' = allowed /\ retries' = retries
        BY <1>9 DEF ForgetBegins, ForgetDisconnects, RemoveBond, EraseBlob, sinkVars, taskVars, historyVars
    <2> QED BY <2>2, <2>3, <2>4
<1>10. ASSUME ForgetTarget
       PROVE  /\ retries' = 0
              /\ MaxRetries + Waiting' + Running' <= allowed'
    <2>1. Waiting' = Waiting /\ allowed' = MaxRetries + Waiting + One(posting)
        BY <1>10, DueIsTheSum DEF ForgetTarget, Waiting
    <2>2. Running' = One(posting)
        BY <1>10 DEF ForgetTarget, Running, One
    <2>3. One(posting) \in {0, 1}
        BY DEF One
    <2> QED BY <1>10, <2>1, <2>2, <2>3 DEF ForgetTarget
<1>11. ASSUME PowerCycle
       PROVE  /\ retries' = 0
              /\ MaxRetries + Waiting' + Running' <= allowed'
    <2>1. AttemptsIn(appQueue') = {}
        BY <1>11 DEF PowerCycle, AttemptsIn, StackUp
    <2>2. Waiting' = 0
        BY <2>1, FS_EmptySet DEF Waiting
    <2> QED BY <1>11, <2>2 DEF PowerCycle, Running, One
<1> QED BY <1>1, <1>2, <1>3, <1>4, <1>5, <1>6, <1>7, <1>8, <1>9, <1>10, <1>11, <1>12
        DEF ReconnectNext, AppTask, MainLoop

LEMMA ReconnectIsInductive ==
    /\ ReconnectInit => ReconnectInv
    /\ ReconnectInv /\ [ReconnectNext]_reconnectVars => ReconnectInv'
<1>1. ReconnectInit => DueInv
    <2>1. ReconnectInit => AttemptsIn(appQueue) = {}
        BY DEF ReconnectInit, AttemptsIn, StackUp
    <2>2. ReconnectInit => Waiting = 0 /\ Running = 0
        BY <2>1, FS_EmptySet DEF ReconnectInit, Waiting, Running, One
    <2> QED BY <2>2, DueIsTheSum, ReconnectAssumption DEF ReconnectInit, DueInv
<1>2. ASSUME ReconnectInv, [ReconnectNext]_reconnectVars PROVE DueInv'
    <2>1. Typed /\ Typed' /\ BootInv
        BY <1>2, TypesAreInductive, TypedIsTypeOK, TypedIsTypeOKNext DEF ReconnectInv
    <2>2. (Waiting + Running) + (MaxRetries - retries) <= allowed
        BY <1>2, DueIsTheSum DEF ReconnectInv, DueInv
    <2>3. CASE ReconnectNext
        <3>1. (Waiting' + Running') + (MaxRetries - retries') <= allowed'
            BY <2>1, <2>2, <2>3, CountSteps, PartsAreCounts, PartsAreCountsNext
        <3> QED BY <3>1, DueIsTheSum DEF DueInv
    <2>4. CASE UNCHANGED reconnectVars
        BY <1>2, <2>4 DEF ReconnectInv, DueInv, Due, QueuedAttempts, reconnectVars, sinkVars,
                          taskVars, historyVars
    <2> QED BY <1>2, <2>3, <2>4
<1> QED BY <1>1, <1>2, TypesAreInductive, BootIsInductive DEF ReconnectInv

\* Between two successes, or after a forget, the sink opens at most the links it may retry
\* and those already due when the count was cleared, however long its queue is.
THEOREM RetriesAreBounded == ReconnectSpec => []RetryBounded
<1>1. ReconnectInit => ReconnectInv
    BY ReconnectIsInductive
<1>2. ReconnectInv /\ [ReconnectNext]_reconnectVars => ReconnectInv'
    BY ReconnectIsInductive
<1>3. ReconnectInv => RetryBounded
    <2>1. ReconnectInv => /\ (Waiting + Running) + (MaxRetries - retries) <= allowed
                          /\ retries <= MaxRetries
        BY DueIsTheSum DEF ReconnectInv, DueInv, ReconnectTypeOK
    <2> QED BY <2>1, TypedIsTypeOK, PartsAreCounts, ReconnectAssumption
            DEF ReconnectInv, RetryBounded
<1> QED BY <1>1, <1>2, <1>3, PTL DEF ReconnectSpec

=============================================================================
