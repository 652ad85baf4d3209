--------------------------- MODULE AckPipelineProofs ---------------------------
(***************************************************************************)
(* An ID that is pending, which blocks all transmission, is always watched *)
(* by something that will end it, unless the timer queue was full when its *)
(* timer ended; and the pending timers alone never fill their places.      *)
(***************************************************************************)
EXTENDS AckPipeline, FiniteSetTheorems, SequenceTheorems, TLAPS

Packets == [kind : {"ok", "pending", "other"}, id : ChangeIds \cup {None}]
Timeouts == [id : ChangeIds \cup {None}, lingo : Lingos \cup {None}]

Acks == [step : AckSteps, id : ChangeIds \cup {None}, lingo : Lingos \cup {None}]

\* A row of replies that is under way has one left to send.
ReplyInv == deferring.step = "reply" => deferring.left >= 1

\* The metadata task chooses the lingo of its ack while it is in no ack.
RouteInv == metaPc # "idle" => acking["meta"] = NoAck

AckInv == AckTypeOK /\ ReplyInv /\ RouteInv

(***************************************************************************)
(* The queues and the ack routine keep the types.                          *)
(***************************************************************************)

LEMMA IdsAreTyped ==
    /\ \A id \in ChangeIds \cup {None} :
         Ok(id) \in Packets /\ CmdPending(id) \in Packets /\ LingoOf(id) \in Lingos
    /\ Other \in Packets
    /\ None \notin ChangeIds /\ None \notin Lingos
BY DEF Ok, CmdPending, Other, Packets, ChangeIds, None, Lingos, LingoOf

LEMMA QueueingKeepsPackets ==
    ASSUME txQueue \in Seq(Packets), NEW p \in Packets
    PROVE  /\ QueuePacket(p) => txQueue' \in Seq(Packets)
           /\ QueuePacketToFront(p) => txQueue' \in Seq(Packets)
<1>1. Append(txQueue, p) \in Seq(Packets)
    OBVIOUS
<1>2. <<p>> \in Seq(Packets)
    OBVIOUS
<1>3. <<p>> \o txQueue \in Seq(Packets)
    BY <1>2, ConcatProperties
<1> QED BY <1>1, <1>3 DEF QueuePacket, QueuePacketToFront

LEMMA MayQueueKeepsPackets ==
    txQueue \in Seq(Packets) /\ MayQueueOther => txQueue' \in Seq(Packets)
BY QueueingKeepsPackets, IdsAreTyped DEF MayQueueOther

\* An ack that is started, moves on or ends is an ack.
LEMMA AckingKeepsType ==
    ASSUME AckTypeOK, NEW t \in Ackers
    PROVE  /\ acking \in [Ackers -> Acks]
           /\ \A l \in Lingos, id \in ChangeIds \cup {None} :
                StartAck(t, l, id) => acking' \in [Ackers -> Acks]
           /\ \A from, to \in AckSteps :
                AckStep(t, from, to) => acking' \in [Ackers -> Acks]
           /\ EndAck(t) => acking' \in [Ackers -> Acks]
<1>1. acking \in [Ackers -> Acks]
    BY DEF AckTypeOK, Acks
<1>2. ASSUME NEW l \in Lingos, NEW id \in ChangeIds \cup {None}, StartAck(t, l, id)
      PROVE  acking' \in [Ackers -> Acks]
    <2>1. [step |-> "compare", id |-> id, lingo |-> l] \in Acks
        BY DEF Acks, AckSteps
    <2> QED BY <1>1, <1>2, <2>1 DEF StartAck
<1>3. ASSUME NEW from \in AckSteps, NEW to \in AckSteps, AckStep(t, from, to)
      PROVE  acking' \in [Ackers -> Acks]
    <2>1. [acking[t] EXCEPT !.step = to] \in Acks
        BY <1>1 DEF Acks
    <2>2. acking' = [acking EXCEPT ![t] = [acking[t] EXCEPT !.step = to]]
        BY <1>1, <1>3 DEF AckStep, Acks
    <2> QED BY <1>1, <2>1, <2>2
<1>4. ASSUME EndAck(t)
      PROVE  acking' \in [Ackers -> Acks]
    <2>1. NoAck \in Acks
        BY DEF Acks, AckSteps, NoAck
    <2> QED BY <1>1, <1>4, <2>1 DEF EndAck
<1> QED BY <1>1, <1>2, <1>3, <1>4

(***************************************************************************)
(* Type correctness, by task.                                              *)
(***************************************************************************)

Deferrals == [step : {"idle", "queuePending", "setPending", "startTimer", "notify", "reply"},
              id : ChangeIds \cup {None}, left : 0..MaxReplies]
Sessions == [on : BOOLEAN, ends : 0..MaxEnds,
             reset : {"idle", "changeAck", "queues", "timers", "pending"}]

\* AckTypeOK in the names of this module.
Typed ==
    /\ incoming \in CmdIds \cup {None}
    /\ cmdQueue \in Seq(CmdIds)
    /\ txQueue \in Seq(Packets)
    /\ pending \in [Lingos -> ChangeIds \cup {None}]
    /\ timer \in [Lingos -> BOOLEAN]
    /\ firing \in Lingos \cup {None}
    /\ timerQueue \in Seq(Timeouts)
    /\ changeAck \in ChangeIds \cup {None}
    /\ acking \in [Ackers -> Acks]
    /\ deferring \in Deferrals
    /\ metaPc \in {"idle", "route"} \cup Lingos
    /\ sent \in 0..MaxCmds
    /\ changes \in 0..MaxChanges
    /\ posts \in 0..MaxPosts
    /\ lost \subseteq Lingos
    /\ session \in Sessions
    /\ unanswered \subseteq ChangeIds

LEMMA TypedIsTypeOK == AckTypeOK <=> Typed
BY DEF AckTypeOK, Typed, Packets, Timeouts, Acks, Deferrals, Sessions

LEMMA TypedIsTypeOKNext == AckTypeOK' <=> Typed'
BY DEF AckTypeOK, Typed, Packets, Timeouts, Acks, Deferrals, Sessions

LEMMA RxKeepsTypes ==
    ASSUME Typed, (\E id \in Commands : RxBegin(id)) \/ RxEnd
    PROVE  Typed'
<1>1. CASE \E id \in Commands : RxBegin(id)
    BY <1>1, AckAssumption DEF Typed, RxBegin
<1>2. CASE RxEnd
    <2>1. cmdQueue' = cmdQueue \/ cmdQueue' = Append(cmdQueue, incoming)
        BY <1>2 DEF RxEnd
    <2>2. incoming \in CmdIds
        BY <1>2 DEF Typed, RxEnd
    <2>3. cmdQueue' \in Seq(CmdIds)
        <3>1. cmdQueue \in Seq(CmdIds)
            BY DEF Typed
        <3>2. Append(cmdQueue, incoming) \in Seq(CmdIds)
            BY <2>2, <3>1
        <3> QED BY <2>1, <3>1, <3>2
    <2>4. unanswered' \subseteq ChangeIds
        BY <1>2 DEF Typed, RxEnd
    <2> QED BY <1>2, <2>3, <2>4 DEF Typed, RxEnd
<1> QED BY <1>1, <1>2

LEMMA RoutineKeepsTypes ==
    ASSUME Typed, NEW t \in Ackers, AckRoutine(t)
    PROVE  Typed'
<1>1. acking' \in [Ackers -> Acks]
    <2>1. \E from, to \in AckSteps : AckStep(t, from, to)
        BY DEF AckRoutine, AckOther, AckPending, AckStop, AckClear, AckFront, AckSteps
    <2> QED BY <2>1, AckingKeepsType, TypedIsTypeOK
<1>2. acking[t] \in Acks
    BY DEF Typed
<1>3. Ok(acking[t].id) \in Packets
    BY <1>2, IdsAreTyped DEF Acks
<1>4. CASE AckOther(t)
    BY <1>1, <1>3, <1>4, QueueingKeepsPackets DEF Typed, AckOther
<1>5. CASE AckPending(t)
    BY <1>1, <1>5 DEF Typed, AckPending
<1>6. CASE AckStop(t)
    BY <1>1, <1>6 DEF Typed, AckStop
<1>7. CASE AckClear(t)
    BY <1>1, <1>7 DEF Typed, AckClear
<1>8. CASE AckFront(t)
    BY <1>1, <1>3, <1>8, QueueingKeepsPackets DEF Typed, AckFront
<1> QED BY <1>4, <1>5, <1>6, <1>7, <1>8 DEF AckRoutine

LEMMA TakeCommandKeepsType ==
    ASSUME Typed, NEW id, TakeCommand(id)
    PROVE  cmdQueue' \in Seq(CmdIds)
<1>1. cmdQueue \in Seq(CmdIds) /\ cmdQueue # <<>> /\ cmdQueue' = Tail(cmdQueue)
    BY DEF Typed, TakeCommand
<1> QED BY <1>1, HeadTailProperties

LEMMA AnswersKeepTypes ==
    ASSUME Typed, ReplyInv,
           AnswerGet \/ Reply \/ (\E id \in ChangeIds : AnswerNow(id)) \/ EndAnswer
    PROVE  Typed' /\ ReplyInv'
<1>1. CASE AnswerGet
    <2>1. PICK n \in 0..MaxReplies :
            deferring' = IF n = 0 THEN NotDeferring
                                  ELSE [step |-> "reply", id |-> None, left |-> n]
        BY <1>1, AckAssumption
        DEF AnswerGet, GeneralReplies, DisplayReplies, ExtendedReplies
    <2>2. deferring' \in Deferrals /\ ReplyInv'
        BY <2>1, AckAssumption DEF Deferrals, ReplyInv, NotDeferring
    <2>3. cmdQueue' \in Seq(CmdIds)
        BY <1>1, TakeCommandKeepsType DEF AnswerGet
    <2> QED BY <1>1, <2>2, <2>3 DEF Typed, AnswerGet
<1>2. CASE Reply
    <2>1. txQueue' \in Seq(Packets)
        BY <1>2, QueueingKeepsPackets, IdsAreTyped DEF Typed, Reply
    <2>2. deferring \in Deferrals /\ deferring.left >= 1
        BY <1>2 DEF Typed, Reply, ReplyInv
    <2>3. deferring' \in Deferrals /\ ReplyInv'
        <3>1. CASE deferring.left = 1
            BY <1>2, <3>1, AckAssumption DEF Reply, NotDeferring, Deferrals, ReplyInv
        <3>2. CASE deferring.left # 1
            BY <1>2, <2>2, <3>2, AckAssumption DEF Reply, Deferrals, ReplyInv
        <3> QED BY <3>1, <3>2
    <2> QED BY <1>2, <2>1, <2>3 DEF Typed, Reply
<1>3. ASSUME NEW id \in ChangeIds, AnswerNow(id)
      PROVE  Typed' /\ ReplyInv'
    <2>1. cmdQueue' \in Seq(CmdIds)
        BY <1>3, TakeCommandKeepsType DEF AnswerNow
    <2>2. acking' \in [Ackers -> Acks]
        BY <1>3, AckingKeepsType, TypedIsTypeOK, IdsAreTyped DEF AnswerNow, Ackers
    <2>3. txQueue' \in Seq(Packets)
        BY <1>3, MayQueueKeepsPackets DEF AnswerNow, Typed
    <2> QED BY <1>3, <2>1, <2>2, <2>3 DEF Typed, AnswerNow, ReplyInv
<1>4. CASE EndAnswer
    <2>1. acking' \in [Ackers -> Acks]
        BY <1>4, AckingKeepsType, TypedIsTypeOK DEF EndAnswer, Ackers
    <2>2. txQueue' \in Seq(Packets)
        BY <1>4, MayQueueKeepsPackets DEF EndAnswer, Typed
    <2> QED BY <1>4, <2>1, <2>2 DEF Typed, EndAnswer, ReplyInv
<1> QED BY <1>1, <1>2, <1>3, <1>4

LEMMA DeferralsKeepTypes ==
    ASSUME Typed, ReplyInv,
           \/ \E id \in ChangeIds : Defer(id)
           \/ QueuePending \/ SetPending \/ StartPendingTimer \/ EndDefer \/ PurgeCommands
    PROVE  Typed' /\ ReplyInv'
<1>1. ASSUME NEW id \in ChangeIds, Defer(id)
      PROVE  Typed' /\ ReplyInv'
    <2>1. cmdQueue' \in Seq(CmdIds)
        BY <1>1, TakeCommandKeepsType DEF Defer
    <2>2. deferring' \in Deferrals /\ ReplyInv'
        BY <1>1, AckAssumption DEF Defer, Deferrals, ReplyInv
    <2> QED BY <1>1, <2>1, <2>2 DEF Typed, Defer
<1>6. CASE QueuePending
    <2>1. deferring \in Deferrals
        BY DEF Typed
    <2>2. deferring' \in Deferrals /\ ReplyInv'
        BY <1>6, <2>1 DEF QueuePending, DeferTo, Deferrals, ReplyInv
    <2>3. CmdPending(deferring.id) \in Packets
        BY <2>1, IdsAreTyped DEF Deferrals
    <2>4. txQueue' \in Seq(Packets)
        BY <1>6, <2>3, QueueingKeepsPackets DEF QueuePending, Typed
    <2> QED BY <1>6, <2>2, <2>4 DEF Typed, QueuePending
<1>2. CASE SetPending
    <2>1. deferring \in Deferrals
        BY DEF Typed
    <2>2. deferring' \in Deferrals /\ ReplyInv'
        BY <1>2, <2>1 DEF SetPending, DeferTo, Deferrals, ReplyInv
    <2>3. pending' \in [Lingos -> ChangeIds \cup {None}]
        BY <1>2, <2>1, IdsAreTyped DEF Typed, SetPending, Deferrals
    <2> QED BY <1>2, <2>2, <2>3 DEF Typed, SetPending
<1>3. CASE StartPendingTimer
    <2>1. deferring \in Deferrals
        BY DEF Typed
    <2>2. deferring' \in Deferrals /\ ReplyInv'
        BY <1>3, <2>1 DEF StartPendingTimer, DeferTo, Deferrals, ReplyInv
    <2>3. timer' \in [Lingos -> BOOLEAN]
        BY <1>3 DEF Typed, StartPendingTimer
    <2> QED BY <1>3, <2>2, <2>3 DEF Typed, StartPendingTimer
<1>4. CASE EndDefer
    <2>1. txQueue' \in Seq(Packets)
        BY <1>4, MayQueueKeepsPackets DEF EndDefer, Typed
    <2>2. deferring' \in Deferrals /\ ReplyInv'
        BY <1>4, AckAssumption DEF EndDefer, Deferrals, ReplyInv, NotDeferring
    <2> QED BY <1>4, <2>1, <2>2 DEF Typed, EndDefer
<1>5. CASE PurgeCommands
    BY <1>5 DEF Typed, PurgeCommands, ReplyInv
<1> QED BY <1>1, <1>2, <1>3, <1>4, <1>5, <1>6

\* What a callback posts is a message, and what the timer task leaves are messages.
LEMMA PostingKeepsTimeouts ==
    ASSUME timerQueue \in Seq(Timeouts)
    PROVE  /\ \A m \in Timeouts : Post(m) => timerQueue' \in Seq(Timeouts)
           /\ TakeMessage => timerQueue' \in Seq(Timeouts) /\ Head(timerQueue) \in Timeouts
<1>1. ASSUME NEW m \in Timeouts, Post(m)
      PROVE  timerQueue' \in Seq(Timeouts)
    <2>1. Append(timerQueue, m) \in Seq(Timeouts)
        OBVIOUS
    <2> QED BY <1>1, <2>1 DEF Post
<1>2. ASSUME TakeMessage
      PROVE  timerQueue' \in Seq(Timeouts) /\ Head(timerQueue) \in Timeouts
    BY <1>2, HeadTailProperties DEF TakeMessage
<1> QED BY <1>1, <1>2

LEMMA TimersKeepTypes ==
    ASSUME Typed,
           \/ \E l \in Lingos : TimerExpires(l)
           \/ TimerCallback \/ OtherTimerPosts \/ TakeTimeout \/ TakeOther \/ EndTimeout
    PROVE  Typed'
<1>1. CASE \E l \in Lingos : TimerExpires(l)
    BY <1>1 DEF Typed, TimerExpires
<1>2. CASE TimerCallback
    <2>1. firing \in Lingos /\ pending[firing] \in ChangeIds \cup {None}
        BY <1>2 DEF Typed, TimerCallback
    <2>2. Timeout(pending[firing], firing) \in Timeouts
        BY <2>1 DEF Timeout, Timeouts
    <2>3. timerQueue' \in Seq(Timeouts)
        BY <1>2, <2>2, PostingKeepsTimeouts DEF Typed, TimerCallback
    <2>4. lost' \subseteq Lingos
        BY <1>2, <2>1 DEF Typed, TimerCallback
    <2> QED BY <1>2, <2>3, <2>4 DEF Typed, TimerCallback
<1>3. CASE TakeTimeout
    <2>1. timerQueue' \in Seq(Timeouts) /\ Head(timerQueue) \in Timeouts
        BY <1>3, PostingKeepsTimeouts DEF Typed, TakeTimeout
    <2>2. Head(timerQueue).lingo \in Lingos /\ Head(timerQueue).id \in ChangeIds \cup {None}
        BY <1>3, <2>1 DEF Timeouts, TakeTimeout
    <2>3. acking' \in [Ackers -> Acks]
        BY <1>3, <2>2, AckingKeepsType, TypedIsTypeOK DEF TakeTimeout, Ackers
    <2> QED BY <1>3, <2>1, <2>3 DEF Typed, TakeTimeout
<1>5. CASE OtherTimerPosts
    <2>1. OtherTimeout \in Timeouts
        BY DEF OtherTimeout, Timeouts
    <2>2. timerQueue' \in Seq(Timeouts)
        BY <1>5, <2>1, PostingKeepsTimeouts DEF Typed, OtherTimerPosts
    <2>3. posts' \in 0..MaxPosts
        BY <1>5, AckAssumption DEF Typed, OtherTimerPosts
    <2> QED BY <1>5, <2>2, <2>3 DEF Typed, OtherTimerPosts
<1>6. CASE TakeOther
    <2>1. timerQueue' \in Seq(Timeouts)
        BY <1>6, PostingKeepsTimeouts DEF Typed, TakeOther
    <2>2. txQueue' \in Seq(Packets)
        BY <1>6, MayQueueKeepsPackets DEF Typed, TakeOther
    <2> QED BY <1>6, <2>1, <2>2 DEF Typed, TakeOther
<1>4. CASE EndTimeout
    <2>1. acking' \in [Ackers -> Acks]
        BY <1>4, AckingKeepsType, TypedIsTypeOK DEF EndTimeout, Ackers
    <2>2. txQueue' \in Seq(Packets)
        BY <1>4, QueueingKeepsPackets, IdsAreTyped DEF EndTimeout, Typed
    <2>3. changeAck' \in ChangeIds \cup {None}
        BY <1>4 DEF EndTimeout, Typed
    <2> QED BY <1>4, <2>1, <2>2, <2>3 DEF Typed, EndTimeout
<1> QED BY <1>1, <1>2, <1>3, <1>4, <1>5, <1>6

LEMMA MetadataKeepsTypes ==
    ASSUME Typed, MetadataChanged \/ RouteAck \/ AckChange \/ EndMetadata
    PROVE  Typed'
<1>1. CASE MetadataChanged
    <2>1. txQueue' \in Seq(Packets)
        BY <1>1, MayQueueKeepsPackets DEF MetadataChanged, Typed
    <2>2. metaPc' \in {"idle", "route"} \cup Lingos
        BY <1>1 DEF MetadataChanged, Typed
    <2>3. changes' \in 0..MaxChanges
        BY <1>1, AckAssumption DEF MetadataChanged, Typed
    <2> QED BY <1>1, <2>1, <2>2, <2>3 DEF MetadataChanged, Typed
<1>2. CASE RouteAck
    BY <1>2, IdsAreTyped DEF RouteAck, Typed
<1>4. CASE AckChange
    <2>1. metaPc \in Lingos /\ changeAck \in ChangeIds \cup {None}
        BY <1>4 DEF AckChange, Typed
    <2>2. acking' \in [Ackers -> Acks]
        BY <1>4, <2>1, AckingKeepsType, TypedIsTypeOK DEF AckChange, Ackers
    <2> QED BY <1>4, <2>2 DEF AckChange, Typed
<1>3. CASE EndMetadata
    <2>1. acking' \in [Ackers -> Acks]
        BY <1>3, AckingKeepsType, TypedIsTypeOK DEF EndMetadata, Ackers
    <2> QED BY <1>3, <2>1 DEF EndMetadata, Typed
<1> QED BY <1>1, <1>2, <1>3, <1>4

LEMMA SessionKeepsTypes ==
    ASSUME Typed, TxSend \/ PurgePackets \/ SessionEnds \/ ResetState \/ SessionStarts
    PROVE  Typed'
<1>1. CASE TxSend
    <2>1. txQueue \in Seq(Packets) /\ txQueue # <<>> /\ txQueue' = Tail(txQueue)
        BY <1>1 DEF Typed, TxSend
    <2>2. txQueue' \in Seq(Packets)
        BY <2>1, HeadTailProperties
    <2>3. unanswered' \subseteq ChangeIds
        BY <1>1 DEF Typed, TxSend
    <2> QED BY <1>1, <2>2, <2>3 DEF Typed, TxSend
<1>2. CASE PurgePackets
    BY <1>2 DEF Typed, PurgePackets
<1>3. CASE SessionEnds
    <2>1. session' \in Sessions
        BY <1>3, AckAssumption DEF Typed, SessionEnds, Sessions
    <2> QED BY <1>3, <2>1 DEF Typed, SessionEnds
<1>4. CASE ResetState
    <2>1. session' \in Sessions
        <3>1. PICK step \in {"changeAck", "queues", "timers", "pending"} : ResetStep(step)
            BY <1>4 DEF ResetState, ResetChangeAck, ResetQueues, ResetTimers, ResetPending
        <3>2. ResetAfter(step) \in {"idle", "queues", "timers", "pending"}
            BY DEF ResetAfter
        <3> QED BY <3>1, <3>2 DEF ResetStep, Typed, Sessions
    <2>2. CASE ResetChangeAck
        BY <2>1, <2>2 DEF Typed, ResetChangeAck
    <2>3. CASE ResetQueues
        BY <2>1, <2>3 DEF Typed, ResetQueues
    <2>4. CASE ResetTimers
        BY <2>1, <2>4 DEF Typed, ResetTimers
    <2>5. CASE ResetPending
        BY <2>1, <2>5 DEF Typed, ResetPending
    <2> QED BY <1>4, <2>2, <2>3, <2>4, <2>5 DEF ResetState
<1>5. CASE SessionStarts
    <2>1. session' \in Sessions
        BY <1>5 DEF Typed, SessionStarts, Sessions
    <2> QED BY <1>5, <2>1 DEF Typed, SessionStarts
<1> QED BY <1>1, <1>2, <1>3, <1>4, <1>5
\* What does not touch a deferral keeps its count.
LEMMA AckTypeStep ==
    ASSUME AckInv, [AckNext]_ackVars
    PROVE  AckTypeOK' /\ ReplyInv'
<1>1. Typed /\ ReplyInv
    BY TypedIsTypeOK DEF AckInv
<1> SUFFICES Typed' /\ ReplyInv'
    BY TypedIsTypeOKNext
<1>2. CASE (\E id \in Commands : RxBegin(id)) \/ RxEnd
    <2>1. deferring' = deferring
        BY <1>2 DEF RxBegin, RxEnd
    <2> QED BY <1>1, <1>2, <2>1, RxKeepsTypes DEF ReplyInv
<1>3. CASE ProcessTask
    <2>1. CASE AckRoutine("process")
        <3>1. deferring' = deferring
            BY <2>1 DEF AckRoutine, AckOther, AckPending, AckStop, AckClear, AckFront
        <3> QED BY <1>1, <2>1, <3>1, RoutineKeepsTypes DEF ReplyInv, Ackers
    <2> QED BY <1>1, <1>3, <2>1, AnswersKeepTypes, DeferralsKeepTypes DEF ProcessTask
<1>4. CASE \/ \E l \in Lingos : TimerExpires(l)
           \/ TimerCallback \/ OtherTimerPosts \/ TakeTimeout \/ TakeOther \/ EndTimeout
    <2>1. deferring' = deferring
        BY <1>4 DEF TimerExpires, TimerCallback, OtherTimerPosts, TakeTimeout, TakeOther,
                    EndTimeout
    <2> QED BY <1>1, <1>4, <2>1, TimersKeepTypes DEF ReplyInv
<1>5. CASE AckRoutine("timer") \/ AckRoutine("meta")
    <2>1. deferring' = deferring
        BY <1>5 DEF AckRoutine, AckOther, AckPending, AckStop, AckClear, AckFront
    <2> QED BY <1>1, <1>5, <2>1, RoutineKeepsTypes DEF ReplyInv, Ackers
<1>6. CASE MetadataChanged \/ RouteAck \/ AckChange \/ EndMetadata
    <2>1. deferring' = deferring
        BY <1>6 DEF MetadataChanged, RouteAck, AckChange, EndMetadata
    <2> QED BY <1>1, <1>6, <2>1, MetadataKeepsTypes DEF ReplyInv
<1>7. CASE TxSend \/ PurgePackets \/ SessionEnds \/ ResetState \/ SessionStarts
    <2>1. deferring' = deferring
        BY <1>7 DEF TxSend, PurgePackets, SessionEnds, SessionStarts, ResetState,
                    ResetChangeAck, ResetQueues, ResetTimers, ResetPending
    <2> QED BY <1>1, <1>7, <2>1, SessionKeepsTypes DEF ReplyInv
<1>8. CASE UNCHANGED ackVars
    BY <1>1, <1>8 DEF Typed, ackVars, ReplyInv
<1> QED BY <1>2, <1>3, <1>4, <1>5, <1>6, <1>7, <1>8 DEF AckNext, TimerTask, MetadataTask

\* Only the metadata task moves its route and its ack, and never both ways at once.
LEMMA RouteStep ==
    ASSUME AckInv, [AckNext]_ackVars
    PROVE  RouteInv'
<1>1. acking \in [Ackers -> Acks] /\ "meta" \in Ackers
    BY TypedIsTypeOK DEF AckInv, Typed, Ackers
<1>2. CASE UNCHANGED metaPc /\ acking'["meta"] = acking["meta"]
    BY <1>2 DEF AckInv, RouteInv
<1>3. CASE MetadataChanged
    BY <1>3 DEF MetadataChanged, RouteInv, AckInv
<1>4. CASE RouteAck \/ AckChange
    BY <1>4 DEF RouteAck, AckChange, RouteInv, AckInv
<1>5. CASE AckRoutine("meta") \/ EndMetadata
    <2>1. acking["meta"] # NoAck
        BY <1>5 DEF AckRoutine, AckOther, AckPending, AckStop, AckClear, AckFront, AckStep,
                    EndMetadata, EndAck, NoAck
    <2>2. metaPc' = metaPc
        BY <1>5 DEF AckRoutine, AckOther, AckPending, AckStop, AckClear, AckFront, EndMetadata
    <2> QED BY <2>1, <2>2 DEF AckInv, RouteInv
<1>6. CASE AckRoutine("process") \/ AckRoutine("timer") \/ EndTimeout \/ EndAnswer
            \/ TakeTimeout \/ \E id \in ChangeIds : AnswerNow(id)
    <2>1. metaPc' = metaPc
        BY <1>6 DEF AckRoutine, AckOther, AckPending, AckStop, AckClear, AckFront,
                    EndTimeout, EndAnswer, TakeTimeout, AnswerNow
    <2>2. acking'["meta"] = acking["meta"]
        BY <1>1, <1>6 DEF AckRoutine, AckOther, AckPending, AckStop, AckClear, AckFront,
                    EndTimeout, EndAnswer, TakeTimeout, AnswerNow, AckStep, EndAck, StartAck
    <2> QED BY <1>2, <2>1, <2>2
<1>7. CASE UNCHANGED <<metaPc, acking>>
    BY <1>2, <1>7
<1>8. CASE (\E id \in Commands : RxBegin(id)) \/ RxEnd
            \/ (\E l \in Lingos : TimerExpires(l)) \/ TimerCallback \/ OtherTimerPosts
            \/ TakeOther \/ TxSend \/ PurgePackets \/ SessionEnds \/ ResetState \/ SessionStarts
    BY <1>7, <1>8 DEF RxBegin, RxEnd, TimerExpires, TimerCallback, OtherTimerPosts,
                      TakeOther, TxSend, PurgePackets,
                      SessionEnds, SessionStarts, ResetState, ResetChangeAck, ResetQueues,
                      ResetTimers, ResetPending
<1>9. CASE AnswerGet \/ Reply \/ (\E id \in ChangeIds : Defer(id))
            \/ QueuePending \/ SetPending \/ StartPendingTimer \/ EndDefer \/ PurgeCommands
    BY <1>7, <1>9 DEF AnswerGet, Reply, Defer, QueuePending, SetPending, StartPendingTimer,
                      EndDefer, PurgeCommands
<1> QED BY <1>3, <1>4, <1>5, <1>6, <1>7, <1>8, <1>9
        DEF AckNext, ProcessTask, TimerTask, MetadataTask, ackVars

LEMMA AckInvInit == AckInit => AckInv
<1> SUFFICES ASSUME AckInit
             PROVE  AckInv
    OBVIOUS
<1>1. NoAck \in Acks /\ NotDeferring \in Deferrals
    BY AckAssumption DEF NoAck, Acks, AckSteps, NotDeferring, Deferrals
<1>2. session \in Sessions
    BY AckAssumption DEF AckInit, Sessions
<1>3. Typed
    BY <1>1, <1>2, AckAssumption DEF AckInit, Typed
<1>4. ReplyInv /\ RouteInv
    BY DEF AckInit, ReplyInv, RouteInv, NotDeferring
<1> QED BY <1>3, <1>4, TypedIsTypeOK DEF AckInv

LEMMA AckInvariant == AckSpec => []AckInv
<1>1. AckInv /\ [AckNext]_ackVars => AckInv'
    BY AckTypeStep, RouteStep DEF AckInv
<1> QED BY <1>1, AckInvInit, PTL DEF AckSpec

\* Every field of the pipeline keeps its type, whatever the three tasks that ack, the car,
\* the timers and a reset of the session do in between.
THEOREM AckTypeCorrect == AckSpec => []AckTypeOK
BY AckInvariant, PTL DEF AckInv

(***************************************************************************)
(* What is pending is watched.                                             *)
(***************************************************************************)

\* The ack that task t is in will clear the pending ID of lingo l.
AckWatches(t, l) ==
    /\ acking[t].lingo = l
    /\ \/ acking[t].step \in {"stop", "clear"}
       \/ acking[t].step = "compare" /\ acking[t].id = pending[l]

Queued(m) == \E i \in 1..Len(timerQueue) : timerQueue[i] = m

LEMMA WatchedParts ==
    ASSUME NEW l
    PROVE  Watched(l) <=>
             \/ timer[l] \/ firing = l
             \/ Queued(Timeout(pending[l], l))
             \/ deferring.step = "startTimer" /\ LingoOf(deferring.id) = l
             \/ session.reset = "pending"
             \/ \E t \in Ackers : AckWatches(t, l)
BY DEF Watched, Queued, AckWatches

LEMMA WatchedPartsNext ==
    ASSUME NEW l
    PROVE  Watched(l)' <=>
             \/ timer'[l] \/ firing' = l
             \/ Queued(Timeout(pending[l], l))'
             \/ deferring'.step = "startTimer" /\ LingoOf(deferring'.id) = l
             \/ session'.reset = "pending"
             \/ \E t \in Ackers : AckWatches(t, l)'
BY DEF Watched, Queued, AckWatches

\* A step that disturbs nothing that watches lingo l.
LEMMA StillWatched ==
    ASSUME PendingWatched, NEW l \in Lingos,
           pending'[l] = pending[l], l \in lost => l \in lost',
           timer[l] => timer'[l], firing = l => firing' = l,
           Queued(Timeout(pending[l], l)) => Queued(Timeout(pending[l], l))',
           session.reset = "pending" => session'.reset = "pending",
           deferring.step = "startTimer" /\ LingoOf(deferring.id) = l => deferring' = deferring,
           \A t \in Ackers : acking'[t] = acking[t] \/ ~AckWatches(t, l)
    PROVE  pending'[l] # None => Watched(l)' \/ l \in lost'
<1> SUFFICES ASSUME Watched(l)
             PROVE  Watched(l)'
    BY DEF PendingWatched
<1>1. \A t \in Ackers : AckWatches(t, l) => AckWatches(t, l)'
    BY DEF AckWatches
<1> QED BY <1>1, WatchedParts, WatchedPartsNext

LEMMA QueueStays ==
    ASSUME NEW m, timerQueue' = timerQueue
    PROVE  Queued(m) => Queued(m)'
BY DEF Queued

\* What the car, the transmission and the session do.
LEMMA OutsideStep ==
    ASSUME PendingWatched, AckInv, NEW l \in Lingos,
           \/ \E id \in Commands : RxBegin(id)
           \/ RxEnd \/ TxSend \/ PurgePackets \/ PurgeCommands \/ MetadataChanged
           \/ SessionEnds \/ SessionStarts \/ ResetChangeAck \/ ResetQueues
           \/ UNCHANGED ackVars
    PROVE  pending'[l] # None => Watched(l)' \/ l \in lost'
<1>1. UNCHANGED <<pending, timer, firing, timerQueue, deferring, acking, lost>>
    BY DEF RxBegin, RxEnd, TxSend, PurgePackets, PurgeCommands, MetadataChanged,
           SessionEnds, SessionStarts, ResetChangeAck, ResetQueues, ackVars
<1>2. session.reset = "pending" => session'.reset = "pending"
    <2>1. session \in Sessions
        BY TypedIsTypeOK DEF AckInv, Typed
    <2>2. SessionStarts => session'.reset = session.reset
        BY <2>1 DEF SessionStarts, Sessions
    <2> QED BY <2>2 DEF RxBegin, RxEnd, TxSend, PurgePackets, PurgeCommands,
                MetadataChanged, SessionEnds, ResetChangeAck, ResetQueues, ResetStep, ackVars
<1> QED BY <1>1, <1>2, StillWatched, QueueStays

\* resetState() stops the timers and goes on to clear what they were to end.
LEMMA ResetStepWatches ==
    ASSUME PendingWatched, AckInv, NEW l \in Lingos, ResetTimers \/ ResetPending
    PROVE  pending'[l] # None => Watched(l)' \/ l \in lost'
<1>1. CASE ResetTimers
    <2>1. session'.reset = "pending"
        BY <1>1 DEF ResetTimers, ResetStep, ResetAfter, AckInv, AckTypeOK
    <2> QED BY <2>1, WatchedPartsNext
<1>2. CASE ResetPending
    BY <1>2 DEF ResetPending
<1> QED BY <1>1, <1>2

\* An answer at once takes nothing over, as the process task was in no ack before it.
LEMMA AnswerStep ==
    ASSUME PendingWatched, AckInv, NEW l \in Lingos,
           AnswerGet \/ Reply \/ (\E id \in ChangeIds : AnswerNow(id) \/ Defer(id))
             \/ EndAnswer \/ QueuePending \/ EndDefer \/ EndTimeout \/ EndMetadata
             \/ RouteAck \/ AckChange
    PROVE  pending'[l] # None => Watched(l)' \/ l \in lost'
<1>1. UNCHANGED <<pending, timer, firing, timerQueue, session, lost>>
    BY DEF AnswerGet, Reply, AnswerNow, Defer, EndAnswer, QueuePending, EndDefer, EndTimeout,
           EndMetadata, RouteAck, AckChange
<1>2. deferring.step = "startTimer" => deferring' = deferring
    BY DEF AnswerGet, Reply, AnswerNow, Defer, EndAnswer, QueuePending, EndDefer, EndTimeout,
           EndMetadata, RouteAck, AckChange, TakeCommand, NotDeferring, DeferTo
<1>3. ASSUME NEW t \in Ackers, acking'[t] # acking[t]
      PROVE  ~AckWatches(t, l)
    <2>1. acking \in [Ackers -> Acks]
        BY TypedIsTypeOK DEF AckInv, Typed
    <2>2. acking[t] = NoAck \/ acking[t].step = "done"
        BY <1>3, <2>1, IdsAreTyped DEF AnswerGet, Reply, AnswerNow, Defer, EndAnswer,
           QueuePending, EndDefer, EndTimeout, EndMetadata, RouteAck, AckChange, TakeCommand,
           EndAck, StartAck, AckInv, RouteInv, Lingos
    <2>3. NoAck.step # "stop" /\ NoAck.step # "clear" /\ NoAck.step # "compare"
        BY DEF NoAck
    <2> QED BY <2>2, <2>3 DEF AckWatches
<1> QED BY <1>1, <1>2, <1>3, StillWatched, QueueStays
\* The ack routine watches from its comparison until it has cleared the ID.
LEMMA RoutineStep ==
    ASSUME PendingWatched, AckInv, NEW l \in Lingos, NEW t \in Ackers, AckRoutine(t)
    PROVE  pending'[l] # None => Watched(l)' \/ l \in lost'
<1>1. acking \in [Ackers -> Acks] /\ pending \in [Lingos -> ChangeIds \cup {None}]
      /\ timer \in [Lingos -> BOOLEAN]
    BY TypedIsTypeOK DEF AckInv, Typed
<1>2. UNCHANGED <<firing, timerQueue, session, deferring>>
    BY DEF AckRoutine, AckOther, AckPending, AckStop, AckClear, AckFront
<1>3. \A s \in Ackers \ {t} : acking'[s] = acking[s]
    BY <1>1 DEF AckRoutine, AckOther, AckPending, AckStop, AckClear, AckFront, AckStep
<1>4. \A to \in AckSteps : \A from \in AckSteps :
        AckStep(t, from, to) => acking'[t].step = to /\ acking'[t].lingo = acking[t].lingo
                                /\ acking[t].step = from
    BY <1>1 DEF AckStep, Acks
<1>5. CASE AckOther(t) \/ AckFront(t)
    <2>1. ~AckWatches(t, l)
        BY <1>5 DEF AckWatches, AckOther, AckFront, AckStep
    <2>2. UNCHANGED <<pending, timer, lost>>
        BY <1>5 DEF AckOther, AckFront
    <2> QED BY <1>2, <1>3, <2>1, <2>2, StillWatched, QueueStays
<1>6. CASE (AckPending(t) \/ AckStop(t)) /\ acking[t].lingo = l
    <2>1. AckWatches(t, l)'
        BY <1>4, <1>6 DEF AckWatches, AckPending, AckStop, AckSteps
    <2> QED BY <2>1, WatchedPartsNext
<1>7. CASE AckClear(t) /\ acking[t].lingo = l
    BY <1>1, <1>7 DEF AckClear
<1>8. CASE (AckPending(t) \/ AckStop(t) \/ AckClear(t)) /\ acking[t].lingo # l
    <2>1. ~AckWatches(t, l)
        BY <1>8 DEF AckWatches
    <2>2. pending'[l] = pending[l] /\ timer'[l] = timer[l] /\ (l \in lost => l \in lost')
        BY <1>1, <1>8 DEF AckPending, AckStop, AckClear
    <2> QED BY <1>2, <1>3, <2>1, <2>2, StillWatched, QueueStays
<1> QED BY <1>5, <1>6, <1>7, <1>8 DEF AckRoutine

\* A new ID is watched by its deferral, which starts the timer next.
LEMMA DeferralStep ==
    ASSUME PendingWatched, AckInv, NEW l \in Lingos, SetPending \/ StartPendingTimer
    PROVE  pending'[l] # None => Watched(l)' \/ l \in lost'
<1>1. deferring \in Deferrals /\ pending \in [Lingos -> ChangeIds \cup {None}]
      /\ timer \in [Lingos -> BOOLEAN]
    BY TypedIsTypeOK DEF AckInv, Typed
<1>2. UNCHANGED <<firing, timerQueue, session, acking>>
    BY DEF SetPending, StartPendingTimer
<1>3. CASE LingoOf(deferring.id) = l /\ SetPending
    <2>1. deferring'.step = "startTimer" /\ deferring'.id = deferring.id
        BY <1>1, <1>3 DEF SetPending, DeferTo, Deferrals
    <2> QED BY <1>3, <2>1, WatchedPartsNext
<1>4. CASE LingoOf(deferring.id) = l /\ StartPendingTimer
    <2>1. timer'[l] = TRUE
        BY <1>1, <1>4 DEF StartPendingTimer
    <2> QED BY <2>1, WatchedPartsNext
<1>5. CASE LingoOf(deferring.id) # l
    <2>1. pending'[l] = pending[l] /\ timer'[l] = timer[l] /\ (l \in lost => l \in lost')
        BY <1>1, <1>5 DEF SetPending, StartPendingTimer
    <2> QED BY <1>2, <1>5, <2>1, StillWatched, QueueStays
<1> QED BY <1>3, <1>4, <1>5

LEMMA QueuedAppended ==
    ASSUME timerQueue \in Seq(Timeouts), NEW m, NEW n, timerQueue' = Append(timerQueue, n)
    PROVE  (Queued(m) \/ n = m) => \E i \in 1..Len(timerQueue') : timerQueue'[i] = m
<1>1. /\ Len(timerQueue') = Len(timerQueue) + 1 /\ Len(timerQueue) \in Nat
      /\ \A i \in 1..Len(timerQueue) : timerQueue'[i] = timerQueue[i]
      /\ timerQueue'[Len(timerQueue) + 1] = n
    OBVIOUS
<1>2. CASE n = m
    BY <1>1, <1>2
<1>3. ASSUME NEW i \in 1..Len(timerQueue), timerQueue[i] = m
      PROVE  \E k \in 1..Len(timerQueue') : timerQueue'[k] = m
    <2>1. timerQueue'[i] = m /\ i \in 1..Len(timerQueue')
        BY <1>1, <1>3
    <2> QED BY <2>1
<1> QED BY <1>2, <1>3 DEF Queued

\* A message that is not the head stays when the head is taken.
LEMMA QueuedTaken ==
    ASSUME timerQueue \in Seq(Timeouts), NEW m, TakeMessage, Head(timerQueue) # m, Queued(m)
    PROVE  \E i \in 1..Len(timerQueue') : timerQueue'[i] = m
<1>1. /\ timerQueue # <<>> /\ timerQueue' = Tail(timerQueue)
      /\ Head(timerQueue) = timerQueue[1]
      /\ Len(timerQueue') = Len(timerQueue) - 1 /\ Len(timerQueue) \in Nat
      /\ \A i \in 1..Len(timerQueue') : timerQueue'[i] = timerQueue[i + 1]
    BY HeadTailProperties, LenProperties DEF TakeMessage
<1>2. PICK i \in 1..Len(timerQueue) : timerQueue[i] = m
    BY DEF Queued
<1>3. i # 1
    BY <1>1, <1>2
<1>4. i - 1 \in 1..Len(timerQueue') /\ timerQueue'[i - 1] = m
    BY <1>1, <1>2, <1>3
<1> QED BY <1>4

\* A timer hands over to its callback, that to its message unless it is lost, and that to
\* an ack; the messages of the other timers come and go beside it.
LEMMA TimerStep ==
    ASSUME PendingWatched, AckInv, NEW l \in Lingos,
           \/ \E k \in Lingos : TimerExpires(k)
           \/ TimerCallback \/ OtherTimerPosts \/ TakeTimeout \/ TakeOther
    PROVE  pending'[l] # None => Watched(l)' \/ l \in lost'
<1> DEFINE m == Timeout(pending[l], l)
<1>1. timer \in [Lingos -> BOOLEAN] /\ timerQueue \in Seq(Timeouts)
      /\ acking \in [Ackers -> Acks] /\ firing \in Lingos \cup {None}
    BY TypedIsTypeOK DEF AckInv, Typed
<1>2. UNCHANGED <<pending, session, deferring>> /\ (l \in lost => l \in lost')
    BY DEF TimerExpires, TimerCallback, OtherTimerPosts, TakeTimeout, TakeOther
<1>3. ASSUME NEW k \in Lingos, TimerExpires(k)
      PROVE  pending'[l] # None => Watched(l)' \/ l \in lost'
    <2>1. CASE k = l
        BY <1>3, <2>1, WatchedPartsNext DEF TimerExpires
    <2>2. CASE k # l
        <3>1. timer'[l] = timer[l] /\ firing # l /\ UNCHANGED <<timerQueue, acking>>
            BY <1>1, <1>3, <2>2, IdsAreTyped DEF TimerExpires
        <3> QED BY <1>2, <3>1, StillWatched, QueueStays
    <2> QED BY <2>1, <2>2
<1>4. ASSUME NEW n, Post(n), UNCHANGED <<timer, acking>>, firing' = firing \/ firing # l
      PROVE  pending'[l] # None => Watched(l)' \/ l \in lost'
    <2>1. Queued(m) => Queued(m)'
        <3>1. CASE timerQueue' = timerQueue
            BY <1>2, <3>1 DEF Queued, Timeout
        <3>2. CASE timerQueue' = Append(timerQueue, n)
            BY <1>1, <1>2, <3>2, QueuedAppended DEF Queued, Timeout
        <3> QED BY <1>4, <3>1, <3>2 DEF Post
    <2> QED BY <1>2, <1>4, <2>1, StillWatched
<1>5. CASE OtherTimerPosts
    BY <1>4, <1>5 DEF OtherTimerPosts
<1>6. CASE TimerCallback /\ firing # l
    BY <1>4, <1>6 DEF TimerCallback
<1>7. CASE TimerCallback /\ firing = l
    <2>1. CASE Len(timerQueue) < TimerQueueSize
        <3>1. timerQueue' = Append(timerQueue, m)
            BY <1>7, <2>1 DEF TimerCallback, Post
        <3>2. Queued(m)'
            BY <1>1, <1>2, <3>1, QueuedAppended DEF Queued, Timeout
        <3> QED BY <1>2, <3>2, WatchedPartsNext
    <2>2. CASE ~(Len(timerQueue) < TimerQueueSize)
        BY <1>2, <1>7, <2>2 DEF TimerCallback
    <2> QED BY <2>1, <2>2
<1>8. CASE TakeTimeout \/ TakeOther
    <2>1. TakeMessage /\ UNCHANGED <<timer, firing>> /\ acking["timer"] = NoAck
        BY <1>8 DEF TakeTimeout, TakeOther, TakeMessage
    <2>2. "timer" \in Ackers
        BY DEF Ackers
    <2>3. CASE Head(timerQueue) = m
        <3>1. TakeTimeout
            BY <1>8, <2>3, IdsAreTyped DEF TakeOther, OtherTimeout, Timeout
        <3>2. acking'["timer"] = [step |-> "compare", id |-> pending[l], lingo |-> l]
            BY <1>1, <2>2, <2>3, <3>1 DEF TakeTimeout, StartAck, Timeout
        <3>3. AckWatches("timer", l)'
            BY <1>2, <3>2 DEF AckWatches
        <3> QED BY <2>2, <3>3, WatchedPartsNext
    <2>4. CASE Head(timerQueue) # m
        <3>1. Queued(m) => Queued(m)'
            BY <1>1, <1>2, <2>1, <2>4, QueuedTaken DEF Queued, Timeout
        <3>2. ~AckWatches("timer", l)
            BY <2>1 DEF AckWatches, NoAck
        <3>3. \A t \in Ackers \ {"timer"} : acking'[t] = acking[t]
            BY <1>1, <1>8 DEF TakeTimeout, TakeOther, StartAck
        <3> QED BY <1>2, <2>1, <3>1, <3>2, <3>3, StillWatched
    <2> QED BY <2>3, <2>4
<1> QED BY <1>3, <1>5, <1>6, <1>7, <1>8

LEMMA WatchedStep ==
    ASSUME AckInv, PendingWatched, [AckNext]_ackVars
    PROVE  PendingWatched'
<1> SUFFICES ASSUME NEW l \in Lingos
             PROVE  pending'[l] # None => Watched(l)' \/ l \in lost'
    BY DEF PendingWatched
<1>1. CASE ProcessTask
    BY <1>1, OutsideStep, AnswerStep, RoutineStep, DeferralStep DEF ProcessTask, Ackers
<1>2. CASE TimerTask
    BY <1>2, AnswerStep, RoutineStep, TimerStep DEF TimerTask, Ackers
<1>3. CASE MetadataTask
    BY <1>3, AnswerStep, RoutineStep DEF MetadataTask, Ackers
<1>4. CASE ResetState
    BY <1>4, OutsideStep, ResetStepWatches DEF ResetState
<1> QED BY <1>1, <1>2, <1>3, <1>4, OutsideStep, TimerStep DEF AckNext

\* A pending command blocks all transmission: something that will end it is always under
\* way, unless the message of its timer was lost to a full queue, for any number of commands,
\* changes of metadata, ends of the session and messages of the other timers, and however
\* the three tasks that ack cross.
THEOREM PendingIsWatched == AckSpec => []PendingWatched
<1>1. AckInit => PendingWatched
    BY DEF AckInit, PendingWatched
<1> QED BY <1>1, AckInvariant, WatchedStep, PTL DEF AckSpec

(***************************************************************************)
(* The timer queue has room.                                               *)
(***************************************************************************)

\* The messages that may yet come to be in the timer queue: one for each command that is
\* not yet answered or deferred, and for each timer that runs or has ended.
RxDue == IF incoming # None THEN 1 ELSE 0
CommandsDue == Len(cmdQueue)
DeferralDue == IF deferring.step \in {"queuePending", "setPending", "startTimer"} THEN 1 ELSE 0
TimersDue == (IF timer["L3"] THEN 1 ELSE 0) + (IF timer["L4"] THEN 1 ELSE 0)
FiringDue == IF firing # None THEN 1 ELSE 0
TimeoutsDue == Cardinality(OwnTimeouts)

Due == RxDue + CommandsDue + DeferralDue + TimersDue + FiringDue + TimeoutsDue

\* A patient car has one command under way; any car no more than it has sent.
DueInv == Due <= IF Patient THEN 1 ELSE sent

Own(q) == {i \in 1..Len(q) : q[i].lingo # None}

LEMMA OwnIsFinite ==
    ASSUME NEW q \in Seq(Timeouts)
    PROVE  IsFiniteSet(Own(q)) /\ Cardinality(Own(q)) \in Nat
<1>1. IsFiniteSet(1..Len(q))
    BY LenProperties, FS_Interval
<1>2. Own(q) \subseteq 1..Len(q)
    BY DEF Own
<1> QED BY <1>1, <1>2, FS_Subset, FS_CardinalityType

\* A message that is appended adds one of its own kind, and none of the other.
LEMMA OwnAppended ==
    ASSUME NEW q \in Seq(Timeouts), NEW e \in Timeouts
    PROVE  Cardinality(Own(Append(q, e)))
               <= Cardinality(Own(q)) + (IF e.lingo # None THEN 1 ELSE 0)
<1> DEFINE n == Len(q)
           r == Append(q, e)
<1>1. n \in Nat /\ Len(r) = n + 1 /\ r[n + 1] = e /\ \A i \in 1..n : r[i] = q[i]
    BY LenProperties, AppendProperties
<1> HIDE DEF n, r
<1>2. Own(q) = {i \in 1..n : q[i].lingo # None}
    BY DEF Own, n
<1>3. Own(r) = {i \in 1..(n + 1) : r[i].lingo # None}
    BY <1>1 DEF Own
<1>4. 1..(n + 1) = (1..n) \cup {n + 1}
    BY <1>1
<1>5. IsFiniteSet(Own(q)) /\ Cardinality(Own(q)) \in Nat
    BY OwnIsFinite
<1>6. CASE e.lingo # None
    <2>1. Own(r) = Own(q) \cup {n + 1} /\ n + 1 \notin Own(q)
        BY <1>1, <1>2, <1>3, <1>4, <1>6
    <2>2. Cardinality(Own(r)) = Cardinality(Own(q)) + 1
        BY <2>1, <1>5, FS_AddElement
    <2> QED BY <1>5, <1>6, <2>2 DEF r
<1>7. CASE e.lingo = None
    <2>1. Own(r) = Own(q)
        BY <1>1, <1>2, <1>3, <1>4, <1>7
    <2> QED BY <1>5, <1>7, <2>1 DEF r
<1> QED BY <1>6, <1>7

\* The head that is taken away takes one away of its own kind.
LEMMA OwnTaken ==
    ASSUME NEW q \in Seq(Timeouts), q # <<>>
    PROVE  Cardinality(Own(Tail(q)))
               <= Cardinality(Own(q)) - (IF Head(q).lingo # None THEN 1 ELSE 0)
<1> DEFINE n == Len(q)
           r == Tail(q)
           Rest == Own(q) \ {1}
           f == [i \in Own(r) |-> i + 1]
<1>1. /\ n \in Nat \ {0} /\ Len(r) = n - 1 /\ Head(q) = q[1]
      /\ \A i \in 1..(n - 1) : r[i] = q[i + 1]
    BY LenProperties, EmptySeq, HeadTailProperties
<1>2. IsFiniteSet(Own(q)) /\ Cardinality(Own(q)) \in Nat
    BY OwnIsFinite
<1>3. IsFiniteSet(Rest)
    BY <1>2, FS_RemoveElement
<1>4. Cardinality(Rest) = Cardinality(Own(q)) - (IF Head(q).lingo # None THEN 1 ELSE 0)
    <2>1. 1 \in Own(q) <=> Head(q).lingo # None
        BY <1>1 DEF Own
    <2>2. Cardinality(Rest) = IF 1 \in Own(q) THEN Cardinality(Own(q)) - 1
                                              ELSE Cardinality(Own(q))
        BY <1>2, FS_RemoveElement
    <2> HIDE DEF Rest
    <2> QED BY <1>2, <2>1, <2>2
<1>5. f \in Injection(Own(r), Rest)
    <2>1. Own(r) = {i \in 1..(n - 1) : q[i + 1].lingo # None}
        BY <1>1 DEF Own
    <2>2. \A i \in Own(r) : i \in Nat /\ i + 1 \in Rest
        BY <1>1, <2>1 DEF Own
    <2>3. f \in [Own(r) -> Rest]
        BY <2>2
    <2>4. \A i, j \in Own(r) : f[i] = f[j] => i = j
        BY <2>2
    <2> QED BY <2>3, <2>4 DEF Injection, IsInjective
<1> HIDE DEF f, Rest
<1>6. Cardinality(Own(r)) <= Cardinality(Rest)
    BY <1>3, <1>5, FS_Injection
<1> QED BY <1>4, <1>6

LEMMA TimeoutsAreOwn ==
    TimeoutsDue = Cardinality(Own(timerQueue)) /\ TimeoutsDue' = Cardinality(Own(timerQueue'))
BY DEF TimeoutsDue, OwnTimeouts, Own

LEMMA PartsAreCounts ==
    ASSUME AckInv
    PROVE  /\ RxDue \in 0..1 /\ CommandsDue \in Nat /\ DeferralDue \in 0..1
           /\ TimersDue \in 0..2 /\ FiringDue \in 0..1 /\ TimeoutsDue \in Nat
BY TypedIsTypeOK, LenProperties, TimeoutsAreOwn, OwnIsFinite
DEF AckInv, Typed, RxDue, CommandsDue, DeferralDue, TimersDue, FiringDue

LEMMA PartsAreCountsNext ==
    ASSUME AckInv'
    PROVE  /\ RxDue' \in 0..1 /\ CommandsDue' \in Nat /\ DeferralDue' \in 0..1
           /\ TimersDue' \in 0..2 /\ FiringDue' \in 0..1 /\ TimeoutsDue' \in Nat
BY TypedIsTypeOKNext, LenProperties, TimeoutsAreOwn, OwnIsFinite
DEF AckInv, Typed, RxDue, CommandsDue, DeferralDue, TimersDue, FiringDue

LEMMA CommandTaken ==
    ASSUME AckInv, NEW id, TakeCommand(id)
    PROVE  CommandsDue' = CommandsDue - 1 /\ DeferralDue = 0
<1>1. cmdQueue \in Seq(CmdIds) /\ cmdQueue # <<>> /\ cmdQueue' = Tail(cmdQueue)
    BY TypedIsTypeOK DEF AckInv, Typed, TakeCommand
<1>2. Len(cmdQueue') = Len(cmdQueue) - 1
    BY <1>1, HeadTailProperties
<1> QED BY <1>2 DEF TakeCommand, NotDeferring, CommandsDue, DeferralDue

LEMMA RoutineKeepsDue ==
    ASSUME AckInv, AckInv', NEW t \in Ackers, AckRoutine(t) \/ EndAnswer
    PROVE  Due' <= Due
<1>1. RxDue' = RxDue /\ CommandsDue' = CommandsDue /\ DeferralDue' = DeferralDue
      /\ FiringDue' = FiringDue /\ TimeoutsDue' = TimeoutsDue
    BY DEF AckRoutine, AckOther, AckPending, AckStop, AckClear, AckFront, EndAnswer,
           RxDue, CommandsDue, DeferralDue, FiringDue, TimeoutsDue, OwnTimeouts
<1>2. \A l \in Lingos : timer'[l] => timer[l]
    <2>1. timer \in [Lingos -> BOOLEAN]
        BY TypedIsTypeOK DEF AckInv, Typed
    <2> QED BY <2>1 DEF AckRoutine, AckOther, AckPending, AckStop, AckClear, AckFront, EndAnswer
<1>3. TimersDue' <= TimersDue
    BY <1>2 DEF TimersDue, Lingos
<1> QED BY <1>1, <1>3, PartsAreCounts, PartsAreCountsNext DEF Due

\* The process task turns a command into a deferral and that into a timer, at most.
LEMMA ProcessKeepsDue ==
    ASSUME AckInv, AckInv', ProcessTask
    PROVE  Due' <= Due
<1>1. deferring \in Deferrals /\ timer \in [Lingos -> BOOLEAN]
    BY TypedIsTypeOK DEF AckInv, Typed
<1>2. CASE AnswerGet \/ \E id \in ChangeIds : AnswerNow(id) \/ Defer(id)
    <2>1. RxDue' = RxDue /\ TimersDue' = TimersDue /\ FiringDue' = FiringDue
          /\ TimeoutsDue' = TimeoutsDue
        BY <1>2 DEF AnswerGet, AnswerNow, Defer, RxDue, TimersDue, FiringDue, TimeoutsDue, OwnTimeouts
    <2>2. PICK id : TakeCommand(id)
        BY <1>2 DEF AnswerGet, AnswerNow, Defer
    <2>3. CommandsDue' = CommandsDue - 1 /\ DeferralDue = 0
        BY <2>2, CommandTaken
    <2> QED BY <2>1, <2>3, PartsAreCounts, PartsAreCountsNext DEF Due
<1>3. CASE Reply \/ EndDefer
    <2>1. RxDue' = RxDue /\ TimersDue' = TimersDue /\ FiringDue' = FiringDue
          /\ TimeoutsDue' = TimeoutsDue /\ CommandsDue' = CommandsDue
        BY <1>3 DEF Reply, EndDefer, RxDue, TimersDue, FiringDue, TimeoutsDue, OwnTimeouts, CommandsDue
    <2>2. DeferralDue' = 0
        BY <1>1, <1>3 DEF Reply, EndDefer, Deferrals, NotDeferring, DeferralDue
    <2> QED BY <2>1, <2>2, PartsAreCounts DEF Due
<1>4. CASE QueuePending \/ SetPending
    <2>1. RxDue' = RxDue /\ TimersDue' = TimersDue /\ FiringDue' = FiringDue
          /\ TimeoutsDue' = TimeoutsDue /\ CommandsDue' = CommandsDue
        BY <1>4 DEF QueuePending, SetPending, RxDue, TimersDue, FiringDue, TimeoutsDue, OwnTimeouts, CommandsDue
    <2>2. DeferralDue = 1
        BY <1>4 DEF QueuePending, SetPending, DeferTo, DeferralDue
    <2> QED BY <2>1, <2>2, PartsAreCounts, PartsAreCountsNext DEF Due
<1>5. CASE StartPendingTimer
    <2>1. RxDue' = RxDue /\ FiringDue' = FiringDue
          /\ TimeoutsDue' = TimeoutsDue /\ CommandsDue' = CommandsDue
        BY <1>5 DEF StartPendingTimer, RxDue, FiringDue, TimeoutsDue, OwnTimeouts, CommandsDue
    <2>2. DeferralDue = 1 /\ DeferralDue' = 0
        BY <1>1, <1>5 DEF StartPendingTimer, DeferTo, DeferralDue, Deferrals
    <2>3. TimersDue' <= TimersDue + 1
        <3>1. timer'["L3"] = timer["L3"] \/ timer'["L4"] = timer["L4"]
            BY <1>1, <1>5 DEF StartPendingTimer, Lingos, LingoOf
        <3> QED BY <3>1 DEF TimersDue
    <2> QED BY <2>1, <2>2, <2>3, PartsAreCounts, PartsAreCountsNext DEF Due
<1>6. CASE PurgeCommands
    <2>1. RxDue' = RxDue /\ TimersDue' = TimersDue /\ FiringDue' = FiringDue
          /\ TimeoutsDue' = TimeoutsDue /\ DeferralDue' = DeferralDue /\ CommandsDue' = 0
        BY <1>6 DEF PurgeCommands, RxDue, TimersDue, FiringDue, TimeoutsDue, OwnTimeouts, DeferralDue,
                    CommandsDue
    <2> QED BY <2>1, PartsAreCounts DEF Due
<1> QED BY <1>2, <1>3, <1>4, <1>5, <1>6, RoutineKeepsDue DEF ProcessTask, Ackers

\* A message of a pending timer that is posted adds one, and no other does.
LEMMA PostingAddsDue ==
    ASSUME AckInv
    PROVE  /\ \A m \in Timeouts :
                Post(m) => TimeoutsDue' <= TimeoutsDue + (IF m.lingo # None THEN 1 ELSE 0)
           /\ TakeMessage => TimeoutsDue' <= TimeoutsDue
<1>1. timerQueue \in Seq(Timeouts)
    BY TypedIsTypeOK DEF AckInv, Typed
<1>2. TimeoutsDue \in Nat
    BY PartsAreCounts
<1>3. ASSUME NEW m \in Timeouts, Post(m)
      PROVE  TimeoutsDue' <= TimeoutsDue + (IF m.lingo # None THEN 1 ELSE 0)
    <2>1. CASE timerQueue' = timerQueue
        BY <1>2, <2>1, TimeoutsAreOwn
    <2>2. CASE timerQueue' = Append(timerQueue, m)
        BY <1>1, <2>2, TimeoutsAreOwn, OwnAppended
    <2> QED BY <1>3, <2>1, <2>2 DEF Post
<1>4. ASSUME TakeMessage
      PROVE  TimeoutsDue' <= TimeoutsDue
    <2>1. timerQueue # <<>> /\ timerQueue' = Tail(timerQueue)
        BY <1>4 DEF TakeMessage
    <2>2. Tail(timerQueue) \in Seq(Timeouts)
        BY <1>1, <2>1, HeadTailProperties
    <2>3. TimeoutsDue' <= TimeoutsDue - (IF Head(timerQueue).lingo # None THEN 1 ELSE 0)
        BY <1>1, <2>1, TimeoutsAreOwn, OwnTaken
    <2>4. TimeoutsDue' \in Nat
        BY <2>1, <2>2, TimeoutsAreOwn, OwnIsFinite
    <2> QED BY <1>2, <2>3, <2>4
<1> QED BY <1>3, <1>4

\* A timer becomes a callback, that a message, and that an ack; resets only take away.
LEMMA TimersKeepDue ==
    ASSUME AckInv, AckInv',
           \/ \E l \in Lingos : TimerExpires(l)
           \/ TimerCallback \/ OtherTimerPosts \/ TakeTimeout \/ TakeOther
           \/ ResetQueues \/ ResetTimers
    PROVE  Due' <= Due
<1>1. timer \in [Lingos -> BOOLEAN] /\ timerQueue \in Seq(Timeouts)
      /\ firing \in Lingos \cup {None}
    BY TypedIsTypeOK DEF AckInv, Typed
<1>2. ASSUME NEW l \in Lingos, TimerExpires(l)
      PROVE  Due' <= Due
    <2>1. RxDue' = RxDue /\ CommandsDue' = CommandsDue /\ DeferralDue' = DeferralDue
          /\ TimeoutsDue' = TimeoutsDue
        BY <1>2 DEF TimerExpires, RxDue, CommandsDue, DeferralDue, TimeoutsDue, OwnTimeouts
    <2>2. FiringDue = 0 /\ FiringDue' = 1
        BY <1>2, IdsAreTyped DEF TimerExpires, FiringDue
    <2>3. TimersDue' = TimersDue - 1
        BY <1>1, <1>2 DEF TimerExpires, TimersDue, Lingos
    <2> QED BY <2>1, <2>2, <2>3, PartsAreCounts, PartsAreCountsNext DEF Due
<1>3. CASE TimerCallback
    <2>1. RxDue' = RxDue /\ CommandsDue' = CommandsDue /\ DeferralDue' = DeferralDue
          /\ TimersDue' = TimersDue
        BY <1>3 DEF TimerCallback, RxDue, CommandsDue, DeferralDue, TimersDue
    <2>2. FiringDue = 1 /\ FiringDue' = 0
        BY <1>3 DEF TimerCallback, FiringDue
    <2>3. TimeoutsDue' <= TimeoutsDue + 1
        <3>1. Timeout(pending[firing], firing) \in Timeouts
            BY <1>3, TypedIsTypeOK DEF TimerCallback, AckInv, Typed, Timeout, Timeouts
        <3> QED BY <1>3, <3>1, PostingAddsDue DEF TimerCallback, Timeout
    <2> QED BY <2>1, <2>2, <2>3, PartsAreCounts, PartsAreCountsNext DEF Due
<1>4. CASE OtherTimerPosts \/ TakeTimeout \/ TakeOther
    <2>1. RxDue' = RxDue /\ CommandsDue' = CommandsDue /\ DeferralDue' = DeferralDue
          /\ TimersDue' = TimersDue /\ FiringDue' = FiringDue
        BY <1>4 DEF OtherTimerPosts, TakeTimeout, TakeOther, RxDue, CommandsDue, DeferralDue,
                    TimersDue, FiringDue
    <2>2. OtherTimeout \in Timeouts
        BY DEF OtherTimeout, Timeouts
    <2>3. TimeoutsDue' <= TimeoutsDue
        <3>1. TimeoutsDue \in Nat
            BY PartsAreCounts
        <3>2. CASE OtherTimerPosts
            <4>1. OtherTimeout.lingo = None
                BY DEF OtherTimeout
            <4>2. Post(OtherTimeout)
                BY <3>2 DEF OtherTimerPosts
            <4>3. TimeoutsDue' <= TimeoutsDue + 0
                BY <2>2, <4>1, <4>2, PostingAddsDue
            <4> QED BY <3>1, <4>3
        <3>3. CASE TakeTimeout \/ TakeOther
            <4>1. TakeMessage
                BY <3>3 DEF TakeTimeout, TakeOther
            <4> QED BY <4>1, PostingAddsDue
        <3> QED BY <1>4, <3>2, <3>3
    <2> QED BY <2>1, <2>3, PartsAreCounts, PartsAreCountsNext DEF Due
<1>5. CASE ResetQueues
    <2>1. RxDue' = RxDue /\ CommandsDue' = 0 /\ DeferralDue' = DeferralDue
          /\ TimersDue' = TimersDue /\ FiringDue' = FiringDue /\ TimeoutsDue' = TimeoutsDue
        BY <1>5 DEF ResetQueues, RxDue, CommandsDue, DeferralDue, TimersDue, FiringDue,
                    TimeoutsDue, OwnTimeouts
    <2> QED BY <2>1, PartsAreCounts DEF Due
<1>6. CASE ResetTimers
    <2>1. RxDue' = RxDue /\ CommandsDue' = CommandsDue /\ DeferralDue' = DeferralDue
          /\ FiringDue' = FiringDue /\ TimeoutsDue' = TimeoutsDue
        BY <1>6 DEF ResetTimers, RxDue, CommandsDue, DeferralDue, FiringDue, TimeoutsDue, OwnTimeouts
    <2>2. TimersDue' = 0
        BY <1>6 DEF ResetTimers, TimersDue, Lingos
    <2> QED BY <2>1, <2>2, PartsAreCounts DEF Due
<1> QED BY <1>2, <1>3, <1>4, <1>5, <1>6

LEMMA RxEndKeepsDue ==
    ASSUME AckInv, AckInv', RxEnd
    PROVE  Due' <= Due
<1>1. DeferralDue' = DeferralDue /\ TimersDue' = TimersDue /\ FiringDue' = FiringDue
      /\ TimeoutsDue' = TimeoutsDue
    BY DEF RxEnd, DeferralDue, TimersDue, FiringDue, TimeoutsDue, OwnTimeouts
<1>2. RxDue = 1 /\ RxDue' = 0
    BY DEF RxEnd, RxDue
<1>3. CommandsDue' <= CommandsDue + 1
    <2>1. cmdQueue' = cmdQueue \/ cmdQueue' = Append(cmdQueue, incoming)
        BY DEF RxEnd
    <2>2. cmdQueue \in Seq(CmdIds)
        BY TypedIsTypeOK DEF AckInv, Typed
    <2>3. CommandsDue \in Nat
        BY PartsAreCounts
    <2> QED BY <2>1, <2>2, <2>3 DEF CommandsDue
<1> QED BY <1>1, <1>2, <1>3, PartsAreCounts, PartsAreCountsNext DEF Due

\* A patient car begins a command when nothing is due.
LEMMA SettledIsZero ==
    ASSUME AckInv, Settled, incoming = None
    PROVE  Due = 0
<1>1. OwnTimeouts = {} /\ cmdQueue = <<>> /\ firing = None /\ deferring = NotDeferring
      /\ ~timer["L3"] /\ ~timer["L4"]
    BY DEF Settled, Lingos
<1>2. TimeoutsDue = 0 /\ CommandsDue = 0
    BY <1>1, FS_EmptySet DEF TimeoutsDue, CommandsDue
<1>3. RxDue = 0 /\ FiringDue = 0 /\ DeferralDue = 0 /\ TimersDue = 0
    BY <1>1 DEF RxDue, FiringDue, DeferralDue, TimersDue, NotDeferring
<1> QED BY <1>2, <1>3 DEF Due

LEMMA RxBeginDue ==
    ASSUME AckInv, AckInv', DueInv, NEW id \in Commands, RxBegin(id)
    PROVE  DueInv'
<1>1. RxDue = 0 /\ RxDue' = 1
    BY AckAssumption DEF RxBegin, RxDue, CmdIds, ChangeIds, None
<1>2. CommandsDue' = CommandsDue /\ DeferralDue' = DeferralDue /\ TimersDue' = TimersDue
      /\ FiringDue' = FiringDue /\ TimeoutsDue' = TimeoutsDue
    BY DEF RxBegin, CommandsDue, DeferralDue, TimersDue, FiringDue, TimeoutsDue, OwnTimeouts
<1>3. Due' = Due + 1 /\ Due \in Nat
    BY <1>1, <1>2, PartsAreCounts DEF Due
<1>4. sent \in Nat /\ sent' = sent + 1
    BY TypedIsTypeOK, AckAssumption DEF AckInv, Typed, RxBegin
<1>5. CASE Patient
    <2>1. Due = 0
        BY <1>5, SettledIsZero DEF RxBegin
    <2> QED BY <1>3, <1>5, <2>1 DEF DueInv
<1>6. CASE ~Patient
    BY <1>3, <1>4, <1>6 DEF DueInv
<1> QED BY <1>5, <1>6

LEMMA DueStep ==
    ASSUME AckInv, AckInv', DueInv, [AckNext]_ackVars
    PROVE  DueInv'
<1>1. ASSUME Due' <= Due, sent' = sent
      PROVE  DueInv'
    <2>1. Due \in Int /\ Due' \in Int
        BY PartsAreCounts, PartsAreCountsNext DEF Due
    <2>2. sent \in Int
        BY TypedIsTypeOK, AckAssumption DEF AckInv, Typed
    <2> QED BY <1>1, <2>1, <2>2 DEF DueInv
<1>2. CASE ProcessTask
    <2>1. sent' = sent
        BY <1>2 DEF ProcessTask, AnswerGet, Reply, AnswerNow, Defer, AckRoutine, AckOther,
                    AckPending, AckStop, AckClear, AckFront, EndAnswer, QueuePending,
                    SetPending, StartPendingTimer, EndDefer, PurgeCommands
    <2> QED BY <1>1, <1>2, <2>1, ProcessKeepsDue
<1>3. CASE \/ \E l \in Lingos : TimerExpires(l)
           \/ TimerCallback \/ OtherTimerPosts \/ TakeTimeout \/ TakeOther
           \/ ResetQueues \/ ResetTimers
    <2>1. sent' = sent
        BY <1>3 DEF TimerExpires, TimerCallback, OtherTimerPosts, TakeTimeout, TakeOther,
                    ResetQueues, ResetTimers
    <2> QED BY <1>1, <1>3, <2>1, TimersKeepDue
<1>4. CASE AckRoutine("timer") \/ AckRoutine("meta")
    <2>1. sent' = sent
        BY <1>4 DEF AckRoutine, AckOther, AckPending, AckStop, AckClear, AckFront
    <2> QED BY <1>1, <1>4, <2>1, RoutineKeepsDue DEF Ackers
<1>5. CASE RxEnd
    <2>1. sent' = sent
        BY <1>5 DEF RxEnd
    <2> QED BY <1>1, <1>5, <2>1, RxEndKeepsDue
<1>6. CASE \/ EndTimeout \/ MetadataChanged \/ RouteAck \/ AckChange \/ EndMetadata \/ TxSend
           \/ PurgePackets \/ SessionEnds \/ ResetChangeAck \/ ResetPending
           \/ SessionStarts \/ UNCHANGED ackVars
    <2>1. UNCHANGED <<incoming, cmdQueue, deferring, timer, firing, timerQueue, sent>>
        BY <1>6 DEF EndTimeout, MetadataChanged, RouteAck, AckChange, EndMetadata, TxSend,
                    PurgePackets, SessionEnds, ResetChangeAck, ResetPending, SessionStarts, ackVars
    <2>2. Due' = Due
        BY <2>1 DEF Due, RxDue, CommandsDue, DeferralDue, TimersDue, FiringDue, TimeoutsDue, OwnTimeouts
    <2> QED BY <2>1, <2>2 DEF DueInv
<1> QED BY <1>2, <1>3, <1>4, <1>5, <1>6, RxBeginDue
        DEF AckNext, TimerTask, MetadataTask, ResetState

\* A pending timer that ends finds room for its message, if the messages of the other timers
\* leave one place free for a patient car, and for an impatient one as many places as it
\* sends commands: those of the pending timers never crowd each other out.
THEOREM TimeoutsHaveRoom == AckSpec => []TimeoutHasRoom
<1>1. AckInit => DueInv
    <2> SUFFICES ASSUME AckInit
                 PROVE  DueInv
        OBVIOUS
    <2>1. RxDue = 0 /\ CommandsDue = 0 /\ DeferralDue = 0 /\ TimersDue = 0 /\ FiringDue = 0
        BY DEF AckInit, RxDue, CommandsDue, DeferralDue, TimersDue, FiringDue, NotDeferring,
               Lingos
    <2>2. OwnTimeouts = {}
        BY DEF AckInit, OwnTimeouts
    <2>3. TimeoutsDue = 0
        BY <2>2, FS_EmptySet DEF TimeoutsDue
    <2> QED BY <2>1, <2>3 DEF AckInit, DueInv, Due
<1>2. AckInv /\ DueInv => TimeoutHasRoom
    <2> SUFFICES ASSUME AckInv, DueInv, firing # None,
                        OthersWaiting + PlacesNeeded <= TimerQueueSize
                 PROVE  Len(timerQueue) < TimerQueueSize
        BY DEF TimeoutHasRoom
    <2>1. FiringDue = 1
        BY DEF FiringDue
    <2>2. TimeoutsDue + 1 <= Due
        BY <2>1, PartsAreCounts DEF Due
    <2>3. sent \in 0..MaxCmds
        BY TypedIsTypeOK DEF AckInv, Typed
    <2>4. Due <= PlacesNeeded
        BY <2>3, PartsAreCounts, AckAssumption DEF DueInv, Due, PlacesNeeded
    <2>5. OthersWaiting = Len(timerQueue) - TimeoutsDue
        BY DEF OthersWaiting, TimeoutsDue
    <2>6. Len(timerQueue) \in Nat /\ TimeoutsDue \in Nat /\ Due \in Nat
          /\ PlacesNeeded \in Nat /\ TimerQueueSize \in Nat
        <3>1. Len(timerQueue) \in Nat
            BY TypedIsTypeOK, LenProperties DEF AckInv, Typed
        <3> QED BY <3>1, PartsAreCounts, AckAssumption DEF Due, PlacesNeeded
    <2> QED BY <2>2, <2>4, <2>5, <2>6
<1> QED BY <1>1, <1>2, AckInvariant, DueStep, PTL DEF AckSpec
=============================================================================
