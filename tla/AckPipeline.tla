----------------------------- MODULE AckPipeline -----------------------------
(***************************************************************************)
(* How an enabled esPod answers the car (src/src/esPod.cpp, L0x03.cpp,     *)
(* L0x04.cpp).  A command goes from _rxTask over _cmdQueue to _process-    *)
(* Task, which answers over _txQueue to _txTask.  A command that changes   *)
(* the track is answered twice: CmdPending at once, and a final ack when   *)
(* new metadata arrives from the phone or the lingo's pending timer ends.  *)
(* Until the final ack is queued _txTask sends nothing at all.             *)
(*                                                                         *)
(* The final ack is queued by whichever task comes first - the process     *)
(* task (for a second command of the same ID), the timer task or the meta- *)
(* data task of the source - through the same unlocked routine, so the     *)
(* routine is split at each access to a shared field.                      *)
(*                                                                         *)
(* _timerQueue also takes the messages of the other timers (play position, *)
(* notification, key press, grace period, settle pause): any of them may   *)
(* come at any time, and a full queue loses what comes next.               *)
(*                                                                         *)
(* Left out: what an answer says, and which branch of a handler chooses a  *)
(* final answer over a deferred one; both are always possible here.  The   *)
(* notifications the handlers queue are packets of kind "other".           *)
(* The pending timer may end at any time after its start.                  *)
(*                                                                         *)
(* A session may be ended at any moment: resetState() then runs beside the *)
(* tasks and empties, stops and clears what they may be about to fill,     *)
(* start and set.  A task's look at isDisabled() and its taking from a     *)
(* queue are one step.                                                     *)
(***************************************************************************)
EXTENDS Integers, Sequences, FiniteSets

CONSTANTS
    Commands,        \* the command IDs the car makes use of
    MaxCmds,         \* commands the car sends
    MaxChanges,      \* times the phone reports new metadata
    MaxEnds,         \* times the session is ended
    MaxReplies,      \* packets a query is answered by at most
    MaxPosts,        \* messages the other timers post to _timerQueue
    Patient,         \* the car lets all timers of a command end before the next one
    CmdQueueSize,    \* CMD_QUEUE_SIZE (32)
    TxQueueSize,     \* TX_QUEUE_SIZE (32)
    TimerQueueSize   \* TIMER_QUEUE_SIZE (10)

None == "none"

\* The command IDs the answers differ by: any Get, PlayControl (0x29), SetCurrent-
\* PlayingTrack of lingo 0x04 (0x37, or 0x28) and of lingo 0x03 (0x11).
ChangeIds == {"PlayControl", "SetCurrent", "DisplaySet"}
CmdIds == ChangeIds \cup {"Get"}
Lingos == {"L3", "L4"}
LingoOf(id) == IF id = "DisplaySet" THEN "L3" ELSE "L4"

ASSUME AckAssumption ==
    /\ Commands \subseteq CmdIds
    /\ MaxCmds \in Nat
    /\ MaxChanges \in Nat
    /\ MaxEnds \in Nat
    /\ MaxReplies \in Nat \ {0}
    /\ MaxPosts \in Nat
    /\ Patient \in BOOLEAN
    /\ CmdQueueSize \in Nat \ {0}
    /\ TxQueueSize \in Nat \ {0}
    /\ TimerQueueSize \in Nat

VARIABLES
    incoming,     \* the command whose bytes are arriving (_rxIncomplete), or None
    cmdQueue,     \* _cmdQueue
    txQueue,      \* _txQueue
    pending,      \* _pendingCmdId_0x03 and _pendingCmdId_0x04, None for 0x00
    timer,        \* TRUE while _pendingTimer_0x03, _pendingTimer_0x04 run
    firing,       \* the lingo whose timer callback has begun, or None
    timerQueue,   \* the messages waiting in _timerQueue
    changeAck,    \* trackChangeAckPending, None for 0x00
    acking,       \* where each task stands in the ack routine, and for which ack
    deferring,    \* where the process task stands in a deferred answer or in a row of replies
    metaPc,       \* where the metadata task stands before its ack
    sent,         \* commands the car has begun
    changes,      \* metadata changes reported
    posts,        \* messages of the other timers posted or lost
    lost,         \* history: lingos whose pending timer found _timerQueue full
    session,      \* whether isDisabled() is false, the step of resetState(), ends so far
    unanswered    \* history, of a patient car: IDs received with no final ack sent since

ackVars == <<incoming, cmdQueue, txQueue, pending, timer, firing, timerQueue, changeAck,
             acking, deferring, metaPc, sent, changes, posts, lost, session, unanswered>>

Ackers == {"process", "timer", "meta"}
AckSteps == {"idle", "compare", "stop", "clear", "front", "done"}

Ok(id) == [kind |-> "ok", id |-> id]
CmdPending(id) == [kind |-> "pending", id |-> id]
Other == [kind |-> "other", id |-> None]

\* A pending timer's message, and that of a timer which is not a lingo's.
Timeout(id, l) == [id |-> id, lingo |-> l]
OtherTimeout == [id |-> None, lingo |-> None]

\* The places of _timerQueue that messages of pending timers have.
OwnTimeouts == {i \in 1..Len(timerQueue) : timerQueue[i].lingo # None}
OthersWaiting == Len(timerQueue) - Cardinality(OwnTimeouts)

NoAck == [step |-> "idle", id |-> None, lingo |-> None]
NotDeferring == [step |-> "idle", id |-> None, left |-> 0]

AckInit ==
    /\ incoming = None
    /\ cmdQueue = <<>>
    /\ txQueue = <<>>
    /\ pending = [l \in Lingos |-> None]
    /\ timer = [l \in Lingos |-> FALSE]
    /\ firing = None
    /\ timerQueue = <<>>
    /\ changeAck = None
    /\ acking = [t \in Ackers |-> NoAck]
    /\ deferring = NotDeferring
    /\ metaPc = "idle"
    /\ sent = 0
    /\ changes = 0
    /\ posts = 0
    /\ lost = {}
    /\ session = [on |-> TRUE, reset |-> "idle", ends |-> 0]
    /\ unanswered = {}

-----------------------------------------------------------------------------
(* The queues.  A full _txQueue is waited for 5 ms, then the packet is     *)
(* dropped; to wait is not to take the step yet.                           *)

QueuePacket(p) ==
    txQueue' = IF Len(txQueue) < TxQueueSize THEN Append(txQueue, p) ELSE txQueue

QueuePacketToFront(p) ==
    txQueue' = IF Len(txQueue) < TxQueueSize THEN <<p>> \o txQueue ELSE txQueue

\* Two packets in a row, the second one only if the handler's condition holds.
MayQueueOther == UNCHANGED txQueue \/ QueuePacket(Other)

-----------------------------------------------------------------------------
(* The car and _rxTask.                                                    *)

\* Every earlier command is answered and nothing of it is left behind.
Settled ==
    /\ cmdQueue = <<>> /\ txQueue = <<>>
    /\ unanswered = {}
    /\ \A l \in Lingos : ~timer[l]
    /\ firing = None /\ OwnTimeouts = {}
    /\ \A t \in Ackers : acking[t] = NoAck
    /\ deferring = NotDeferring /\ metaPc = "idle"

RxBegin(id) ==
    /\ session.on
    /\ incoming = None /\ sent < MaxCmds
    /\ Patient => Settled
    /\ incoming' = id
    /\ sent' = sent + 1
    /\ UNCHANGED <<cmdQueue, txQueue, pending, timer, firing, timerQueue, changeAck, acking,
                   deferring, metaPc, changes, unanswered, session, posts, lost>>

\* The checksum byte: the packet is queued, or dropped when it or the queue is bad.
RxEnd ==
    /\ incoming # None
    /\ incoming' = None
    /\ \/ /\ Len(cmdQueue) < CmdQueueSize
          /\ cmdQueue' = Append(cmdQueue, incoming)
          /\ unanswered' = IF session.on /\ Patient
                            THEN unanswered \cup ({incoming} \cap ChangeIds) ELSE unanswered
       \/ UNCHANGED <<cmdQueue, unanswered>>
    /\ UNCHANGED <<txQueue, pending, timer, firing, timerQueue, changeAck, acking,
                   deferring, metaPc, sent, changes, session, posts, lost>>

-----------------------------------------------------------------------------
(* The ack routine, _0x00_iPodAck of lingo 0x03 and _0x01_iPodAck of 0x04, *)
(* run by a task t.  It reads the pending ID, stops the timer, clears the  *)
(* ID, and puts the ack at the front of the queue; an ack of another ID    *)
(* goes to the back and touches nothing.                                   *)

StartAck(t, l, id) ==
    acking' = [acking EXCEPT ![t] = [step |-> "compare", id |-> id, lingo |-> l]]

AckStep(t, from, to) ==
    /\ acking[t].step = from
    /\ acking' = [acking EXCEPT ![t].step = to]

\* A wrong AckOther: it stops the timer before it compares.
AckOtherStops(t) ==
    /\ AckStep(t, "compare", "done")
    /\ acking[t].id # pending[acking[t].lingo]
    /\ QueuePacket(Ok(acking[t].id))
    /\ timer' = [timer EXCEPT ![acking[t].lingo] = FALSE]
    /\ UNCHANGED <<incoming, cmdQueue, pending, firing, timerQueue, changeAck, deferring,
                   metaPc, sent, changes, unanswered, session, posts, lost>>

AckOther(t) ==
    /\ AckStep(t, "compare", "done")
    /\ acking[t].id # pending[acking[t].lingo]
    /\ QueuePacket(Ok(acking[t].id))
    /\ UNCHANGED <<incoming, cmdQueue, pending, timer, firing, timerQueue, changeAck,
                   deferring, metaPc, sent, changes, unanswered, session, posts,
                   lost>>

AckPending(t) ==
    /\ AckStep(t, "compare", "stop")
    /\ acking[t].id = pending[acking[t].lingo]
    /\ UNCHANGED <<incoming, cmdQueue, txQueue, pending, timer, firing, timerQueue,
                   changeAck, deferring, metaPc, sent, changes, unanswered, session,
                   posts, lost>>

AckStop(t) ==
    /\ AckStep(t, "stop", "clear")
    /\ timer' = [timer EXCEPT ![acking[t].lingo] = FALSE]
    /\ UNCHANGED <<incoming, cmdQueue, txQueue, pending, firing, timerQueue, changeAck,
                   deferring, metaPc, sent, changes, unanswered, session, posts,
                   lost>>

AckClear(t) ==
    /\ AckStep(t, "clear", "front")
    /\ pending' = [pending EXCEPT ![acking[t].lingo] = None]
    /\ lost' = lost \ {acking[t].lingo}
    /\ UNCHANGED <<incoming, cmdQueue, txQueue, timer, firing, timerQueue, changeAck,
                   deferring, metaPc, sent, changes, unanswered, session, posts>>

AckFront(t) ==
    /\ AckStep(t, "front", "done")
    /\ QueuePacketToFront(Ok(acking[t].id))
    /\ UNCHANGED <<incoming, cmdQueue, pending, timer, firing, timerQueue, changeAck,
                   deferring, metaPc, sent, changes, unanswered, session, posts,
                   lost>>

AckRoutine(t) == AckOther(t) \/ AckPending(t) \/ AckStop(t) \/ AckClear(t) \/ AckFront(t)

EndAck(t) ==
    /\ acking[t].step = "done"
    /\ acking' = [acking EXCEPT ![t] = NoAck]

-----------------------------------------------------------------------------
(* _processTask.                                                           *)

TakeCommand(id) ==
    /\ session.on
    /\ cmdQueue # <<>> /\ Head(cmdQueue) = id
    /\ acking["process"] = NoAck /\ deferring = NotDeferring
    /\ cmdQueue' = Tail(cmdQueue)

\* How many packets the handlers of a lingo queue for a query.  IdentifyDeviceLingoes is
\* answered by an ack and six queries, RetrieveCategorizedDatabaseRecords by as many
\* records as it asks for, and by none when the end of its range wraps round.
GeneralReplies == {0, 1, MaxReplies}
DisplayReplies == {0, 1}
ExtendedReplies == 0..MaxReplies

AnswerGet ==
    /\ TakeCommand("Get")
    /\ \E n \in GeneralReplies \cup DisplayReplies \cup ExtendedReplies :
         deferring' = IF n = 0 THEN NotDeferring
                              ELSE [step |-> "reply", id |-> None, left |-> n]
    /\ UNCHANGED <<incoming, txQueue, pending, timer, firing, timerQueue, changeAck, acking,
                   metaPc, sent, changes, unanswered, session, posts, lost>>

\* The session is not looked at between the packets of one answer.
Reply ==
    /\ deferring.step = "reply"
    /\ QueuePacket(Other)
    /\ deferring' = IF deferring.left = 1 THEN NotDeferring
                                          ELSE [deferring EXCEPT !.left = @ - 1]
    /\ UNCHANGED <<incoming, cmdQueue, pending, timer, firing, timerQueue, changeAck,
                   acking, metaPc, sent, changes, unanswered, session, posts, lost>>

\* A final answer at once; the branches for the current track notify first.
AnswerNow(id) ==
    /\ TakeCommand(id)
    /\ StartAck("process", LingoOf(id), id)
    /\ IF id = "SetCurrent" THEN MayQueueOther ELSE UNCHANGED txQueue
    /\ UNCHANGED <<incoming, pending, timer, firing, timerQueue, changeAck, deferring,
                   metaPc, sent, changes, unanswered, session, posts, lost>>

\* A stop is notified after its ack.
EndAnswer ==
    /\ EndAck("process")
    /\ IF acking["process"].id = "PlayControl" THEN MayQueueOther ELSE UNCHANGED txQueue
    /\ UNCHANGED <<incoming, cmdQueue, pending, timer, firing, timerQueue, changeAck,
                   deferring, metaPc, sent, changes, unanswered, session, posts,
                   lost>>

Defer(id) ==
    /\ TakeCommand(id)
    /\ changeAck' = id
    /\ deferring' = [step |-> "queuePending", id |-> id, left |-> 0]
    /\ UNCHANGED <<incoming, txQueue, pending, timer, firing, timerQueue, acking, metaPc,
                   sent, changes, unanswered, session, posts, lost>>

DeferTo(from, to) ==
    /\ deferring.step = from
    /\ deferring' = [deferring EXCEPT !.step = to]

QueuePending ==
    /\ DeferTo("queuePending", "setPending")
    /\ QueuePacket(CmdPending(deferring.id))
    /\ UNCHANGED <<incoming, cmdQueue, pending, timer, firing, timerQueue, changeAck, acking,
                   metaPc, sent, changes, unanswered, session, posts, lost>>

SetPending ==
    /\ DeferTo("setPending", "startTimer")
    /\ pending' = [pending EXCEPT ![LingoOf(deferring.id)] = deferring.id]
    /\ UNCHANGED <<incoming, cmdQueue, txQueue, timer, firing, timerQueue, changeAck,
                   acking, metaPc, sent, changes, unanswered, session, posts, lost>>

\* A wrong StartPendingTimer: both lingos start the timer of lingo 0x04.
StartTimerOfL4 ==
    /\ DeferTo("startTimer", "notify")
    /\ timer' = [timer EXCEPT !["L4"] = TRUE]
    /\ lost' = lost \ {"L4"}
    /\ UNCHANGED <<incoming, cmdQueue, txQueue, pending, firing, timerQueue, changeAck,
                   acking, metaPc, sent, changes, unanswered, session, posts>>

StartPendingTimer ==
    /\ DeferTo("startTimer", "notify")
    /\ timer' = [timer EXCEPT ![LingoOf(deferring.id)] = TRUE]
    /\ lost' = lost \ {LingoOf(deferring.id)}
    /\ UNCHANGED <<incoming, cmdQueue, txQueue, pending, firing, timerQueue, changeAck,
                   acking, metaPc, sent, changes, unanswered, session, posts>>

\* next(), previous() or play() to the phone, then the notification of lingo 0x04.
EndDefer ==
    /\ deferring.step = "notify"
    /\ IF LingoOf(deferring.id) = "L4" THEN MayQueueOther ELSE UNCHANGED txQueue
    /\ deferring' = NotDeferring
    /\ UNCHANGED <<incoming, cmdQueue, pending, timer, firing, timerQueue, changeAck,
                   acking, metaPc, sent, changes, unanswered, session, posts, lost>>

-----------------------------------------------------------------------------
(* The timer daemon and _timerTask.                                        *)

\* A wrong TimerExpires: the timer starts again by itself.
TimerReloads(l) ==
    /\ timer[l] /\ firing = None
    /\ firing' = l
    /\ UNCHANGED <<incoming, cmdQueue, txQueue, pending, timer, timerQueue, changeAck,
                   acking, deferring, metaPc, sent, changes, unanswered, session,
                   posts, lost>>

\* From here on a stopTimer() comes too late.
TimerExpires(l) ==
    /\ timer[l] /\ firing = None
    /\ timer' = [timer EXCEPT ![l] = FALSE]
    /\ firing' = l
    /\ UNCHANGED <<incoming, cmdQueue, txQueue, pending, timerQueue, changeAck, acking,
                   deferring, metaPc, sent, changes, unanswered, session, posts,
                   lost>>

\* A wrong TimerCallback: it keeps still once the track change is acked.
TimerCallbackIfChanging ==
    /\ firing # None
    /\ firing' = None
    /\ timerQueue' = IF changeAck # None
                     THEN Append(timerQueue, Timeout(pending[firing], firing))
                     ELSE timerQueue
    /\ UNCHANGED <<incoming, cmdQueue, txQueue, pending, timer, changeAck, acking,
                   deferring, metaPc, sent, changes, unanswered, session, posts,
                   lost>>

\* A callback does not wait for room in _timerQueue, nor look whether there was any.
Post(m) ==
    timerQueue' = IF Len(timerQueue) < TimerQueueSize THEN Append(timerQueue, m) ELSE timerQueue

\* The callback posts the ID that is pending now, which may be another or none.
TimerCallback ==
    /\ firing # None
    /\ firing' = None
    /\ Post(Timeout(pending[firing], firing))
    /\ lost' = IF Len(timerQueue) < TimerQueueSize \/ pending[firing] = None
               THEN lost ELSE lost \cup {firing}
    /\ UNCHANGED <<incoming, cmdQueue, txQueue, pending, timer, changeAck, acking,
                   deferring, metaPc, sent, changes, unanswered, session, posts>>

\* One of the other timers ends, if the daemon is in no callback.
OtherTimerPosts ==
    /\ firing = None /\ posts < MaxPosts
    /\ posts' = posts + 1
    /\ Post(OtherTimeout)
    /\ UNCHANGED <<incoming, cmdQueue, txQueue, pending, timer, firing, changeAck, acking,
                   deferring, metaPc, sent, changes, session, unanswered, lost>>

\* The timer task is done with a message, and takes the next one.
TakeMessage ==
    /\ acking["timer"] = NoAck
    /\ timerQueue # <<>>
    /\ timerQueue' = Tail(timerQueue)

\* A wrong TakeTimeout: it takes the fields of the message in the wrong order.
TakeTimeoutSwapped ==
    /\ TakeMessage /\ Head(timerQueue).lingo # None
    /\ StartAck("timer", Head(timerQueue).id, Head(timerQueue).lingo)
    /\ UNCHANGED <<incoming, cmdQueue, txQueue, pending, timer, firing, changeAck,
                   deferring, metaPc, sent, changes, unanswered, session, posts,
                   lost>>

TakeTimeout ==
    /\ TakeMessage /\ Head(timerQueue).lingo # None
    /\ StartAck("timer", Head(timerQueue).lingo, Head(timerQueue).id)
    /\ UNCHANGED <<incoming, cmdQueue, txQueue, pending, timer, firing, changeAck,
                   deferring, metaPc, sent, changes, unanswered, session, posts,
                   lost>>

\* The message of another timer may notify the car.
TakeOther ==
    /\ TakeMessage /\ Head(timerQueue) = OtherTimeout
    /\ MayQueueOther
    /\ UNCHANGED <<incoming, cmdQueue, pending, timer, firing, changeAck, acking, deferring,
                   metaPc, sent, changes, session, unanswered, posts, lost>>

EndTimeout ==
    /\ EndAck("timer")
    /\ changeAck' = IF acking["timer"].id = changeAck THEN None ELSE changeAck
    /\ IF acking["timer"].lingo = "L4" THEN QueuePacket(Other) ELSE UNCHANGED txQueue
    /\ UNCHANGED <<incoming, cmdQueue, pending, timer, firing, timerQueue, deferring,
                   metaPc, sent, changes, unanswered, session, posts, lost>>

-----------------------------------------------------------------------------
(* The metadata task of the source, in _applyTrackMetadata.                *)

\* New metadata; with no ack outstanding the car may be notified at once.
MetadataChanged ==
    /\ metaPc = "idle" /\ acking["meta"] = NoAck
    /\ changes < MaxChanges
    /\ changes' = changes + 1
    /\ IF changeAck = None
       THEN MayQueueOther /\ UNCHANGED metaPc
       ELSE metaPc' = "route" /\ UNCHANGED txQueue
    /\ UNCHANGED <<incoming, cmdQueue, pending, timer, firing, timerQueue, changeAck, acking,
                   deferring, sent, unanswered, session, posts, lost>>

\* The field is read again to choose the lingo, and once more for the ID to ack; it may
\* have changed since the test, and between the two.
RouteAck ==
    /\ metaPc = "route"
    /\ metaPc' = LingoOf(changeAck)
    /\ UNCHANGED <<incoming, cmdQueue, txQueue, pending, timer, firing, timerQueue, changeAck,
                   acking, deferring, sent, changes, unanswered, session, posts, lost>>

AckChange ==
    /\ metaPc \in Lingos
    /\ metaPc' = "idle"
    /\ StartAck("meta", metaPc, changeAck)
    /\ UNCHANGED <<incoming, cmdQueue, txQueue, pending, timer, firing, timerQueue, changeAck,
                   deferring, sent, changes, unanswered, session, posts, lost>>

EndMetadata ==
    /\ EndAck("meta")
    /\ changeAck' = None
    /\ UNCHANGED <<incoming, cmdQueue, txQueue, pending, timer, firing, timerQueue,
                   deferring, metaPc, sent, changes, unanswered, session, posts,
                   lost>>

-----------------------------------------------------------------------------
(* The end of a session: the state goes Disabled and resetState() runs, in *)
(* the BT task or the timer task, while a command may be under way, and    *)
(* even while the next session takes its first ones, which it may swallow. *)
(* The process and transmit tasks purge their queues while Disabled.       *)

\* A wrong ResetAfter: the pending IDs are cleared before the timers are stopped.
ResetAfterSwapped(step) ==
    CASE step = "changeAck" -> "queues"
      [] step = "queues" -> "pending"
      [] step = "pending" -> "timers"
      [] step = "timers" -> "idle"

\* The order of the statements of resetState().
ResetAfter(step) ==
    CASE step = "changeAck" -> "queues"
      [] step = "queues" -> "timers"
      [] step = "timers" -> "pending"
      [] step = "pending" -> "idle"

ResetStep(step) ==
    /\ session.reset = step
    /\ session' = [session EXCEPT !.reset = ResetAfter(step)]

SessionEnds ==
    /\ session.on /\ session.reset = "idle" /\ session.ends < MaxEnds
    /\ session' = [on |-> FALSE, reset |-> "changeAck", ends |-> session.ends + 1]
    /\ unanswered' = {}
    /\ UNCHANGED <<incoming, cmdQueue, txQueue, pending, timer, firing, timerQueue,
                   changeAck, acking, deferring, metaPc, sent, changes, posts, lost>>

ResetChangeAck ==
    /\ ResetStep("changeAck")
    /\ changeAck' = None
    /\ UNCHANGED <<incoming, cmdQueue, txQueue, pending, timer, firing, timerQueue, acking,
                   deferring, metaPc, sent, changes, unanswered, posts, lost>>

ResetQueues ==
    /\ ResetStep("queues")
    /\ cmdQueue' = <<>>
    /\ txQueue' = <<>>
    /\ unanswered' = {}
    /\ UNCHANGED <<incoming, pending, timer, firing, timerQueue, changeAck, acking,
                   deferring, metaPc, sent, changes, posts, lost>>

ResetTimers ==
    /\ ResetStep("timers")
    /\ timer' = [l \in Lingos |-> FALSE]
    /\ UNCHANGED <<incoming, cmdQueue, txQueue, pending, firing, timerQueue, changeAck,
                   acking, deferring, metaPc, sent, changes, unanswered, posts, lost>>

ResetPending ==
    /\ ResetStep("pending")
    /\ pending' = [l \in Lingos |-> None]
    /\ lost' = {}
    /\ unanswered' = {}
    /\ UNCHANGED <<incoming, cmdQueue, txQueue, timer, firing, timerQueue, changeAck,
                   acking, deferring, metaPc, sent, changes, posts>>

ResetState == ResetChangeAck \/ ResetQueues \/ ResetTimers \/ ResetPending

\* A reset that is not done yet does not keep the next session from starting.
SessionStarts ==
    /\ ~session.on
    /\ session' = [session EXCEPT !.on = TRUE]
    /\ UNCHANGED <<incoming, cmdQueue, txQueue, pending, timer, firing, timerQueue,
                   changeAck, acking, deferring, metaPc, sent, changes, unanswered,
                   posts, lost>>

PurgeCommands ==
    /\ ~session.on /\ cmdQueue # <<>>
    /\ acking["process"] = NoAck /\ deferring = NotDeferring
    /\ cmdQueue' = <<>>
    /\ UNCHANGED <<incoming, txQueue, pending, timer, firing, timerQueue, changeAck, acking,
                   deferring, metaPc, sent, changes, session, unanswered, posts,
                   lost>>

PurgePackets ==
    /\ ~session.on /\ txQueue # <<>>
    /\ txQueue' = <<>>
    /\ UNCHANGED <<incoming, cmdQueue, pending, timer, firing, timerQueue, changeAck,
                   acking, deferring, metaPc, sent, changes, session, unanswered,
                   posts, lost>>

-----------------------------------------------------------------------------
(* _txTask: nothing goes out while a packet comes in or an ack is pending. *)

TxSend ==
    /\ session.on
    /\ incoming = None
    /\ \A l \in Lingos : pending[l] = None
    /\ txQueue # <<>>
    /\ txQueue' = Tail(txQueue)
    /\ unanswered' = IF Head(txQueue).kind = "ok" THEN unanswered \ {Head(txQueue).id}
                                                ELSE unanswered
    /\ UNCHANGED <<incoming, cmdQueue, pending, timer, firing, timerQueue, changeAck,
                   acking, deferring, metaPc, sent, changes, session, posts, lost>>

-----------------------------------------------------------------------------

ProcessTask ==
    \/ AnswerGet \/ Reply
    \/ \E id \in ChangeIds : AnswerNow(id) \/ Defer(id)
    \/ AckRoutine("process") \/ EndAnswer
    \/ QueuePending \/ SetPending \/ StartPendingTimer \/ EndDefer
    \/ PurgeCommands

TimerTask == TakeTimeout \/ TakeOther \/ AckRoutine("timer") \/ EndTimeout

MetadataTask == RouteAck \/ AckChange \/ AckRoutine("meta") \/ EndMetadata

AckNext ==
    \/ \E id \in Commands : RxBegin(id)
    \/ RxEnd
    \/ ProcessTask
    \/ \E l \in Lingos : TimerExpires(l)
    \/ TimerCallback \/ OtherTimerPosts
    \/ TimerTask
    \/ MetadataChanged
    \/ MetadataTask
    \/ TxSend
    \/ PurgePackets
    \/ SessionEnds
    \/ ResetState
    \/ SessionStarts

AckSpec == AckInit /\ [][AckNext]_ackVars

\* The tasks run, timers end, and a packet once begun ends or is given up (the
\* inter-byte timeout, which is not looked at while Disabled); the car and the phone need
\* not do anything, and a session that ended need not be followed by another.
AckFairness ==
    /\ WF_ackVars(session.on /\ RxEnd)
    /\ WF_ackVars(ProcessTask)
    /\ \A l \in Lingos : WF_ackVars(TimerExpires(l))
    /\ WF_ackVars(TimerCallback)
    /\ WF_ackVars(TimerTask)
    /\ WF_ackVars(MetadataTask)
    /\ WF_ackVars(TxSend \/ PurgePackets)
    /\ WF_ackVars(ResetState)

FairAckSpec == AckSpec /\ AckFairness

-----------------------------------------------------------------------------
(* Properties.                                                             *)

\* Every field keeps its type.
AckTypeOK ==
    /\ incoming \in CmdIds \cup {None}
    /\ cmdQueue \in Seq(CmdIds)
    /\ txQueue \in Seq([kind : {"ok", "pending", "other"}, id : ChangeIds \cup {None}])
    /\ pending \in [Lingos -> ChangeIds \cup {None}]
    /\ timer \in [Lingos -> BOOLEAN]
    /\ firing \in Lingos \cup {None}
    /\ timerQueue \in Seq([id : ChangeIds \cup {None}, lingo : Lingos \cup {None}])
    /\ changeAck \in ChangeIds \cup {None}
    /\ acking \in [Ackers -> [step : AckSteps, id : ChangeIds \cup {None},
                              lingo : Lingos \cup {None}]]
    /\ deferring \in [step : {"idle", "queuePending", "setPending", "startTimer",
                              "notify", "reply"},
                      id : ChangeIds \cup {None}, left : 0..MaxReplies]
    /\ metaPc \in {"idle", "route"} \cup Lingos
    /\ sent \in 0..MaxCmds
    /\ changes \in 0..MaxChanges
    /\ posts \in 0..MaxPosts
    /\ lost \subseteq Lingos
    /\ session \in [on : BOOLEAN, ends : 0..MaxEnds,
                    reset : {"idle", "changeAck", "queues", "timers", "pending"}]
    /\ unanswered \subseteq ChangeIds

\* Some task is about to end the pending state of lingo l, or a timer that will is
\* running, has expired, or has its message in the queue.
Watched(l) ==
    \/ timer[l]
    \/ firing = l
    \/ \E i \in 1..Len(timerQueue) : timerQueue[i] = Timeout(pending[l], l)
    \/ deferring.step = "startTimer" /\ LingoOf(deferring.id) = l
    \/ session.reset = "pending"
    \/ \E t \in Ackers : /\ acking[t].lingo = l
                         /\ \/ acking[t].step \in {"stop", "clear"}
                            \/ acking[t].step = "compare" /\ acking[t].id = pending[l]

\* A pending command blocks all transmission, so it is never left without something
\* that will end it, however the three ackers, the timer and a reset cross each other:
\* the one way to that is a timer message lost to a full _timerQueue.
PendingWatched == \A l \in Lingos : pending[l] # None => Watched(l) \/ l \in lost

\* The places the pending timers need: one if the car is patient, else one for a command.
PlacesNeeded == IF Patient THEN 1 ELSE MaxCmds

\* A pending timer that ends finds room for its message in _timerQueue, whose result no
\* callback looks at (esPod.cpp:411-437), as long as the messages of the other timers
\* leave the places needed free: the pending timers never crowd each other out.
TimeoutHasRoom ==
    firing # None /\ OthersWaiting + PlacesNeeded <= TimerQueueSize
      => Len(timerQueue) < TimerQueueSize

\* Nothing of a session is left some time after it has ended, whatever command, ack or
\* timer resetState() came upon: no packet, no pending ID, no timer to answer it later,
\* unless the message of a timer was lost to a full _timerQueue.
\* (trackChangeAckPending is not claimed: a command under way may set it behind the reset.)
EndedIsForgotten ==
    ~session.on ~> \/ session.on
                   \/ lost # {}
                   \/ /\ cmdQueue = <<>> /\ txQueue = <<>>
                      /\ \A l \in Lingos : pending[l] = None /\ ~timer[l]
                      /\ firing = None /\ OwnTimeouts = {}
                      /\ \A t \in Ackers : acking[t] = NoAck
                      /\ deferring = NotDeferring

\* Once the car, the phone and the other timers fall silent everything queued for the car
\* is sent, unless the message of a pending timer was lost to a full _timerQueue.
Drains == []<>(txQueue = <<>> \/ lost # {})

\* A patient car gets a final ack for every command that reached _cmdQueue and that no end
\* of the session swallowed, unless the message of its timer was lost to a full _timerQueue.
Answered == unanswered # {} ~> unanswered = {} \/ lost # {}

\* The comment on the ack with a delay field: CmdPending has to be followed up with a
\* normal ack.  One that goes out when the command's final ack already has never is.
FollowedUp ==
    [][\A id \in ChangeIds :
         TxSend /\ Head(txQueue) = CmdPending(id) => id \in unanswered]_ackVars

=============================================================================
