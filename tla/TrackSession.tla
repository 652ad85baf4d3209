----------------------------- MODULE TrackSession -----------------------------
(***************************************************************************)
(* The track the car shows (L0x04.cpp, L0x00.cpp, esPod.cpp), for the play-*)
(* list of three rows: previous, START_INDEX and next.  The phone's track  *)
(* is always row START_INDEX.  A track change is shown as a move to        *)
(* another row, and a later notification moves the car back:               *)
(*                                                                         *)
(*   process task    commands of the car; a key press on the phone keeps   *)
(*                   it asleep for 100 ms (SendKey)                        *)
(*   metadata task   _applyTrackMetadata()                                 *)
(*   timer daemon    the timer of a deferred ack, the timer of a delayed   *)
(*                   notification and the timer of the play position       *)
(*   timer task      what the timers posted into _timerQueue               *)
(*   BT task         play state, suspension and end of the session         *)
(*                                                                         *)
(* Tasks change places where one sleeps; a routine without a sleep is one  *)
(* step.  The deferred ack is written out in AckPipeline; here only its ID,*)
(* its timer and its message are kept.  Time is left out but for three     *)
(* facts: the sleep of 100 ms ends before the timer of the ack (1100 ms)   *)
(* that was started before it and before that of a notification (750 ms)   *)
(* started in it, the timer task takes a play position before the next one *)
(* is posted (500 ms), and a session does not begin in a sleep begun in    *)
(* the one before.                                                         *)
(* Selections by lingo 0x03 are left out.                                  *)
(***************************************************************************)
EXTENDS Integers, Sequences

CONSTANTS
    MaxCmds,         \* commands the car sends in all
    MaxChanges,      \* changes of metadata in all
    MaxEnds,         \* ends of the session in all
    TimerQueueSize,  \* places of _timerQueue (10) that the other timers leave
    Patient          \* the car awaits the final ack of a command before the next

ASSUME TrackAssumption ==
    /\ {MaxCmds, MaxChanges, MaxEnds} \subseteq Nat
    /\ TimerQueueSize \in Nat \ {0}
    /\ Patient \in BOOLEAN

VARIABLES
    session,       \* _state
    extended,      \* extendedInterfaceModeActive
    notif,         \* playStatusNotificationState is NOTIF_ON
    playStatus,    \* playStatus
    cursor,        \* currentTrackIndex
    next,          \* pendingTrackIndex
    changeAck,     \* trackChangeAckPending, None for 0x00
    ackTimer,      \* the command _pendingTimer_0x04 runs for, or None
    scheduled,     \* _pendingStatusNotificationCmdId is 0x01
    notifyTimer,   \* _notificationTimer runs
    positionTimer, \* _playPositionTimer runs
    timerQueue,    \* _timerQueue
    recent,        \* which of the two selections is less than 1500 ms ago
    doing,         \* what the process task does when it wakes up
    shown,         \* the row the car was last told while it listened, or None
    adrift,        \* history: metadata in its key press took its ack and scheduled nothing
    spent          \* how much of each bound is used

trackVars == <<session, extended, notif, playStatus, cursor, next, changeAck, ackTimer,
               scheduled, notifyTimer, positionTimer, timerQueue, recent, doing,
               shown, adrift, spent>>
sessionVars == <<session, extended, notif, positionTimer>>
noticeVars == <<scheduled, notifyTimer>>
displayVars == <<shown, adrift>>

None == "none"
Invalid == "invalid"                     \* INVALID_TRACK_NUM
Start == "start"                         \* START_INDEX
Rows == {"previous", Start, "next"}      \* TOTAL_NUM_TRACKS
Selections == {"PlayCurrent", "SetCurrent"}
Deferred == Selections \cup {"PlayControl"}

Track == [kind |-> "track", id |-> None]
Position == [kind |-> "position", id |-> None]
AckOf(id) == [kind |-> "ack", id |-> id]

Idle == [step |-> "idle"]
Telling == {"tell", "tellNext"}
Posted(m) == \E i \in 1 .. Len(timerQueue) : timerQueue[i] = m

TrackInit ==
    /\ session = "Disabled"
    /\ extended = FALSE
    /\ notif = FALSE
    /\ playStatus = "paused"
    /\ cursor = Invalid
    /\ next = Invalid
    /\ changeAck = None
    /\ ackTimer = None
    /\ scheduled = FALSE
    /\ notifyTimer = FALSE
    /\ positionTimer = FALSE
    /\ timerQueue = <<>>
    /\ recent = {}
    /\ doing = Idle
    /\ shown = None
    /\ adrift = FALSE
    /\ spent = [cmds |-> 0, changes |-> 0, ends |-> 0]

-----------------------------------------------------------------------------
(* What the handlers share.                                                *)

\* The car is told a row; what it shows is followed while it listens.
Show(row) == shown' = IF notif /\ session # "Disabled" THEN row ELSE None
Tell(row) == Show(row) /\ adrift' = FALSE

\* What it shows is not followed from here on.
TellNothing ==
    /\ shown' = None
    /\ adrift' = FALSE

\* A wrong Schedule: the notification is remembered and its timer is not started.
ScheduleOnly ==
    /\ scheduled' = TRUE
    /\ UNCHANGED notifyTimer

\* scheduleNotification(): refused while another one is due.
Schedule ==
    /\ scheduled' = TRUE
    /\ notifyTimer' = IF scheduled THEN notifyTimer ELSE TRUE

\* An ack of the command that is due for one stops the timer of that one.
Ack(id) == ackTimer' = IF ackTimer = id THEN None ELSE ackTimer

Defer(id) ==
    /\ changeAck' = id
    /\ ackTimer' = id

\* The full queue drops what a timer posts.
Post(m) ==
    timerQueue' = IF Len(timerQueue) < TimerQueueSize THEN Append(timerQueue, m)
                                                      ELSE timerQueue

-----------------------------------------------------------------------------
(* The process task.                                                       *)

\* Every command has its final ack.
Answered == changeAck = None /\ ackTimer = None /\ \A id \in Deferred : ~Posted(AckOf(id))

Command ==
    /\ session # "Disabled" /\ doing = Idle
    /\ Patient => Answered
    /\ spent.cmds < MaxCmds
    /\ spent' = [spent EXCEPT !.cmds = @ + 1]

\* Lingo 0x00.
EnterExtended ==
    /\ Command
    /\ extended' = TRUE
    /\ UNCHANGED <<session, notif, positionTimer, playStatus, cursor, next, changeAck,
                   ackTimer, noticeVars, timerQueue, recent, doing, displayVars>>

\* The timer of the position goes on, and so does all that is due.
ExitExtended ==
    /\ Command
    /\ extended
    /\ extended' = FALSE
    /\ notif' = FALSE
    /\ TellNothing
    /\ UNCHANGED <<session, positionTimer, playStatus, cursor, next, changeAck, ackTimer,
                   noticeVars, timerQueue, recent, doing>>

\* resetTrackState(); the car that identifies itself asks for everything anew.
Identify ==
    /\ Command
    /\ cursor' = Invalid
    /\ next' = Invalid
    /\ recent' = recent \ {"acked"}
    /\ TellNothing
    /\ UNCHANGED <<sessionVars, playStatus, changeAck, ackTimer, noticeVars, timerQueue,
                   doing>>

\* Lingo 0x04 outside of the extended interface mode: BadParam, which is an ack too.
Refuse(id) ==
    /\ Command
    /\ ~extended
    /\ Ack(id)
    /\ UNCHANGED <<sessionVars, playStatus, cursor, next, changeAck, noticeVars,
                   timerQueue, recent, doing, displayVars>>

\* A byte that is neither NOTIF_ON nor NOTIF_OFF leaves the timer as it is.
SetNotification(mode) ==
    /\ Command
    /\ extended
    /\ notif' = (mode = "on")
    /\ positionTimer' = IF mode = "other" THEN positionTimer ELSE mode = "on"
    /\ IF notif' = notif THEN UNCHANGED displayVars ELSE TellNothing
    /\ UNCHANGED <<session, extended, playStatus, cursor, next, changeAck, ackTimer,
                   noticeVars, timerQueue, recent, doing>>

-----------------------------------------------------------------------------
(* PlayCurrentSelection and SetCurrentPlayingTrack.                        *)

\* What is noted of the command before the phone may have to be woken up.
Selected(id, row) ==
    [step |-> "select", id |-> id, row |-> row, found |-> cursor,
     played |-> playStatus = "playing"]

Select(id, row) ==
    /\ Command
    /\ extended
    /\ playStatus' = "playing"
    /\ doing' = Selected(id, row)
    /\ UNCHANGED <<sessionVars, cursor, next, changeAck, ackTimer, noticeVars, timerQueue,
                   recent, displayVars>>

\* The selection goes on, with play() behind it; it has a track from here on.
Selecting(id) ==
    /\ doing.step = "select" /\ doing.id = id
    /\ UNCHANGED <<sessionVars, playStatus, timerQueue, spent>>

SkipsSet == doing.id = "SetCurrent" /\ "acked" \in recent
SkipsPlay == doing.id = "PlayCurrent" /\ "set" \in recent
Noted(id) == recent \cup (IF id = "SetCurrent" THEN {"set"} ELSE {})

\* A SetCurrentPlayingTrack right after one that was acked by its timer: BadParam.
SkipSet ==
    /\ Selecting("SetCurrent")
    /\ SkipsSet
    /\ cursor' = Start
    /\ Ack("SetCurrent")
    /\ doing' = Idle
    /\ UNCHANGED <<next, changeAck, noticeVars, recent, displayVars>>

\* What the car has already: a PlayCurrentSelection right after a SetCurrentPlayingTrack,
\* and the current row.
SelectSame(id) ==
    /\ Selecting(id)
    /\ ~SkipsSet
    /\ SkipsPlay \/ doing.row = Start
    /\ cursor' = Start
    /\ recent' = IF SkipsPlay THEN recent ELSE Noted(id)
    /\ Tell(Start)
    /\ Ack(id)
    /\ doing' = Idle
    /\ UNCHANGED <<next, changeAck, noticeVars>>

\* A wrong SelectWaking: it leaves the move back to the next metadata.
SelectWakingOnly(id) ==
    /\ Selecting(id)
    /\ ~SkipsSet /\ ~SkipsPlay
    /\ doing.row # Start /\ ~doing.played
    /\ Tell(doing.row)
    /\ next' = Start
    /\ cursor' = doing.found
    /\ recent' = Noted(id)
    /\ Ack(id)
    /\ doing' = Idle
    /\ UNCHANGED <<changeAck, noticeVars>>

\* Another row, when nothing played: the phone is not told, the car is moved back later.
SelectWaking(id) ==
    /\ Selecting(id)
    /\ ~SkipsSet /\ ~SkipsPlay
    /\ doing.row # Start /\ ~doing.played
    /\ Tell(doing.row)
    /\ next' = Start
    /\ cursor' = doing.found
    /\ Schedule
    /\ recent' = Noted(id)
    /\ Ack(id)
    /\ doing' = Idle
    /\ UNCHANGED changeAck

\* Another row of what plays: next() or previous(), the row is told after the key press.
SelectMoving(id) ==
    /\ Selecting(id)
    /\ ~SkipsSet /\ ~SkipsPlay
    /\ doing.row # Start /\ doing.played
    /\ cursor' = Start
    /\ Defer(id)
    /\ recent' = Noted(id)
    /\ doing' = [step |-> "tell", row |-> doing.row, came |-> "none"]
    /\ UNCHANGED <<next, noticeVars, displayVars>>

-----------------------------------------------------------------------------
(* PlayControl.                                                            *)

Control ==
    /\ Command
    /\ extended
    /\ UNCHANGED <<sessionVars, timerQueue, recent>>

\* PB_CMD_TOGGLE of what plays, PB_CMD_STOP: a key press, then the ack.
Halt(status) ==
    /\ Control
    /\ status = "paused" => playStatus = "playing"
    /\ playStatus' = status
    /\ doing' = [step |-> "ack"]
    /\ UNCHANGED <<cursor, next, changeAck, ackTimer, noticeVars, displayVars>>

\* PB_CMD_TOGGLE of what does not play.  The first one of a session moves the car to the
\* previous row and has it moved back later, to a track that is not noted.
TogglePlay ==
    /\ Control
    /\ playStatus # "playing"
    /\ IF cursor = Invalid THEN Tell("previous") /\ Schedule
                           ELSE UNCHANGED <<displayVars, noticeVars>>
    /\ cursor' = Start
    /\ playStatus' = "playing"
    /\ doing' = [step |-> "ack"]
    /\ UNCHANGED <<next, changeAck, ackTimer>>

\* PB_CMD_NEXT, PB_CMD_NEXT_TRACK.
NextTrack ==
    /\ Control
    /\ Defer("PlayControl")
    /\ doing' = [step |-> "tellNext", row |-> "next", came |-> "none"]
    /\ UNCHANGED <<playStatus, cursor, next, noticeVars, displayVars>>

\* PB_CMD_PREV, PB_CMD_PREVIOUS_TRACK and PB_CMD_PAUSE: the ack, then the key press.
AckFirst(status) ==
    /\ Control
    /\ playStatus' = status
    /\ Ack("PlayControl")
    /\ doing' = [step |-> "rest"]
    /\ UNCHANGED <<cursor, next, changeAck, noticeVars, displayVars>>

\* PB_CMD_PLAY.
Play ==
    /\ Control
    /\ playStatus' = "playing"
    /\ Defer("PlayControl")
    /\ doing' = [step |-> "rest"]
    /\ UNCHANGED <<cursor, next, noticeVars, displayVars>>

\* The seek commands and the unknown ones: only the ack matters here.
OtherControl ==
    /\ Control
    /\ Ack("PlayControl")
    /\ UNCHANGED <<playStatus, cursor, next, changeAck, noticeVars, doing, displayVars>>

\* The process task wakes up behind a key press.  A car that moves on before it has a
\* track is not moved back by the metadata: what it shows is not followed.
Wake ==
    /\ doing.step \in Telling \cup {"ack", "rest"}
    /\ doing' = Idle
    /\ IF doing.step = "ack" THEN Ack("PlayControl") ELSE UNCHANGED ackTimer
    /\ IF doing.step = "tell" \/ (doing.step = "tellNext" /\ notif)
       THEN IF cursor = Invalid THEN TellNothing
            ELSE Show(doing.row) /\ adrift' = (doing.came = "unscheduled")
       ELSE UNCHANGED displayVars
    /\ UNCHANGED <<sessionVars, playStatus, cursor, next, changeAck, noticeVars,
                   timerQueue, recent, spent>>

-----------------------------------------------------------------------------
(* The metadata task.                                                      *)

\* History: metadata in the key press before a row is told starts a notification, or it
\* comes without one and takes the ack whose timer would have moved the car back.
Overtakes(starts) ==
    doing' = IF doing.step \in Telling /\ (starts \/ doing.came = "none")
             THEN [doing EXCEPT !.came = IF starts THEN "started" ELSE "unscheduled"] ELSE doing

MovesTheCar == notif /\ cursor # Invalid

\* A wrong ApplyMetadata: the ack is queued and the change stays due for it.
ApplyMetadataStillDue(row) ==
    /\ session # "Disabled"
    /\ spent.changes < MaxChanges
    /\ spent' = [spent EXCEPT !.changes = @ + 1]
    /\ Ack(changeAck)
    /\ Overtakes(MovesTheCar /\ ~scheduled)
    /\ IF MovesTheCar
       THEN /\ IF changeAck = None THEN Tell(row) ELSE UNCHANGED displayVars
            /\ next' = Start
            /\ Schedule
       ELSE UNCHANGED <<displayVars, next, noticeVars>>
    /\ UNCHANGED <<sessionVars, playStatus, cursor, changeAck, timerQueue, recent>>

\* New metadata answers the command that is due for an ack; without one the car is moved
\* to the row it comes from.  It is moved back later in both cases.
ApplyMetadata(row) ==
    /\ session # "Disabled"
    /\ spent.changes < MaxChanges
    /\ spent' = [spent EXCEPT !.changes = @ + 1]
    /\ Ack(changeAck)
    /\ changeAck' = None
    /\ Overtakes(MovesTheCar /\ ~scheduled)
    /\ IF MovesTheCar
       THEN /\ IF changeAck = None THEN Tell(row) ELSE UNCHANGED displayVars
            /\ next' = Start
            /\ Schedule
       ELSE UNCHANGED <<displayVars, next, noticeVars>>
    /\ UNCHANGED <<sessionVars, playStatus, cursor, timerQueue, recent>>

-----------------------------------------------------------------------------
(* The timer daemon.                                                       *)

AckTimerEnds ==
    /\ ackTimer # None
    /\ doing.step \notin Telling
    /\ Post(AckOf(ackTimer))
    /\ ackTimer' = None
    /\ UNCHANGED <<sessionVars, playStatus, cursor, next, changeAck, noticeVars, recent,
                   doing, displayVars, spent>>

NotifyTimerEnds ==
    /\ notifyTimer
    /\ doing.step \in Telling => doing.came # "started"
    /\ notifyTimer' = FALSE
    /\ Post(Track)
    /\ scheduled' = (scheduled /\ Len(timerQueue) < TimerQueueSize)
    /\ UNCHANGED <<sessionVars, playStatus, cursor, next, changeAck, ackTimer, recent,
                   doing, displayVars, spent>>

PositionTimerEnds ==
    /\ positionTimer
    /\ ~Posted(Position)
    /\ Post(Position)
    /\ UNCHANGED <<sessionVars, playStatus, cursor, next, changeAck, ackTimer, noticeVars,
                   recent, doing, displayVars, spent>>

RecentAges(which) ==
    /\ which \in recent
    /\ recent' = recent \ {which}
    /\ UNCHANGED <<sessionVars, playStatus, cursor, next, changeAck, ackTimer, noticeVars,
                   timerQueue, doing, displayVars, spent>>

-----------------------------------------------------------------------------
(* The timer task.                                                         *)

Take(m) ==
    /\ timerQueue # <<>> /\ Head(timerQueue) = m
    /\ timerQueue' = Tail(timerQueue)
    /\ UNCHANGED <<sessionVars, playStatus, doing, spent>>

\* The car is moved back whether it listens or not.
TakeAck(id) ==
    /\ Take(AckOf(id))
    /\ Ack(id)
    /\ changeAck' = IF changeAck = id THEN None ELSE changeAck
    /\ Tell(Start)
    /\ recent' = IF id = "SetCurrent" THEN recent \cup {"acked"} ELSE recent
    /\ UNCHANGED <<cursor, next, noticeVars>>

\* A wrong TakeTrack: the car is told the row as it is noted, an invalid one too.
TakeTrackAsNoted ==
    /\ Take(Track)
    /\ IF notif THEN cursor' = next /\ shown' = next /\ adrift' = FALSE
                ELSE UNCHANGED <<cursor, displayVars>>
    /\ scheduled' = FALSE
    /\ UNCHANGED <<next, changeAck, ackTimer, notifyTimer, recent>>

TakeTrack ==
    /\ Take(Track)
    /\ IF notif THEN cursor' = next /\ Tell(Start) ELSE UNCHANGED <<cursor, displayVars>>
    /\ scheduled' = FALSE
    /\ UNCHANGED <<next, changeAck, ackTimer, notifyTimer, recent>>

\* The position itself is left out.
TakePosition ==
    /\ Take(Position)
    /\ UNCHANGED <<cursor, next, changeAck, ackTimer, noticeVars, recent, displayVars>>

-----------------------------------------------------------------------------
(* The session, and the play state of the phone.                           *)

PlayStateChanged(playing) ==
    /\ playStatus' = IF playing /\ session = "Enabled" THEN "playing" ELSE "paused"
    /\ UNCHANGED <<sessionVars, cursor, next, changeAck, ackTimer, noticeVars, timerQueue,
                   recent, doing, displayVars, spent>>

SessionStarts ==
    /\ session \in {"Disabled", "Suspended"} /\ doing = Idle
    /\ session' = "Enabled"
    /\ UNCHANGED <<extended, notif, positionTimer, playStatus, cursor, next, changeAck,
                   ackTimer, noticeVars, timerQueue, recent, doing, displayVars, spent>>

SessionSuspends ==
    /\ session = "Enabled"
    /\ session' = "Suspended"
    /\ playStatus' = "paused"
    /\ UNCHANGED <<extended, notif, positionTimer, cursor, next, changeAck, ackTimer,
                   noticeVars, timerQueue, recent, doing, displayVars, spent>>

\* A wrong SessionEnds: it stops the timer of the notification that stays due.
SessionEndsOnly ==
    /\ session # "Disabled" /\ spent.ends < MaxEnds
    /\ spent' = [spent EXCEPT !.ends = @ + 1]
    /\ session' = "Disabled" /\ extended' = FALSE /\ notif' = FALSE
    /\ playStatus' = "paused"
    /\ cursor' = Invalid /\ next' = Invalid
    /\ changeAck' = None /\ ackTimer' = None
    /\ notifyTimer' = FALSE
    /\ positionTimer' = FALSE
    /\ recent' = recent \ {"acked"}
    /\ TellNothing
    /\ UNCHANGED <<scheduled, timerQueue, doing>>

\* _enterDisabled() and resetState(): what is posted already stays in the queue.
SessionEnds ==
    /\ session # "Disabled" /\ spent.ends < MaxEnds
    /\ spent' = [spent EXCEPT !.ends = @ + 1]
    /\ session' = "Disabled" /\ extended' = FALSE /\ notif' = FALSE
    /\ playStatus' = "paused"
    /\ cursor' = Invalid /\ next' = Invalid
    /\ changeAck' = None /\ ackTimer' = None
    /\ scheduled' = FALSE /\ notifyTimer' = FALSE
    /\ positionTimer' = FALSE
    /\ recent' = recent \ {"acked"}
    /\ TellNothing
    /\ UNCHANGED <<timerQueue, doing>>

-----------------------------------------------------------------------------
Selecting4 ==
    \/ SkipSet
    \/ \E id \in Selections : SelectSame(id) \/ SelectWaking(id) \/ SelectMoving(id)

Commands ==
    \/ EnterExtended \/ ExitExtended \/ Identify
    \/ \E id \in Deferred : Refuse(id)
    \/ \E mode \in {"on", "off", "other"} : SetNotification(mode)
    \/ \E id \in Selections, row \in Rows : Select(id, row)
    \/ \E status \in {"paused", "stopped"} : Halt(status)
    \/ TogglePlay \/ NextTrack \/ Play \/ OtherControl
    \/ \E status \in {playStatus, "paused"} : AckFirst(status)

TimerTask == (\E id \in Deferred : TakeAck(id)) \/ TakeTrack \/ TakePosition

TimersEnd ==
    \/ AckTimerEnds \/ NotifyTimerEnds \/ PositionTimerEnds
    \/ \E which \in recent : RecentAges(which)

BtTask ==
    \/ \E playing \in BOOLEAN : PlayStateChanged(playing)
    \/ SessionStarts \/ SessionSuspends \/ SessionEnds

TrackNext ==
    \/ Commands
    \/ Selecting4
    \/ Wake
    \/ \E row \in Rows \ {Start} : ApplyMetadata(row)
    \/ TimersEnd
    \/ TimerTask
    \/ BtTask

TrackSpec == TrackInit /\ [][TrackNext]_trackVars

\* The tasks run and a timer ends; the car, the phone and the link owe nothing.
FairTrackSpec ==
    /\ TrackSpec
    /\ WF_trackVars(Selecting4 \/ Wake)
    /\ WF_trackVars(AckTimerEnds)
    /\ WF_trackVars(NotifyTimerEnds)
    /\ WF_trackVars(TimerTask)

-----------------------------------------------------------------------------
Doings ==
    {Idle, [step |-> "ack"], [step |-> "rest"]}
    \cup [step : Telling, row : Rows, came : {"none", "started", "unscheduled"}]
    \cup [step : {"select"}, id : Selections, row : Rows, found : {Invalid, Start},
          played : BOOLEAN]

\* Types of the fields of esPod and of what is due.  No row but START_INDEX is ever the
\* phone's track, and the car is never told INVALID_TRACK_NUM (esPod.cpp:320).
TrackTypeOK ==
    /\ session \in {"Disabled", "Suspended", "Enabled"}
    /\ {extended, notif, scheduled, notifyTimer, positionTimer} \subseteq BOOLEAN
    /\ playStatus \in {"paused", "playing", "stopped"}
    /\ cursor \in {Invalid, Start} /\ next \in {Invalid, Start}
    /\ changeAck \in Deferred \cup {None} /\ ackTimer \in Deferred \cup {None}
    /\ timerQueue \in Seq({Track, Position} \cup {AckOf(id) : id \in Deferred})
    /\ Len(timerQueue) <= TimerQueueSize
    /\ recent \subseteq {"set", "acked"}
    /\ doing \in Doings
    /\ shown \in Rows \cup {None} /\ adrift \in BOOLEAN
    /\ spent \in [cmds : 0 .. MaxCmds, changes : 0 .. MaxChanges, ends : 0 .. MaxEnds]

\* scheduleNotification() refuses while a notification is due (esPod.cpp:1124): one that
\* is due has its timer or is posted, over ends of the session and full queues too.
ScheduledIsWatched == scheduled => notifyTimer \/ Posted(Track)

\* A car that listens is not left on a row that is not the phone's track: something that
\* moves it back is due.  Not so for a row told behind a key press in which metadata of an
\* earlier change took its ack while an earlier notification was due, or before the car had
\* a track: nothing new is scheduled then (esPod.cpp:1124), and the old notification may be
\* told before the row is.
TemporaryIsWatched ==
    shown \notin {None, Start} /\ ~adrift =>
        \/ notifyTimer \/ Posted(Track)
        \/ ackTimer # None
        \/ \E id \in Deferred : Posted(AckOf(id))

\* "Time outs the pending track change" (esPod.h): a track change the phone never
\* confirms does not stay due, which would hold back all play positions.
ChangeTimesOut == changeAck # None ~> changeAck = None

\* When the car and the phone fall silent the car is back on the phone's track, with the
\* exception of TemporaryIsWatched.
DisplaySettles == []<>(shown \in {None, Start} \/ adrift)

=============================================================================
