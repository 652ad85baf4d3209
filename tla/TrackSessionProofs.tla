-------------------------- MODULE TrackSessionProofs --------------------------
(***************************************************************************)
(* What TrackSession keeps for every bound, queue, and temper of the car   *)
(* and the phone: the types, and that a notification that is due (which    *)
(* has all others refused) is about to be delivered.  For a car that waits *)
(* and a queue of two places: that one moved to another row is about to be *)
(* moved back.                                                             *)
(***************************************************************************)
EXTENDS TrackSession, TLAPS

Messages == {Track, Position} \cup {AckOf(id) : id \in Deferred}

(***************************************************************************)
(* Queues.                                                                 *)
(***************************************************************************)

\* What a timer posts keeps the queue's type and size, and what waits in it stays.
LEMMA PostKeeps ==
    ASSUME timerQueue \in Seq(Messages), Len(timerQueue) <= TimerQueueSize,
           NEW m \in Messages, Post(m)
    PROVE  /\ timerQueue' \in Seq(Messages)
           /\ Len(timerQueue') <= TimerQueueSize
           /\ \A w : Posted(w) => Posted(w)'
           /\ Len(timerQueue) < TimerQueueSize => Posted(m)'
<1>1. CASE Len(timerQueue) < TimerQueueSize
    <2>1. timerQueue' = Append(timerQueue, m)
        BY <1>1 DEF Post
    <2>2. /\ timerQueue' \in Seq(Messages)
          /\ Len(timerQueue') = Len(timerQueue) + 1
          /\ \A i \in 1 .. Len(timerQueue) : timerQueue'[i] = timerQueue[i]
          /\ timerQueue'[Len(timerQueue) + 1] = m
        BY <2>1
    <2>3. Len(timerQueue') <= TimerQueueSize
        BY <1>1, <2>2, TrackAssumption
    <2>4. ASSUME NEW w, Posted(w) PROVE Posted(w)'
        BY <2>2, <2>4 DEF Posted
    <2>5. Posted(m)'
        BY <2>2 DEF Posted
    <2> QED BY <2>2, <2>3, <2>4, <2>5
<1>2. CASE ~(Len(timerQueue) < TimerQueueSize)
    <2>1. timerQueue' = timerQueue
        BY <1>2 DEF Post
    <2> QED BY <1>2, <2>1 DEF Posted
<1> QED BY <1>1, <1>2

\* Taking one message keeps the queue's type, and every other message in it.
LEMMA TakeKeeps ==
    ASSUME timerQueue \in Seq(Messages), Len(timerQueue) <= TimerQueueSize, NEW m, Take(m)
    PROVE  /\ timerQueue' \in Seq(Messages)
           /\ Len(timerQueue') <= TimerQueueSize
           /\ \A w : w # m /\ Posted(w) => Posted(w)'
<1>1. timerQueue # <<>> /\ timerQueue[1] = m /\ timerQueue' = Tail(timerQueue)
    BY DEF Take
<1>2. /\ timerQueue' \in Seq(Messages)
      /\ Len(timerQueue') = Len(timerQueue) - 1
      /\ \A i \in 1 .. Len(timerQueue') : timerQueue'[i] = timerQueue[i + 1]
    BY <1>1
<1>3. Len(timerQueue') <= TimerQueueSize
    BY <1>2, TrackAssumption
<1>4. ASSUME NEW w, w # m, Posted(w) PROVE Posted(w)'
    <2>1. PICK i \in 1 .. Len(timerQueue) : timerQueue[i] = w
        BY <1>4 DEF Posted
    <2>2. i # 1
        BY <2>1, <1>1, <1>4
    <2>3. i - 1 \in 1 .. Len(timerQueue') /\ timerQueue'[i - 1] = w
        BY <2>1, <2>2, <1>2
    <2> QED BY <2>3 DEF Posted
<1> QED BY <1>2, <1>3, <1>4

(***************************************************************************)
(* The step of each actor keeps the types.                                 *)
(***************************************************************************)

\* The process task asleep in a selection knows what it selects.
LEMMA SelectingIsTyped ==
    ASSUME TrackTypeOK, NEW id, Selecting(id)
    PROVE  /\ id \in Selections /\ doing.row \in Rows
           /\ doing.found \in {Invalid, Start} /\ doing.played \in BOOLEAN
<1>1. doing \in Doings /\ doing.step = "select" /\ doing.id = id
    BY DEF TrackTypeOK, Selecting
<1>2. doing \in [step : {"select"}, id : Selections, row : Rows, found : {Invalid, Start},
                 played : BOOLEAN]
    BY <1>1 DEF Doings, Idle, Telling
<1> QED BY <1>1, <1>2

\* A command counts as one more, within its bound.
LEMMA CommandIsTyped ==
    ASSUME TrackTypeOK, Command
    PROVE  spent' \in [cmds : 0 .. MaxCmds, changes : 0 .. MaxChanges, ends : 0 .. MaxEnds]
BY TrackAssumption DEF TrackTypeOK, Command

\* The car, through the process task: lingo 0x00, notifications, selections, PlayControl.
LEMMA CommandsKeepTypes ==
    ASSUME TrackTypeOK, Commands PROVE TrackTypeOK'
<1> USE CommandIsTyped
<1> USE DEF TrackTypeOK, sessionVars, noticeVars, displayVars, Tell, Show, TellNothing
<1>1. CASE EnterExtended
    BY <1>1 DEF EnterExtended, Command
<1>2. CASE ExitExtended
    BY <1>2 DEF ExitExtended, Command
<1>3. CASE Identify
    BY <1>3 DEF Identify, Command
<1>4. ASSUME NEW id \in Deferred, Refuse(id) PROVE TrackTypeOK'
    BY <1>4 DEF Refuse, Ack, Command
<1>5. ASSUME NEW mode \in {"on", "off", "other"}, SetNotification(mode) PROVE TrackTypeOK'
    BY <1>5 DEF SetNotification, Command
<1>6. ASSUME NEW id \in Selections, NEW row \in Rows, Select(id, row) PROVE TrackTypeOK'
    <2>1. doing' \in Doings
        BY <1>6 DEF Select, Selected, Doings
    <2> QED BY <1>6, <2>1 DEF Select, Command
<1>7. ASSUME NEW status \in {"paused", "stopped"}, Halt(status) PROVE TrackTypeOK'
    <2>1. doing' \in Doings
        BY <1>7 DEF Halt, Doings
    <2> QED BY <1>7, <2>1 DEF Halt, Control, Command
<1>8. CASE TogglePlay
    <2>1. doing' \in Doings
        BY <1>8 DEF TogglePlay, Doings
    <2> QED BY <1>8, <2>1 DEF TogglePlay, Tell, Schedule, Control, Command, Rows
<1>9. CASE NextTrack
    <2>1. doing' \in Doings
        BY <1>9 DEF NextTrack, Doings, Rows, Telling
    <2> QED BY <1>9, <2>1 DEF NextTrack, Defer, Control, Command, Deferred
<1>10. CASE Play
    <2>1. doing' \in Doings
        BY <1>10 DEF Play, Doings
    <2> QED BY <1>10, <2>1 DEF Play, Defer, Control, Command, Deferred
<1>11. CASE OtherControl
    BY <1>11 DEF OtherControl, Ack, Control, Command
<1>12. ASSUME NEW status \in {playStatus, "paused"}, AckFirst(status) PROVE TrackTypeOK'
    <2>1. doing' \in Doings
        BY <1>12 DEF AckFirst, Doings
    <2> QED BY <1>12, <2>1 DEF AckFirst, Ack, Control, Command
<1> QED
    BY <1>1, <1>2, <1>3, <1>4, <1>5, <1>6, <1>7, <1>8, <1>9, <1>10, <1>11, <1>12 DEF Commands

\* The process task behind a key press.
LEMMA WakingKeepsTypes ==
    ASSUME TrackTypeOK, Selecting4 \/ Wake PROVE TrackTypeOK'
<1> USE DEF TrackTypeOK, sessionVars, noticeVars, displayVars, Tell, Show, TellNothing
<1>1. CASE SkipSet
    <2>1. doing' \in Doings
        BY <1>1 DEF SkipSet, Doings
    <2> QED BY <1>1, <2>1 DEF SkipSet, Selecting, Ack
<1>2. ASSUME NEW id \in Selections, SelectSame(id) PROVE TrackTypeOK'
    <2>1. doing' \in Doings
        BY <1>2 DEF SelectSame, Doings
    <2>2. recent' \subseteq {"set", "acked"}
        BY <1>2 DEF SelectSame, Noted
    <2> QED BY <1>2, <2>1, <2>2 DEF SelectSame, Selecting, Ack, Tell, Rows
<1>3. ASSUME NEW id \in Selections, SelectWaking(id) PROVE TrackTypeOK'
    <2>1. doing' \in Doings
        BY <1>3 DEF SelectWaking, Doings
    <2>2. recent' \subseteq {"set", "acked"}
        BY <1>3 DEF SelectWaking, Noted
    <2>3. doing.row \in Rows /\ doing.found \in {Invalid, Start}
        BY <1>3, SelectingIsTyped DEF SelectWaking
    <2> QED BY <1>3, <2>1, <2>2, <2>3 DEF SelectWaking, Selecting, Ack, Tell, Schedule
<1>4. ASSUME NEW id \in Selections, SelectMoving(id) PROVE TrackTypeOK'
    <2>1. doing.row \in Rows
        BY <1>4, SelectingIsTyped DEF SelectMoving
    <2>2. doing' \in Doings
        BY <1>4, <2>1 DEF SelectMoving, Doings, Telling
    <2>3. recent' \subseteq {"set", "acked"}
        BY <1>4 DEF SelectMoving, Noted
    <2> QED BY <1>4, <2>2, <2>3 DEF SelectMoving, Selecting, Defer, Deferred
<1>5. CASE Wake
    <2>1. doing' \in Doings
        BY <1>5 DEF Wake, Doings
    <2>2. ASSUME doing.step \in Telling PROVE doing.row \in Rows
        BY <2>2 DEF Doings, Idle, Telling
    <2>3. shown' \in Rows \cup {None}
        BY <1>5, <2>2 DEF Wake, Tell
    <2> QED BY <1>5, <2>1, <2>3 DEF Wake, Ack
<1> QED BY <1>1, <1>2, <1>3, <1>4, <1>5 DEF Selecting4

\* New metadata, the timer daemon, the timer task, the session and the phone.
LEMMA OthersKeepTypes ==
    ASSUME TrackTypeOK,
           (\E row \in Rows \ {Start} : ApplyMetadata(row)) \/ TimersEnd \/ TimerTask \/ BtTask
    PROVE  TrackTypeOK'
<1> USE DEF TrackTypeOK, sessionVars, noticeVars, displayVars, Tell, Show, TellNothing
<1>a. timerQueue \in Seq(Messages) /\ Len(timerQueue) <= TimerQueueSize
    BY DEF Messages
<1>1. ASSUME NEW row \in Rows \ {Start}, ApplyMetadata(row) PROVE TrackTypeOK'
    <2>1. spent' \in [cmds : 0 .. MaxCmds, changes : 0 .. MaxChanges, ends : 0 .. MaxEnds]
        BY <1>1, TrackAssumption DEF ApplyMetadata
    <2>2. doing' \in Doings
        <3>1. CASE doing.step \notin Telling
            BY <1>1, <3>1 DEF ApplyMetadata, Overtakes
        <3>2. CASE doing.step \in Telling
            <4>1. doing \in [step : Telling, row : Rows, came : {"none", "started", "unscheduled"}]
                BY <3>2 DEF Doings, Idle, Telling
            <4> QED BY <1>1, <4>1 DEF ApplyMetadata, Overtakes, Doings
        <3> QED BY <3>1, <3>2
    <2> QED BY <1>1, <2>1, <2>2 DEF ApplyMetadata, Ack, Schedule
<1>2. CASE AckTimerEnds
    <2>1. Post(AckOf(ackTimer)) /\ AckOf(ackTimer) \in Messages
        BY <1>2 DEF AckTimerEnds, Messages
    <2>2. timerQueue' \in Seq(Messages) /\ Len(timerQueue') <= TimerQueueSize
        BY <1>a, <2>1, PostKeeps
    <2> QED BY <1>2, <2>2 DEF AckTimerEnds, Messages
<1>3. CASE NotifyTimerEnds
    <2>1. Post(Track) /\ Track \in Messages
        BY <1>3 DEF NotifyTimerEnds, Messages
    <2>2. timerQueue' \in Seq(Messages) /\ Len(timerQueue') <= TimerQueueSize
        BY <1>a, <2>1, PostKeeps
    <2> QED BY <1>3, <2>2 DEF NotifyTimerEnds, Messages
<1>4. CASE PositionTimerEnds
    <2>1. Post(Position) /\ Position \in Messages
        BY <1>4 DEF PositionTimerEnds, Messages
    <2>2. timerQueue' \in Seq(Messages) /\ Len(timerQueue') <= TimerQueueSize
        BY <1>a, <2>1, PostKeeps
    <2> QED BY <1>4, <2>2 DEF PositionTimerEnds, Messages
<1>5. ASSUME NEW which \in recent, RecentAges(which) PROVE TrackTypeOK'
    BY <1>5 DEF RecentAges
<1>6. ASSUME NEW id \in Deferred, TakeAck(id) PROVE TrackTypeOK'
    <2>1. timerQueue' \in Seq(Messages) /\ Len(timerQueue') <= TimerQueueSize
        BY <1>6, <1>a, TakeKeeps DEF TakeAck
    <2> QED BY <1>6, <2>1 DEF TakeAck, Take, Ack, Tell, Rows, Messages
<1>7. CASE TakeTrack
    <2>1. timerQueue' \in Seq(Messages) /\ Len(timerQueue') <= TimerQueueSize
        BY <1>7, <1>a, TakeKeeps DEF TakeTrack
    <2> QED BY <1>7, <2>1 DEF TakeTrack, Take, Rows, Messages
<1>8. CASE TakePosition
    <2>1. timerQueue' \in Seq(Messages) /\ Len(timerQueue') <= TimerQueueSize
        BY <1>8, <1>a, TakeKeeps DEF TakePosition
    <2> QED BY <1>8, <2>1 DEF TakePosition, Take, Messages
<1>9. ASSUME NEW playing \in BOOLEAN, PlayStateChanged(playing) PROVE TrackTypeOK'
    BY <1>9 DEF PlayStateChanged
<1>10. CASE SessionStarts
    BY <1>10 DEF SessionStarts
<1>11. CASE SessionSuspends
    BY <1>11 DEF SessionSuspends
<1>12. CASE SessionEnds
    <2>1. spent' \in [cmds : 0 .. MaxCmds, changes : 0 .. MaxChanges, ends : 0 .. MaxEnds]
        BY <1>12, TrackAssumption DEF SessionEnds
    <2> QED BY <1>12, <2>1 DEF SessionEnds
<1> QED
    BY <1>1, <1>2, <1>3, <1>4, <1>5, <1>6, <1>7, <1>8, <1>9, <1>10, <1>11, <1>12
    DEF TimersEnd, TimerTask, BtTask

LEMMA TypeStep == TrackTypeOK /\ [TrackNext]_trackVars => TrackTypeOK'
<1> SUFFICES ASSUME TrackTypeOK, [TrackNext]_trackVars PROVE TrackTypeOK'
    OBVIOUS
<1>1. CASE UNCHANGED trackVars
    BY <1>1 DEF trackVars, TrackTypeOK
<1>2. CASE TrackNext
    BY <1>2, CommandsKeepTypes, WakingKeepsTypes, OthersKeepTypes DEF TrackNext
<1> QED BY <1>1, <1>2

LEMMA TypeInit == TrackInit => TrackTypeOK
<1> SUFFICES ASSUME TrackInit PROVE TrackTypeOK
    OBVIOUS
<1>1. doing \in Doings
    BY DEF TrackInit, Doings
<1>2. spent \in [cmds : 0 .. MaxCmds, changes : 0 .. MaxChanges, ends : 0 .. MaxEnds]
    BY TrackAssumption DEF TrackInit
<1>3. Len(timerQueue) <= TimerQueueSize
    BY TrackAssumption DEF TrackInit
<1>4. timerQueue \in Seq({Track, Position} \cup {AckOf(id) : id \in Deferred})
    BY DEF TrackInit
<1> QED BY <1>1, <1>2, <1>3, <1>4 DEF TrackInit, TrackTypeOK, Rows

\* Every field of esPod and everything that is due keeps its type, for a car that waits or
\* not: currentTrackIndex is START_INDEX or invalid, and the car is never told an invalid
\* row.
THEOREM TrackTypeCorrect == TrackSpec => []TrackTypeOK
BY TypeInit, TypeStep, PTL DEF TrackSpec

(***************************************************************************)
(* The scheduled notification.                                             *)
(***************************************************************************)

\* Only scheduleNotification(), its timer, the timer task and the end of the session touch
\* what is scheduled; the rest at most adds to the queue or takes another message from it.
LEMMA ScheduledStep ==
    TrackTypeOK /\ ScheduledIsWatched /\ [TrackNext]_trackVars => ScheduledIsWatched'
<1> SUFFICES ASSUME TrackTypeOK, ScheduledIsWatched, [TrackNext]_trackVars
             PROVE  ScheduledIsWatched'
    OBVIOUS
<1> USE DEF ScheduledIsWatched, sessionVars, noticeVars
<1>a. timerQueue \in Seq(Messages) /\ Len(timerQueue) <= TimerQueueSize
    BY DEF TrackTypeOK, Messages
<1>b. ASSUME UNCHANGED <<noticeVars, timerQueue>> PROVE ScheduledIsWatched'
    BY <1>b DEF Posted
<1>c. ASSUME Schedule, UNCHANGED timerQueue PROVE ScheduledIsWatched'
    BY <1>c DEF Posted, Schedule
<1>d. ASSUME UNCHANGED noticeVars, \A w : w = Track /\ Posted(w) => Posted(w)'
      PROVE  ScheduledIsWatched'
    BY <1>d
<1>1. CASE Commands
    BY <1>1, <1>b, <1>c
    DEF Commands, EnterExtended, ExitExtended, Identify, Refuse, SetNotification, Select,
        Halt, TogglePlay, NextTrack, Play, OtherControl, AckFirst, Control
<1>2. CASE Selecting4 \/ Wake
    BY <1>2, <1>b, <1>c
    DEF Selecting4, SkipSet, SelectSame, SelectWaking, SelectMoving, Selecting, Wake
<1>3. CASE \E row \in Rows \ {Start} : ApplyMetadata(row)
    BY <1>3, <1>b, <1>c DEF ApplyMetadata
<1>4. CASE AckTimerEnds
    <2>1. Post(AckOf(ackTimer)) /\ AckOf(ackTimer) \in Messages
        BY <1>4 DEF AckTimerEnds, Messages, TrackTypeOK
    <2> QED BY <1>4, <1>a, <1>d, <2>1, PostKeeps DEF AckTimerEnds
<1>5. CASE NotifyTimerEnds
    <2>1. Post(Track) /\ Track \in Messages
        BY <1>5 DEF NotifyTimerEnds, Messages
    <2>2. Len(timerQueue) < TimerQueueSize => Posted(Track)'
        BY <1>a, <2>1, PostKeeps
    <2> QED BY <1>5, <2>2 DEF NotifyTimerEnds
<1>6. CASE PositionTimerEnds
    <2>1. Post(Position) /\ Position \in Messages
        BY <1>6 DEF PositionTimerEnds, Messages
    <2> QED BY <1>6, <1>a, <1>d, <2>1, PostKeeps DEF PositionTimerEnds
<1>7. ASSUME NEW which \in recent, RecentAges(which) PROVE ScheduledIsWatched'
    BY <1>7, <1>b DEF RecentAges
<1>8. ASSUME NEW id \in Deferred, TakeAck(id) PROVE ScheduledIsWatched'
    <2>1. Take(AckOf(id)) /\ AckOf(id) # Track /\ UNCHANGED noticeVars
        BY <1>8 DEF TakeAck, AckOf, Track
    <2> QED BY <1>a, <1>d, <2>1, TakeKeeps
<1>9. CASE TakeTrack
    BY <1>9 DEF TakeTrack
<1>10. CASE TakePosition
    <2>1. Take(Position) /\ Position # Track /\ UNCHANGED noticeVars
        BY <1>10 DEF TakePosition, Position, Track
    <2> QED BY <1>a, <1>d, <2>1, TakeKeeps
<1>11. CASE BtTask
    BY <1>11, <1>b DEF BtTask, PlayStateChanged, SessionStarts, SessionSuspends, SessionEnds
<1>12. CASE UNCHANGED trackVars
    BY <1>12, <1>b DEF trackVars
<1> QED
    BY <1>1, <1>2, <1>3, <1>4, <1>5, <1>6, <1>7, <1>8, <1>9, <1>10, <1>11, <1>12
    DEF TrackNext, TimersEnd, TimerTask

\* A notification that is due, which has every other one refused, has its timer running or
\* its message in the queue: the refusal ends, over full queues and ends of the session.
THEOREM ScheduledWatched == TrackSpec => []ScheduledIsWatched
<1>1. TrackInit => ScheduledIsWatched
    BY DEF TrackInit, ScheduledIsWatched
<1> QED BY <1>1, TrackTypeCorrect, ScheduledStep, PTL DEF TrackSpec

(***************************************************************************)
(* A row that is not the phone's track does not stay.                      *)
(***************************************************************************)

AckPosted == \E id \in Deferred : Posted(AckOf(id))

\* What moves the car back without an ack's timer that metadata may stop.
MoveDue == notifyTimer \/ Posted(Track) \/ AckPosted

Temporary == shown \notin {None, Start}

\* Only a car that listens is followed.
ListenInv ==
    /\ shown # None => notif /\ session # "Disabled"
    /\ session = "Disabled" => ~notif

\* While the process task sleeps no ack is posted, and none is due but that of the row it
\* is about to tell; metadata may have taken that one, and have a notification's timer run.
SleepInv ==
    /\ doing.step \in Telling \cup {"select", "ack"} => ~AckPosted
    /\ doing.step \in {"select", "ack"} => ackTimer = None
    /\ doing.step \in Telling =>
           ackTimer # None \/ session = "Disabled" \/ doing.came # "none"
    /\ doing.step \in Telling /\ doing.came = "started" => notifyTimer \/ session = "Disabled"

OnePosition ==
    \A i, j \in 1 .. Len(timerQueue) : timerQueue[i] = Position /\ timerQueue[j] = Position => i = j

\* Metadata stops an ack's timer and schedules nothing for a car without a track.
CursorInv == Temporary /\ ~adrift /\ cursor = Invalid => MoveDue

TemporaryInv ==
    TrackTypeOK /\ ScheduledIsWatched /\ ListenInv /\ SleepInv /\ OnePosition /\ CursorInv
    /\ TemporaryIsWatched

\* What a timer posts is all that comes in.
LEMMA PostAdds ==
    ASSUME timerQueue \in Seq(Messages), NEW m \in Messages, Post(m)
    PROVE  /\ \A w : Posted(w)' => Posted(w) \/ w = m
           /\ (m # Position \/ ~Posted(Position)) /\ OnePosition => OnePosition'
<1>1. CASE timerQueue' = timerQueue
    BY <1>1 DEF Posted, OnePosition
<1>2. CASE timerQueue' = Append(timerQueue, m)
    <2>1. /\ Len(timerQueue') = Len(timerQueue) + 1 /\ Len(timerQueue) \in Nat
          /\ \A i \in 1 .. Len(timerQueue) : timerQueue'[i] = timerQueue[i]
          /\ timerQueue'[Len(timerQueue) + 1] = m
        BY <1>2
    <2>2. \A i \in 1 .. Len(timerQueue') : i \in 1 .. Len(timerQueue) \/ i = Len(timerQueue) + 1
        BY <2>1
    <2>3. \A w : Posted(w)' => Posted(w) \/ w = m
        BY <2>1, <2>2 DEF Posted
    <2>4. ASSUME m # Position \/ ~Posted(Position), OnePosition PROVE OnePosition'
        <3> SUFFICES ASSUME NEW i \in 1 .. Len(timerQueue'), NEW j \in 1 .. Len(timerQueue'),
                            timerQueue'[i] = Position, timerQueue'[j] = Position
                     PROVE  i = j
            BY DEF OnePosition
        <3>1. CASE i \in 1 .. Len(timerQueue) /\ j \in 1 .. Len(timerQueue)
            BY <3>1, <2>1, <2>4 DEF OnePosition
        <3>2. CASE i = Len(timerQueue) + 1 /\ j = Len(timerQueue) + 1
            BY <3>2
        <3>3. CASE i \in 1 .. Len(timerQueue) /\ j = Len(timerQueue) + 1
            BY <3>3, <2>1, <2>4 DEF Posted
        <3>4. CASE i = Len(timerQueue) + 1 /\ j \in 1 .. Len(timerQueue)
            BY <3>4, <2>1, <2>4 DEF Posted
        <3> QED BY <2>2, <3>1, <3>2, <3>3, <3>4
    <2> QED BY <2>3, <2>4
<1> QED BY <1>1, <1>2 DEF Post

\* Nothing comes in with what the timer task takes.
LEMMA TakeAdds ==
    ASSUME timerQueue \in Seq(Messages), NEW m, Take(m)
    PROVE  /\ \A w : Posted(w)' => Posted(w)
           /\ OnePosition => OnePosition'
           /\ Posted(m)
<1>1. timerQueue # <<>> /\ timerQueue[1] = m /\ timerQueue' = Tail(timerQueue)
    BY DEF Take
<1>2. /\ Len(timerQueue') = Len(timerQueue) - 1 /\ Len(timerQueue) \in Nat \ {0}
      /\ \A i \in 1 .. Len(timerQueue') : timerQueue'[i] = timerQueue[i + 1]
    BY <1>1
<1>3. \A i \in 1 .. Len(timerQueue') : i + 1 \in 1 .. Len(timerQueue)
    BY <1>2
<1>4. \A w : Posted(w)' => Posted(w)
    BY <1>2, <1>3 DEF Posted
<1>5. ASSUME OnePosition PROVE OnePosition'
    <2> SUFFICES ASSUME NEW i \in 1 .. Len(timerQueue'), NEW j \in 1 .. Len(timerQueue'),
                        timerQueue'[i] = Position, timerQueue'[j] = Position
                 PROVE  i = j
        BY DEF OnePosition
    <2>1. i + 1 = j + 1
        BY <1>2, <1>3, <1>5 DEF OnePosition
    <2> QED BY <2>1, <1>2
<1>6. Posted(m)
    BY <1>1, <1>2 DEF Posted
<1> QED BY <1>4, <1>5, <1>6

\* A full queue holds something that moves the car back: play positions take one place.
LEMMA FullQueueMoves ==
    ASSUME timerQueue \in Seq(Messages), OnePosition, TimerQueueSize >= 2,
           ~(Len(timerQueue) < TimerQueueSize)
    PROVE  Posted(Track) \/ AckPosted
<1>1. Len(timerQueue) \in Nat /\ 1 \in 1 .. Len(timerQueue) /\ 2 \in 1 .. Len(timerQueue)
    BY TrackAssumption
<1>2. timerQueue[1] \in Messages /\ timerQueue[2] \in Messages
    BY <1>1
<1>3. timerQueue[1] # Position \/ timerQueue[2] # Position
    BY <1>1 DEF OnePosition
<1>4. PICK i \in 1 .. Len(timerQueue) : timerQueue[i] \in Messages /\ timerQueue[i] # Position
    BY <1>1, <1>2, <1>3
<1>5. timerQueue[i] = Track \/ \E id \in Deferred : timerQueue[i] = AckOf(id)
    BY <1>4 DEF Messages
<1> QED BY <1>5 DEF Posted, AckPosted

\* Posting for a timer leaves a move due, whether there is room or not.
LEMMA PostMoves ==
    ASSUME timerQueue \in Seq(Messages), Len(timerQueue) <= TimerQueueSize, OnePosition,
           TimerQueueSize >= 2,
           NEW m \in Messages \ {Position}, Post(m)
    PROVE  Posted(Track)' \/ AckPosted'
<1>1. CASE Len(timerQueue) < TimerQueueSize
    <2>1. Posted(m)'
        BY <1>1, PostKeeps
    <2> QED BY <2>1 DEF Messages, AckPosted
<1>2. CASE ~(Len(timerQueue) < TimerQueueSize)
    <2>1. timerQueue' = timerQueue
        BY <1>2 DEF Post
    <2>2. Posted(Track) \/ AckPosted
        BY <1>2, FullQueueMoves
    <2> QED BY <2>1, <2>2 DEF Posted, AckPosted
<1> QED BY <1>1, <1>2

\* What the car shows is followed for a car that listens, and forgotten with that.
LEMMA ListenStep ==
    ASSUME ListenInv, [TrackNext]_trackVars
    PROVE  ListenInv'
<1> USE DEF ListenInv, sessionVars, displayVars, TellNothing, Tell, Show
<1>a. ASSUME UNCHANGED <<session, notif, shown>> PROVE ListenInv'
    BY <1>a
<1>b. ASSUME UNCHANGED <<session, notif>>, NEW row, Tell(row) PROVE ListenInv'
    BY <1>b DEF Tell
<1>c. ASSUME UNCHANGED <<session, notif>>, shown' = None PROVE ListenInv'
    BY <1>c
<1>1. CASE Commands
    <2>1. CASE \/ EnterExtended \/ (\E id \in Deferred : Refuse(id)) \/ NextTrack \/ Play
               \/ OtherControl \/ (\E id \in Selections, row \in Rows : Select(id, row))
               \/ (\E status \in {"paused", "stopped"} : Halt(status))
               \/ (\E status \in {playStatus, "paused"} : AckFirst(status))
        BY <2>1, <1>a
        DEF EnterExtended, Refuse, NextTrack, Play, OtherControl, Select, Halt, AckFirst, Control
    <2>2. CASE ExitExtended
        BY <2>2 DEF ExitExtended
    <2>3. CASE Identify
        BY <2>3, <1>c DEF Identify
    <2>4. ASSUME NEW mode \in {"on", "off", "other"}, SetNotification(mode) PROVE ListenInv'
        BY <2>4 DEF SetNotification, Command
    <2>5. CASE TogglePlay
        BY <2>5, <1>a, <1>b DEF TogglePlay, Control
    <2> QED BY <1>1, <2>1, <2>2, <2>3, <2>4, <2>5 DEF Commands
<1>2. CASE Selecting4
    BY <1>2, <1>a, <1>b
    DEF Selecting4, SkipSet, SelectSame, SelectWaking, SelectMoving, Selecting
<1>3. CASE Wake
    BY <1>3, <1>a, <1>b, <1>c DEF Wake
<1>4. ASSUME NEW row \in Rows, ApplyMetadata(row) PROVE ListenInv'
    BY <1>4, <1>a, <1>b DEF ApplyMetadata
<1>5. CASE TimersEnd
    BY <1>5, <1>a
    DEF TimersEnd, AckTimerEnds, NotifyTimerEnds, PositionTimerEnds, RecentAges
<1>6. ASSUME NEW id \in Deferred, TakeAck(id) PROVE ListenInv'
    BY <1>6, <1>b DEF TakeAck, Take
<1>7. CASE TakeTrack \/ TakePosition
    BY <1>7, <1>a DEF TakeTrack, TakePosition, Take
<1>8. CASE BtTask
    BY <1>8, <1>a DEF BtTask, PlayStateChanged, SessionStarts, SessionSuspends, SessionEnds
<1>9. CASE UNCHANGED trackVars
    BY <1>9, <1>a DEF trackVars
<1> QED BY <1>1, <1>2, <1>3, <1>4, <1>5, <1>6, <1>7, <1>8, <1>9 DEF TrackNext, TimerTask

\* A patient car has every ack before the process task falls asleep for its next command;
\* while it sleeps only metadata takes the ack, and no timer started then can end.
LEMMA SleepStep ==
    ASSUME Patient, TrackTypeOK, SleepInv, [TrackNext]_trackVars
    PROVE  SleepInv'
<1> USE DEF sessionVars, noticeVars
<1>a. timerQueue \in Seq(Messages)
    BY DEF TrackTypeOK, Messages
<1>b. ASSUME UNCHANGED <<doing, session, ackTimer, notifyTimer, timerQueue>> PROVE SleepInv'
    BY <1>b DEF SleepInv, AckPosted, Posted
<1>c. ASSUME doing' = Idle \/ doing' = [step |-> "rest"] PROVE SleepInv'
    BY <1>c DEF SleepInv, Idle, Telling
<1>d. ASSUME UNCHANGED <<doing, session, ackTimer, notifyTimer>>, AckPosted' => AckPosted
      PROVE  SleepInv'
    BY <1>d DEF SleepInv
<1>e. ASSUME UNCHANGED <<timerQueue, session>>, ~AckPosted,
             \/ doing'.step \in {"select", "ack"} /\ ackTimer' = None
             \/ doing'.step \in Telling /\ doing'.came = "none" /\ ackTimer' # None
      PROVE  SleepInv'
    BY <1>e DEF SleepInv, AckPosted, Posted, Telling
<1>f. Command => ackTimer = None /\ ~AckPosted /\ doing = Idle
    BY DEF Command, Answered, AckPosted
<1>1. CASE Commands
    <2>1. CASE \/ EnterExtended \/ ExitExtended \/ Identify \/ OtherControl
               \/ (\E id \in Deferred : Refuse(id))
               \/ (\E mode \in {"on", "off", "other"} : SetNotification(mode))
        <3>1. doing' = Idle
            BY <2>1, <1>f
            DEF EnterExtended, ExitExtended, Identify, OtherControl, Refuse, SetNotification, Control
        <3> QED BY <3>1, <1>c
    <2>2. ASSUME NEW id \in Selections, NEW row \in Rows, Select(id, row) PROVE SleepInv'
        BY <2>2, <1>e, <1>f DEF Select, Selected
    <2>3. ASSUME NEW status \in {"paused", "stopped"}, Halt(status) PROVE SleepInv'
        BY <2>3, <1>e, <1>f DEF Halt, Control
    <2>4. CASE TogglePlay
        BY <2>4, <1>e, <1>f DEF TogglePlay, Control
    <2>5. CASE NextTrack
        BY <2>5, <1>e, <1>f DEF NextTrack, Control, Defer, None, Telling
    <2>6. CASE Play \/ \E status \in {playStatus, "paused"} : AckFirst(status)
        BY <2>6, <1>c DEF Play, AckFirst
    <2> QED BY <1>1, <2>1, <2>2, <2>3, <2>4, <2>5, <2>6 DEF Commands
<1>2. CASE Selecting4
    <2>1. ASSUME NEW id \in Selections, SelectMoving(id) PROVE SleepInv'
        <3>1. doing'.step = "tell" /\ doing'.came = "none" /\ ackTimer' = id /\ id # None
            BY <2>1 DEF SelectMoving, Defer, Selections, None
        <3>2. ~AckPosted
            BY <2>1 DEF SelectMoving, Selecting, SleepInv
        <3> QED BY <2>1, <3>1, <3>2, <1>e DEF SelectMoving, Selecting, Telling
    <2>2. CASE SkipSet \/ \E id \in Selections : SelectSame(id) \/ SelectWaking(id)
        BY <2>2, <1>c DEF SkipSet, SelectSame, SelectWaking
    <2> QED BY <1>2, <2>1, <2>2 DEF Selecting4
<1>3. CASE Wake
    BY <1>3, <1>c DEF Wake
<1>4. ASSUME NEW row \in Rows, ApplyMetadata(row) PROVE SleepInv'
    <2>1. UNCHANGED <<session, timerQueue>> /\ (AckPosted <=> AckPosted')
        BY <1>4 DEF ApplyMetadata, AckPosted, Posted
    <2>2. ackTimer' = None \/ ackTimer' = ackTimer
        BY <1>4 DEF ApplyMetadata, Ack
    <2>3. notifyTimer => notifyTimer'
        BY <1>4 DEF ApplyMetadata, Schedule
    <2>4. CASE doing.step \notin Telling
        <3>1. doing' = doing
            BY <1>4, <2>4 DEF ApplyMetadata, Overtakes
        <3> QED BY <2>1, <2>2, <2>4, <3>1 DEF SleepInv, Telling
    <2>5. CASE doing.step \in Telling
        <3>1. doing \in [step : Telling, row : Rows, came : {"none", "started", "unscheduled"}]
            BY <2>5 DEF TrackTypeOK, Doings, Idle, Telling
        <3>2. doing'.step = doing.step /\ doing'.came # "none"
            BY <1>4, <2>5, <3>1 DEF ApplyMetadata, Overtakes
        <3>3. doing'.came = "started" => doing.came = "started" \/ notifyTimer'
            BY <1>4, <2>5, <3>1 DEF ApplyMetadata, Overtakes, MovesTheCar, Schedule
        <3> QED BY <2>1, <2>2, <2>3, <2>5, <3>2, <3>3 DEF SleepInv, Telling
    <2> QED BY <2>4, <2>5
<1>5. CASE AckTimerEnds
    BY <1>5 DEF AckTimerEnds, SleepInv, Telling
<1>6. CASE NotifyTimerEnds
    <2>1. Post(Track) /\ Track \in Messages /\ \A id \in Deferred : AckOf(id) # Track
        BY <1>6 DEF NotifyTimerEnds, Messages, AckOf, Track
    <2>2. AckPosted' => AckPosted
        BY <2>1, <1>a, PostAdds DEF AckPosted
    <2> QED BY <1>6, <2>2 DEF NotifyTimerEnds, SleepInv
<1>7. CASE PositionTimerEnds
    <2>1. Post(Position) /\ Position \in Messages /\ \A id \in Deferred : AckOf(id) # Position
        BY <1>7 DEF PositionTimerEnds, Messages, AckOf, Position
    <2>2. AckPosted' => AckPosted
        BY <2>1, <1>a, PostAdds DEF AckPosted
    <2> QED BY <1>7, <2>2, <1>d DEF PositionTimerEnds
<1>8. ASSUME NEW which \in recent, RecentAges(which) PROVE SleepInv'
    BY <1>8, <1>b DEF RecentAges
<1>9. ASSUME NEW id \in Deferred, TakeAck(id) PROVE SleepInv'
    <2>1. Posted(AckOf(id))
        BY <1>9, <1>a, TakeAdds DEF TakeAck
    <2>2. doing.step \notin Telling \cup {"select", "ack"} /\ doing' = doing
        BY <2>1, <1>9 DEF SleepInv, AckPosted, TakeAck, Take
    <2> QED BY <2>2 DEF SleepInv, Telling
<1>10. CASE TakeTrack \/ TakePosition
    <2>1. AckPosted' => AckPosted
        BY <1>10, <1>a, TakeAdds DEF TakeTrack, TakePosition, AckPosted
    <2> QED BY <1>10, <2>1, <1>d DEF TakeTrack, TakePosition, Take
<1>11. CASE SessionEnds
    BY <1>11 DEF SessionEnds, SleepInv, AckPosted, Posted
<1>12. CASE SessionStarts
    BY <1>12, <1>c DEF SessionStarts
<1>13. CASE SessionSuspends
    BY <1>13 DEF SessionSuspends, SleepInv, AckPosted, Posted
<1>14. ASSUME NEW on \in BOOLEAN, PlayStateChanged(on) PROVE SleepInv'
    BY <1>14, <1>b DEF PlayStateChanged
<1>15. CASE UNCHANGED trackVars
    BY <1>15, <1>b DEF trackVars
<1> QED
    BY <1>1, <1>2, <1>3, <1>4, <1>5, <1>6, <1>7, <1>8, <1>9, <1>10, <1>11, <1>12, <1>13, <1>14,
       <1>15
    DEF TrackNext, TimersEnd, TimerTask, BtTask

\* The timer of the play position waits until its last message is taken.
LEMMA PositionStep ==
    ASSUME TrackTypeOK, OnePosition, [TrackNext]_trackVars
    PROVE  OnePosition'
<1>a. timerQueue \in Seq(Messages)
    BY DEF TrackTypeOK, Messages
<1>b. ASSUME UNCHANGED timerQueue PROVE OnePosition'
    BY <1>b DEF OnePosition
<1>1. CASE Commands \/ Selecting4 \/ Wake \/ (\E row \in Rows : ApplyMetadata(row)) \/ BtTask
    BY <1>1, <1>b
    DEF Commands, EnterExtended, ExitExtended, Identify, Refuse, SetNotification, Select, Halt,
        TogglePlay, NextTrack, Play, OtherControl, AckFirst, Control, Selecting4, SkipSet,
        SelectSame, SelectWaking, SelectMoving, Selecting, Wake, ApplyMetadata, BtTask,
        PlayStateChanged, SessionStarts, SessionSuspends, SessionEnds
<1>2. CASE AckTimerEnds
    <2>1. Post(AckOf(ackTimer)) /\ AckOf(ackTimer) \in Messages /\ AckOf(ackTimer) # Position
        BY <1>2 DEF AckTimerEnds, TrackTypeOK, Messages, AckOf, Position
    <2> QED BY <2>1, <1>a, PostAdds
<1>3. CASE NotifyTimerEnds
    <2>1. Post(Track) /\ Track \in Messages /\ Track # Position
        BY <1>3 DEF NotifyTimerEnds, Messages, Track, Position
    <2> QED BY <2>1, <1>a, PostAdds
<1>4. CASE PositionTimerEnds
    <2>1. Post(Position) /\ Position \in Messages /\ ~Posted(Position)
        BY <1>4 DEF PositionTimerEnds, Messages
    <2> QED BY <2>1, <1>a, PostAdds
<1>5. CASE TimerTask
    BY <1>5, <1>a, TakeAdds DEF TimerTask, TakeAck, TakeTrack, TakePosition
<1>6. ASSUME NEW which \in recent, RecentAges(which) PROVE OnePosition'
    BY <1>6, <1>b DEF RecentAges
<1>7. CASE UNCHANGED trackVars
    BY <1>7, <1>b DEF trackVars
<1> QED BY <1>1, <1>2, <1>3, <1>4, <1>5, <1>6, <1>7 DEF TrackNext, TimersEnd

\* A car told another row has a notification behind it, or the timer of the ack that was
\* started before it; what stops that timer either schedules a notification or finds one.
LEMMA MoveStep ==
    ASSUME Patient, TimerQueueSize >= 2, TemporaryInv, [TrackNext]_trackVars
    PROVE  CursorInv' /\ TemporaryIsWatched'
<1> DEFINE Goal == CursorInv' /\ TemporaryIsWatched'
<1> USE DEF sessionVars, noticeVars, displayVars
<1>i. /\ TrackTypeOK /\ ScheduledIsWatched /\ ListenInv /\ SleepInv /\ OnePosition /\ CursorInv
      /\ TemporaryIsWatched
      /\ timerQueue \in Seq(Messages) /\ Len(timerQueue) <= TimerQueueSize
    BY DEF TemporaryInv, TrackTypeOK, Messages
<1>a. ASSUME shown' \in {None, Start} PROVE Goal
    BY <1>a DEF CursorInv, TemporaryIsWatched, Temporary
<1>b. ASSUME UNCHANGED displayVars, MoveDue => MoveDue', cursor' = Invalid => cursor = Invalid,
             ackTimer # None => ackTimer' # None
      PROVE  Goal
    BY <1>b, <1>i DEF CursorInv, TemporaryIsWatched, Temporary, MoveDue, AckPosted
<1>c. ASSUME MoveDue' PROVE Goal
    BY <1>c DEF CursorInv, TemporaryIsWatched, MoveDue, AckPosted
<1>d. ASSUME UNCHANGED <<noticeVars, timerQueue>> PROVE MoveDue <=> MoveDue'
    BY <1>d DEF MoveDue, AckPosted, Posted
<1>e. ASSUME Schedule, UNCHANGED timerQueue PROVE MoveDue'
    BY <1>e, <1>i DEF Schedule, ScheduledIsWatched, MoveDue, Posted
<1>f. ASSUME UNCHANGED <<displayVars, noticeVars, timerQueue>>, cursor' = cursor \/ cursor' = Start,
             ackTimer = None \/ ackTimer' # None
      PROVE  Goal
    BY <1>b, <1>d, <1>f DEF Invalid, Start
<1>g. Command => ackTimer = None
    BY DEF Command, Answered
<1>1. CASE Commands
    <2>1. CASE \/ EnterExtended \/ OtherControl \/ (\E id \in Deferred : Refuse(id))
               \/ (\E id \in Selections, row \in Rows : Select(id, row))
               \/ (\E status \in {"paused", "stopped"} : Halt(status))
               \/ NextTrack \/ Play
               \/ (\E status \in {playStatus, "paused"} : AckFirst(status))
        <3>1. Command /\ UNCHANGED <<displayVars, noticeVars, timerQueue, cursor>>
            BY <2>1
            DEF EnterExtended, OtherControl, Refuse, Select, Halt, NextTrack, Play, AckFirst,
                Control
        <3> QED BY <3>1, <1>f, <1>g
    <2>2. CASE ExitExtended \/ Identify
        BY <2>2, <1>a DEF ExitExtended, Identify, TellNothing
    <2>3. ASSUME NEW mode \in {"on", "off", "other"}, SetNotification(mode) PROVE Goal
        <3>1. UNCHANGED displayVars \/ shown' = None
            BY <2>3 DEF SetNotification, TellNothing
        <3> QED BY <2>3, <3>1, <1>a, <1>f, <1>g DEF SetNotification, Command
    <2>4. CASE TogglePlay
        <3>1. CASE cursor = Invalid
            BY <2>4, <3>1, <1>c, <1>e DEF TogglePlay, Control
        <3>2. CASE cursor # Invalid
            BY <2>4, <3>2, <1>f DEF TogglePlay, Control
        <3> QED BY <3>1, <3>2
    <2> QED BY <1>1, <2>1, <2>2, <2>3, <2>4 DEF Commands
<1>2. CASE Selecting4
    <2>1. ackTimer = None
        BY <1>2, <1>i
        DEF Selecting4, SkipSet, SelectSame, SelectWaking, SelectMoving, Selecting, SleepInv
    <2>2. CASE SkipSet
        BY <2>1, <2>2, <1>f DEF SkipSet, Selecting
    <2>3. ASSUME NEW id \in Selections, SelectSame(id) PROVE Goal
        BY <2>3, <1>a DEF SelectSame, Tell, Show
    <2>4. ASSUME NEW id \in Selections, SelectWaking(id) PROVE Goal
        BY <2>4, <1>c, <1>e DEF SelectWaking, Selecting
    <2>5. ASSUME NEW id \in Selections, SelectMoving(id) PROVE Goal
        BY <2>1, <2>5, <1>f DEF SelectMoving, Selecting
    <2> QED BY <1>2, <2>2, <2>3, <2>4, <2>5 DEF Selecting4
<1>3. CASE Wake
    <2>1. CASE doing.step \in Telling /\ shown' # None
        <3>1. ackTimer' = ackTimer /\ UNCHANGED <<cursor, noticeVars, timerQueue>>
            BY <1>3, <2>1 DEF Wake, Telling
        <3>2. CASE UNCHANGED displayVars
            BY <3>1, <3>2, <1>f
        <3>3. CASE ~UNCHANGED displayVars
            <4>1. cursor # Invalid /\ Show(doing.row) /\ adrift' = (doing.came = "unscheduled")
                BY <1>3, <2>1, <3>3 DEF Wake, Telling, TellNothing
            <4>2. session # "Disabled"
                BY <2>1, <4>1 DEF Show
            <4>3. ackTimer # None \/ doing.came # "none"
                BY <2>1, <4>2, <1>i DEF SleepInv
            <4>4. doing.came = "started" => notifyTimer
                BY <2>1, <4>2, <1>i DEF SleepInv
            <4>5. doing.came \in {"none", "started", "unscheduled"}
                BY <2>1, <1>i DEF TrackTypeOK, Doings, Idle, Telling
            <4> QED BY <3>1, <4>1, <4>3, <4>4, <4>5 DEF CursorInv, TemporaryIsWatched
        <3> QED BY <3>2, <3>3
    <2>2. CASE doing.step = "ack"
        BY <1>3, <2>2, <1>f, <1>i DEF Wake, SleepInv
    <2>3. CASE doing.step = "rest"
        BY <1>3, <2>3, <1>f DEF Wake
    <2>4. CASE shown' = None
        BY <2>4, <1>a
    <2> QED BY <1>3, <2>1, <2>2, <2>3, <2>4 DEF Wake, Telling
<1>4. ASSUME NEW row \in Rows, ApplyMetadata(row) PROVE Goal
    <2>1. CASE notif /\ cursor # Invalid
        BY <1>4, <2>1, <1>c, <1>e DEF ApplyMetadata, MovesTheCar
    <2>2. CASE ~notif
        <3>1. shown' = None
            BY <1>4, <2>2, <1>i DEF ApplyMetadata, MovesTheCar, ListenInv
        <3> QED BY <3>1, <1>a
    <2>3. CASE notif /\ cursor = Invalid
        <3>1. UNCHANGED <<displayVars, noticeVars, timerQueue, cursor>>
            BY <1>4, <2>3 DEF ApplyMetadata, MovesTheCar
        <3>2. ~Temporary \/ adrift \/ MoveDue
            BY <2>3, <1>i DEF CursorInv
        <3>3. CASE adrift
            BY <3>1, <3>3 DEF CursorInv, TemporaryIsWatched
        <3> QED BY <3>1, <3>2, <3>3, <1>a, <1>c, <1>d DEF Temporary
    <2> QED BY <2>1, <2>2, <2>3
<1>5. CASE AckTimerEnds
    <2>1. Post(AckOf(ackTimer)) /\ AckOf(ackTimer) \in Messages \ {Position}
        BY <1>5, <1>i DEF AckTimerEnds, TrackTypeOK, Messages, AckOf, Position
    <2>2. Posted(Track)' \/ AckPosted'
        BY <2>1, <1>i, PostMoves
    <2> QED BY <2>2, <1>c DEF MoveDue
<1>6. CASE NotifyTimerEnds
    <2>1. Post(Track) /\ Track \in Messages \ {Position}
        BY <1>6 DEF NotifyTimerEnds, Messages, Track, Position
    <2>2. Posted(Track)' \/ AckPosted'
        BY <2>1, <1>i, PostMoves
    <2> QED BY <2>2, <1>c DEF MoveDue
<1>7. CASE PositionTimerEnds
    <2>1. Post(Position) /\ Position \in Messages
        BY <1>7 DEF PositionTimerEnds, Messages
    <2>2. \A w : Posted(w) => Posted(w)'
        BY <2>1, <1>i, PostKeeps
    <2>3. MoveDue => MoveDue'
        BY <2>2, <1>7 DEF MoveDue, AckPosted, PositionTimerEnds
    <2> QED BY <2>3, <1>7, <1>b DEF PositionTimerEnds
<1>8. CASE (\E which \in recent : RecentAges(which)) \/ UNCHANGED trackVars
    BY <1>8, <1>f DEF RecentAges, trackVars
<1>9. ASSUME NEW id \in Deferred, TakeAck(id) PROVE Goal
    BY <1>9, <1>a DEF TakeAck, Tell, Show
<1>10. CASE TakeTrack
    <2>1. shown' = Start \/ shown' = None
        BY <1>10, <1>i DEF TakeTrack, ListenInv, Tell, Show
    <2> QED BY <2>1, <1>a
<1>11. CASE TakePosition
    <2>1. /\ Take(Position) /\ Track # Position /\ \A id \in Deferred : AckOf(id) # Position
        BY <1>11 DEF TakePosition, Track, Position, AckOf
    <2>2. \A w : w # Position /\ Posted(w) => Posted(w)'
        BY <2>1, <1>i, TakeKeeps
    <2>3. MoveDue => MoveDue'
        BY <2>1, <2>2, <1>11 DEF MoveDue, AckPosted, TakePosition
    <2> QED BY <2>3, <1>11, <1>b DEF TakePosition
<1>12. CASE BtTask
    BY <1>12, <1>a, <1>f DEF TellNothing, BtTask, PlayStateChanged, SessionStarts, SessionSuspends, SessionEnds
<1> QED
    BY <1>1, <1>2, <1>3, <1>4, <1>5, <1>6, <1>7, <1>8, <1>9, <1>10, <1>11, <1>12
    DEF TrackNext, TimersEnd, TimerTask

\* A car that listens is not left on a row that is not the phone's track: for a car that
\* waits, and two places of the queue of which a play position may take one, something that
\* moves it back is under way, whenever metadata comes.  The one exception is TemporaryIsWatched's
\* own: a row told behind a key press in which metadata took its ack and scheduled nothing.
THEOREM TemporaryWatched ==
    ASSUME Patient, TimerQueueSize >= 2
    PROVE  TrackSpec => []TemporaryIsWatched
<1>1. TrackInit => TemporaryInv
    <2> SUFFICES ASSUME TrackInit PROVE TemporaryInv
        OBVIOUS
    <2>1. TrackTypeOK
        BY TypeInit
    <2>2. SleepInv
        BY DEF TrackInit, SleepInv, Idle, Telling
    <2> QED
        BY <2>1, <2>2 DEF TemporaryInv, TrackInit, ScheduledIsWatched, ListenInv, OnePosition,
           CursorInv, TemporaryIsWatched, Temporary
<1>2. TemporaryInv /\ [TrackNext]_trackVars => TemporaryInv'
    <2> SUFFICES ASSUME TemporaryInv, [TrackNext]_trackVars PROVE TemporaryInv'
        OBVIOUS
    <2> QED
        BY TypeStep, ScheduledStep, ListenStep, SleepStep, PositionStep, MoveStep
        DEF TemporaryInv
<1>3. TemporaryInv => TemporaryIsWatched
    BY DEF TemporaryInv
<1> QED BY <1>1, <1>2, <1>3, PTL DEF TrackSpec
=============================================================================
