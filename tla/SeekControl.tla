----------------------------- MODULE SeekControl -----------------------------
(***************************************************************************)
(* Fast forward and rewind (src/src/esPod.cpp).  The car's seek commands   *)
(* are turned into key presses on the phone: in the mode "hold" the key is *)
(* pressed and released with the car's, in "click" a timer clicks it, and  *)
(* in "volume" the timer moves the volume instead, which presses no key.   *)
(*                                                                         *)
(*   process task   firePbCmdTimer() and, for the gesture of two shuffle   *)
(*                  toggles, cycleSeekMode()                               *)
(*   timer daemon   posts a message every 250 ms while the timer runs      *)
(*   timer task     takes it: counts the hold and ends one that is too     *)
(*                  long, or clicks, which takes 100 ms                    *)
(*   BT task        suspends, resumes and ends the session                 *)
(*                                                                         *)
(* The process task and the timer task share a core and the process task   *)
(* has the higher priority: it is atomic to the timer task, and may run    *)
(* between any two of its steps, which are split at its accesses to shared *)
(* fields and where it sleeps.                                             *)
(* A change of the session is one step.                                    *)
(* The session is Enabled exactly while a phone is linked: the exceptions  *)
(* are the subject of EspodLink.                                           *)
(***************************************************************************)
EXTENDS Integers, Sequences

CONSTANTS
    MaxHoldTicks,     \* MAX_SEEK_HOLD_TICKS (120)
    TimerQueueSize    \* room for these messages in _timerQueue (at most 10)

ASSUME SeekAssumption ==
    /\ MaxHoldTicks \in Nat \ {0}
    /\ TimerQueueSize \in Nat \ {0}

VARIABLES
    session,      \* esPod's _state
    seekMode,     \* _seekMode
    pbCmd,        \* _pbCmd, None for 0x00
    ticks,        \* _pbCmdTickCount
    timerOn,      \* TRUE while _pbCmdTimer runs
    timerQueue,   \* the timer's messages in _timerQueue, each the _pbCmd of its time
    timerPc,      \* where the timer task stands
    clicking,     \* the key the timer task is clicking, or None
    toggled,      \* shuffle was toggled within SHUFFLE_TOGGLE_WINDOW_MS
    pressed,      \* the keys the phone takes to be held down
    slipped       \* history: those of them that the car pressed after the watchdog's
                  \* release and before its last statement

seekVars == <<session, seekMode, pbCmd, ticks, timerOn, timerQueue, timerPc, clicking,
              toggled, pressed, slipped>>

None == "none"
Keys == {"FF", "RW"}
SeekModes == {"volume", "click", "hold"}
NextMode == [volume |-> "click", click |-> "hold", hold |-> "volume"]
Watchdog == {"release", "clear", "stop"}

SeekInit ==
    /\ session = "Disabled"
    /\ seekMode \in SeekModes
    /\ pbCmd = None
    /\ ticks = 0
    /\ timerOn = FALSE
    /\ timerQueue = <<>>
    /\ timerPc = "idle"
    /\ clicking = None
    /\ toggled = FALSE
    /\ pressed = {}
    /\ slipped = {}

\* The phone has seen PRESSED, or RELEASED, for a key; with no link it sees neither.
Press(k) == IF session = "Enabled" THEN {k} ELSE {}

\* The phone has seen RELEASED for a key.
Release(k) == pressed' = pressed \ {k} /\ slipped' = slipped \ {k}

\* endFastForward() or endRewind() for a key that esPod remembers, then PRESSED for k.
Replace(k) ==
    /\ pressed' = (pressed \ {pbCmd}) \cup Press(k)
    /\ slipped' = (slipped \ {pbCmd, k})
                     \cup (IF timerPc \in {"clear", "stop"} THEN Press(k) ELSE {})

-----------------------------------------------------------------------------
(* The process task, which takes no command while esPod is Disabled.       *)

Processing == session # "Disabled"

\* A wrong SeekHold: a repeated command restarts the count.
SeekHoldRecounts(k) ==
    /\ Processing /\ seekMode = "hold"
    /\ Replace(k)
    /\ pbCmd' = k
    /\ ticks' = 0
    /\ timerOn' = TRUE
    /\ UNCHANGED <<session, seekMode, timerQueue, timerPc, clicking, toggled>>

\* The car seeks in the mode "hold"; the key that is held already is left alone.
SeekHold(k) ==
    /\ Processing /\ seekMode = "hold"
    /\ pbCmd # k
    /\ Replace(k)
    /\ pbCmd' = k
    /\ ticks' = 0
    /\ timerOn' = TRUE
    /\ UNCHANGED <<session, seekMode, timerQueue, timerPc, clicking, toggled>>

SeekClick(k) ==
    /\ Processing /\ seekMode # "hold"
    /\ pbCmd' = k
    /\ timerOn' = TRUE
    /\ UNCHANGED <<session, seekMode, ticks, timerQueue, timerPc, clicking, toggled,
                   pressed, slipped>>

StopSeek ==
    /\ Processing
    /\ IF seekMode = "hold" THEN Release(pbCmd) ELSE UNCHANGED <<pressed, slipped>>
    /\ pbCmd' = None
    /\ timerOn' = FALSE
    /\ UNCHANGED <<session, seekMode, ticks, timerQueue, timerPc, clicking, toggled>>

\* A wrong SetSeekMode: the key stays pressed.
SetSeekModeOnly(m) == seekMode' = m /\ UNCHANGED <<pressed, slipped>>

\* setSeekMode() leaves _pbCmd and the timer as they are.
SetSeekMode(m) ==
    /\ seekMode' = m
    /\ IF seekMode = "hold" THEN Release(pbCmd) ELSE UNCHANGED <<pressed, slipped>>

ToggleShuffle ==
    /\ Processing
    /\ toggled' = ~toggled
    /\ IF toggled THEN SetSeekMode(NextMode[seekMode])
       ELSE UNCHANGED <<seekMode, pressed, slipped>>
    /\ UNCHANGED <<session, pbCmd, ticks, timerOn, timerQueue, timerPc, clicking>>

\* The next toggle comes too late for the gesture.
ToggleAges ==
    /\ toggled
    /\ toggled' = FALSE
    /\ UNCHANGED <<session, seekMode, pbCmd, ticks, timerOn, timerQueue, timerPc, clicking,
                   pressed, slipped>>

-----------------------------------------------------------------------------
(* The timer daemon and the timer task.                                    *)

PbCmdTimer ==
    /\ timerOn
    /\ Len(timerQueue) < TimerQueueSize
    /\ timerQueue' = Append(timerQueue, pbCmd)
    /\ UNCHANGED <<session, seekMode, pbCmd, ticks, timerOn, timerPc, clicking, toggled,
                   pressed, slipped>>

TakeMessage ==
    /\ timerPc = "idle" /\ timerQueue # <<>>
    /\ timerQueue' = Tail(timerQueue)

\* A wrong Count: it passes the limit.
CountPast(n) == n + 1

\* A count beyond the limit is as good as the limit.
Count(n) == IF n < MaxHoldTicks THEN n + 1 ELSE n

CountHold ==
    /\ TakeMessage /\ seekMode = "hold"
    /\ ticks' = Count(ticks)
    /\ timerPc' = IF ticks' >= MaxHoldTicks THEN "release" ELSE "idle"
    /\ UNCHANGED <<session, seekMode, pbCmd, timerOn, clicking, toggled, pressed, slipped>>

WatchdogReleases ==
    /\ timerPc = "release"
    /\ Release(pbCmd)
    /\ timerPc' = "clear"
    /\ UNCHANGED <<session, seekMode, pbCmd, ticks, timerOn, timerQueue, clicking, toggled>>

WatchdogClears ==
    /\ timerPc = "clear"
    /\ pbCmd' = None
    /\ timerPc' = "stop"
    /\ UNCHANGED <<session, seekMode, ticks, timerOn, timerQueue, clicking, toggled,
                   pressed, slipped>>

WatchdogStops ==
    /\ timerPc = "stop"
    /\ timerOn' = FALSE
    /\ timerPc' = "idle"
    /\ UNCHANGED <<session, seekMode, pbCmd, ticks, timerQueue, clicking, toggled,
                   pressed, slipped>>

\* fast_forward() or rewind(), only while playing.
Click ==
    /\ TakeMessage /\ seekMode = "click"
    /\ Head(timerQueue) \in Keys
    /\ clicking' = Head(timerQueue)
    /\ pressed' = pressed \cup Press(clicking')
    /\ timerPc' = "click"
    /\ UNCHANGED <<session, seekMode, pbCmd, ticks, timerOn, toggled, slipped>>

ClickEnds ==
    /\ timerPc = "click"
    /\ Release(clicking)
    /\ clicking' = None
    /\ timerPc' = "idle"
    /\ UNCHANGED <<session, seekMode, pbCmd, ticks, timerOn, timerQueue, toggled>>

\* A change of the volume, a click that is not due, or one while paused.
NoClick ==
    /\ TakeMessage /\ seekMode # "hold"
    /\ UNCHANGED <<session, seekMode, pbCmd, ticks, timerOn, timerPc, clicking, toggled,
                   pressed, slipped>>

-----------------------------------------------------------------------------
(* The BT task.  A phone that is gone holds no key.                        *)

SessionStarts ==
    /\ session # "Enabled"
    /\ session' = "Enabled"
    /\ UNCHANGED <<seekMode, pbCmd, ticks, timerOn, timerQueue, timerPc, clicking, toggled,
                   pressed, slipped>>

\* _enterSuspended() stops the timer and keeps _pbCmd.
SessionSuspends ==
    /\ session = "Enabled"
    /\ session' = "Suspended"
    /\ pressed' = {}
    /\ slipped' = {}
    /\ timerOn' = FALSE
    /\ UNCHANGED <<seekMode, pbCmd, ticks, timerQueue, timerPc, clicking, toggled>>

\* resetState() clears _pbCmd too; neither touches the messages under way.
SessionEnds ==
    /\ session # "Disabled"
    /\ session' = "Disabled"
    /\ pressed' = {}
    /\ slipped' = {}
    /\ pbCmd' = None
    /\ timerOn' = FALSE
    /\ UNCHANGED <<seekMode, ticks, timerQueue, timerPc, clicking, toggled>>

-----------------------------------------------------------------------------

TimerTask ==
    \/ CountHold
    \/ WatchdogReleases
    \/ WatchdogClears
    \/ WatchdogStops
    \/ Click
    \/ ClickEnds
    \/ NoClick

SeekNext ==
    \/ \E k \in Keys : SeekHold(k)
    \/ \E k \in Keys : SeekClick(k)
    \/ StopSeek
    \/ ToggleShuffle
    \/ ToggleAges
    \/ PbCmdTimer
    \/ TimerTask
    \/ SessionStarts
    \/ SessionSuspends
    \/ SessionEnds

SeekSpec == SeekInit /\ [][SeekNext]_seekVars

\* The timer and its task run; the car and the phone owe us nothing.
SeekFairness == WF_seekVars(PbCmdTimer) /\ WF_seekVars(TimerTask)

FairSeekSpec == SeekSpec /\ SeekFairness

-----------------------------------------------------------------------------
(* Properties.                                                             *)

\* Every field keeps its type, and the count never passes the limit.
SeekTypeOK ==
    /\ session \in {"Disabled", "Suspended", "Enabled"}
    /\ seekMode \in SeekModes
    /\ pbCmd \in Keys \cup {None}
    /\ ticks \in 0..MaxHoldTicks
    /\ timerOn \in BOOLEAN
    /\ timerQueue \in Seq(Keys \cup {None})
    /\ timerPc \in {"idle", "click"} \cup Watchdog
    /\ clicking \in Keys \cup {None}
    /\ toggled \in BOOLEAN
    /\ pressed \subseteq Keys
    /\ slipped \subseteq Keys

\* A key the phone takes to be held is one esPod remembers and its watchdog counts, or
\* one of a click under way: through mode changes in mid-hold, link losses and messages
\* of earlier holds, no press loses its release.  The one exception is a key that the
\* car presses while the watchdog stands between its release (esPod.cpp:338) and its
\* last statement (341), which then forgets the new key or stops its timer.
PressGuarded ==
    \A k \in pressed \ slipped :
        clicking = k \/ (seekMode = "hold" /\ pbCmd = k /\ timerOn)

\* The watchdog of 120 ticks: whatever the car repeats or leaves out, no hold lasts for
\* ever, but one that slipped through the watchdog's last statements.
HoldEnds == \A k \in Keys : k \in pressed ~> k \notin pressed \/ k \in slipped

=============================================================================
