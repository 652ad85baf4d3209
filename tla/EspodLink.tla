------------------------------ MODULE EspodLink ------------------------------
(***************************************************************************)
(* The connection state machine of esPod (src/src/esPod.cpp): Disabled,    *)
(* Suspended and Enabled, driven by four tasks that share its fields.      *)
(*                                                                         *)
(*   BT task      the application task of the A2DP sink; it reports link   *)
(*                changes to esPod, one callback after the other           *)
(*   timer daemon the FreeRTOS service task; it runs timer callbacks,      *)
(*                which only post a message                                *)
(*   timer task   esPod::_timerTask; it takes those messages, one a time   *)
(*   main loop    loop() of main.cpp; it samples the state onto the DCD    *)
(*                pin and starts a forget when the reset key is held       *)
(*                                                                         *)
(* No lock guards the fields, so a callback that reads _state and then     *)
(* acts on it is split where another task can get in between.  _enterDisa- *)
(* bled is split between its assignment to _state and resetState().        *)
(*                                                                         *)
(* Time is counted in ticks.  A tick is long against the tasks' polling    *)
(* intervals (2 to 10 ms, platformio.ini) and short against a change of a  *)
(* Bluetooth link, so a tick waits until no task has work left, and at     *)
(* most one link change is reported in a tick.  Between two ticks every    *)
(* order of the tasks' steps is allowed.  A stop reaches a timer at once:  *)
(* the daemon that has not yet seen it and runs the callback is the case   *)
(* of a message already in the queue, since the callbacks read nothing.    *)
(***************************************************************************)
EXTENDS Integers, Sequences

CONSTANTS
    Peers,           \* Bluetooth addresses that may connect
    NoPeer,          \* "no address"
    SuspendTicks,    \* _suspendTimeoutSec (900 s)
    SettleTicks,     \* REENABLE_SETTLE_MS_DEFAULT (2.5 s)
    WindowTicks,     \* EXPLICIT_DISCONNECT_WINDOW_MS (5 s)
    TimerQueueSize   \* TIMER_QUEUE_SIZE (10)

ASSUME LinkAssumption ==
    /\ NoPeer \notin Peers
    /\ SuspendTicks \in Nat \ {0}
    /\ SettleTicks \in Nat \ {0}
    /\ WindowTicks \in Nat \ {0}
    /\ TimerQueueSize \in Nat
    /\ TimerQueueSize >= 2

VARIABLES
    state,          \* _state
    link,           \* the peer the sink last reported as connected, or NoPeer
    lastPeer,       \* _lastPeerAddress, NoPeer while ~_hasLastPeerAddress
    suspendTimer,   \* ticks left on _suspendTimer, or Off
    settleTimer,    \* ticks left on _reenableSettleTimer, or Off
    timerQueue,     \* the internal events waiting in _timerQueue
    forgetPending,  \* _explicitDisconnectPending
    forgetAge,      \* ticks since _explicitDisconnectRequestedAt, at most WindowTicks
    stamping,       \* the main loop has set the first and not yet the second
    btPc,           \* where the BT task stands in its callback
    timerPc,        \* where the timer task stands in its message
    dcd,            \* TRUE while the DCD pin shows the car an iPod
    moved,          \* a link change was reported since the last tick
    owedEdge        \* history: a new peer took over and DCD has not fallen since

linkVars == <<state, link, lastPeer, suspendTimer, settleTimer, timerQueue,
              forgetPending, forgetAge, stamping, btPc, timerPc, dcd, moved, owedEdge>>

EspodState == {"Disabled", "Suspended", "Enabled"}
Events == {"SuspendTimeout", "ReenableSettle"}
Off == -1

BtSteps == {"idle", "peerAddress", "resume", "replace", "replaceReset", "armSettle",
            "forgetReset"}
TimerSteps == {"idle", "reset"}

Queued(m) == \E i \in 1..Len(timerQueue) : timerQueue[i] = m

LinkInit ==
    /\ state = "Disabled"
    /\ link = NoPeer
    /\ lastPeer = NoPeer
    /\ suspendTimer = Off
    /\ settleTimer = Off
    /\ timerQueue = <<>>
    /\ forgetPending = FALSE
    /\ forgetAge = WindowTicks
    /\ stamping = FALSE
    /\ btPc = "idle"
    /\ timerPc = "idle"
    /\ dcd = FALSE
    /\ moved = FALSE
    /\ owedEdge = FALSE

-----------------------------------------------------------------------------
(* The three state changes.  Each constrains state and the two timers.     *)

\* A wrong EnterEnabled: it leaves the settle timer running.
EnterEnabledKeepsSettle ==
    /\ state' = "Enabled"
    /\ suspendTimer' = Off
    /\ UNCHANGED settleTimer

EnterEnabled ==
    /\ state' = "Enabled"
    /\ suspendTimer' = Off
    /\ settleTimer' = Off

\* A wrong EnterSuspended: it does not start the grace period.
EnterSuspendedUntimed ==
    /\ state' = "Suspended"
    /\ UNCHANGED <<suspendTimer, settleTimer>>

EnterSuspended ==
    /\ state' = "Suspended"
    /\ suspendTimer' = SuspendTicks
    /\ UNCHANGED settleTimer

\* _enterDisabled() as far as the assignment to _state.
EnterDisabled ==
    /\ state' = "Disabled"
    /\ suspendTimer' = Off
    /\ UNCHANGED settleTimer

\* The part of resetState() this machine sees: it stops every timer, the two
\* of this machine among them, and leaves _timerQueue and _state as they are.
ResetState ==
    /\ suspendTimer' = Off
    /\ settleTimer' = Off
    /\ UNCHANGED state

-----------------------------------------------------------------------------
(* The BT task.                                                            *)

\* CONNECTED reaches the source's callback: onConnectionStateChanged(Connected).
BtConnected(p) ==
    /\ btPc = "idle" /\ link = NoPeer /\ ~moved
    /\ link' = p
    /\ moved' = TRUE
    /\ btPc' = "peerAddress"
    /\ IF state = "Disabled"
       THEN EnterEnabled
       ELSE UNCHANGED <<state, suspendTimer, settleTimer>>
    /\ UNCHANGED <<lastPeer, timerQueue, forgetPending, forgetAge, timerPc, dcd, owedEdge, stamping>>

\* onPeerAddressChanged(), as far as its decision.
BtPeerAddress ==
    /\ btPc = "peerAddress"
    /\ lastPeer' = link
    /\ IF state # "Suspended"
       THEN /\ btPc' = "idle"
            /\ UNCHANGED suspendTimer
       ELSE /\ btPc' = IF lastPeer = link THEN "resume" ELSE "replace"
            /\ suspendTimer' = Off
    /\ UNCHANGED <<state, link, settleTimer, timerQueue, forgetPending, forgetAge,
                   timerPc, dcd, moved, owedEdge, stamping>>

\* The same peer came back.
BtResume ==
    /\ btPc = "resume"
    /\ EnterEnabled
    /\ btPc' = "idle"
    /\ UNCHANGED <<link, lastPeer, timerQueue, forgetPending, forgetAge, timerPc, dcd,
                   moved, owedEdge, stamping>>

\* Another peer came: Disabled first, then a pause before Enabled.
BtReplace ==
    /\ btPc = "replace"
    /\ EnterDisabled
    /\ btPc' = "replaceReset"
    /\ owedEdge' = dcd
    /\ UNCHANGED <<link, lastPeer, timerQueue, forgetPending, forgetAge, timerPc, dcd, moved, stamping>>

BtReset ==
    /\ btPc \in {"replaceReset", "forgetReset"}
    /\ ResetState
    /\ btPc' = IF btPc = "replaceReset" THEN "armSettle" ELSE "idle"
    /\ UNCHANGED <<link, lastPeer, timerQueue, forgetPending, forgetAge, timerPc, dcd,
                   moved, owedEdge, stamping>>

\* A wrong BtArmSettle: the new peer is let in without the pause.
BtEnableAtOnce ==
    /\ btPc = "armSettle"
    /\ EnterEnabled
    /\ btPc' = "idle"
    /\ UNCHANGED <<link, lastPeer, timerQueue, forgetPending, forgetAge, timerPc, dcd,
                   moved, owedEdge, stamping>>

\* A wrong BtArmSettle: it starts the timer with the other timer's period.
BtArmSettleForGrace ==
    /\ btPc = "armSettle"
    /\ settleTimer' = SuspendTicks
    /\ btPc' = "idle"
    /\ UNCHANGED <<state, link, lastPeer, suspendTimer, timerQueue, forgetPending,
                   forgetAge, timerPc, dcd, moved, owedEdge, stamping>>

BtArmSettle ==
    /\ btPc = "armSettle"
    /\ settleTimer' = SettleTicks
    /\ btPc' = "idle"
    /\ UNCHANGED <<state, link, lastPeer, suspendTimer, timerQueue, forgetPending,
                   forgetAge, timerPc, dcd, moved, owedEdge, stamping>>

\* A wrong BtDisconnected: every unexpected disconnect suspends, whatever the state.
BtDisconnectedAlwaysSuspends ==
    /\ btPc = "idle" /\ ~moved
    /\ link' = NoPeer
    /\ moved' = TRUE
    /\ forgetPending' = FALSE
    /\ IF forgetPending /\ forgetAge < WindowTicks
       THEN EnterDisabled /\ btPc' = "forgetReset"
       ELSE EnterSuspended /\ UNCHANGED btPc
    /\ UNCHANGED <<lastPeer, timerQueue, forgetAge, timerPc, dcd, owedEdge, stamping>>

\* DISCONNECTED: the link went down, or, with no link, an attempt to connect failed.
BtDisconnected ==
    LET explicit == forgetPending /\ forgetAge < WindowTicks IN
    /\ btPc = "idle" /\ ~moved
    /\ link' = NoPeer
    /\ moved' = TRUE
    /\ forgetPending' = FALSE
    /\ \/ /\ explicit
          /\ EnterDisabled
          /\ btPc' = "forgetReset"
       \/ /\ ~explicit /\ state = "Enabled"
          /\ EnterSuspended
          /\ UNCHANGED btPc
       \/ /\ ~explicit /\ state # "Enabled"
          /\ UNCHANGED <<state, suspendTimer, settleTimer, btPc>>
    /\ UNCHANGED <<lastPeer, timerQueue, forgetAge, timerPc, dcd, owedEdge, stamping>>

BtTask ==
    \/ BtPeerAddress \/ BtResume \/ BtReplace \/ BtReset \/ BtArmSettle

-----------------------------------------------------------------------------
(* The timer daemon and the timer task.                                    *)

\* xQueueSendFromISR() whose result nobody looks at.
Post(m) ==
    timerQueue' = IF Len(timerQueue) < TimerQueueSize
                  THEN Append(timerQueue, m) ELSE timerQueue

\* A wrong SuspendExpires: a phone that tries to come back keeps the session.
SuspendExpiresSilently ==
    /\ suspendTimer = 0
    /\ suspendTimer' = Off
    /\ IF moved THEN UNCHANGED timerQueue ELSE Post("SuspendTimeout")
    /\ UNCHANGED <<state, link, lastPeer, settleTimer, forgetPending, forgetAge, btPc,
                   timerPc, dcd, moved, owedEdge, stamping>>

SuspendExpires ==
    /\ suspendTimer = 0
    /\ suspendTimer' = Off
    /\ Post("SuspendTimeout")
    /\ UNCHANGED <<state, link, lastPeer, settleTimer, forgetPending, forgetAge, btPc,
                   timerPc, dcd, moved, owedEdge, stamping>>

SettleExpires ==
    /\ settleTimer = 0
    /\ settleTimer' = Off
    /\ Post("ReenableSettle")
    /\ UNCHANGED <<state, link, lastPeer, suspendTimer, forgetPending, forgetAge, btPc,
                   timerPc, dcd, moved, owedEdge, stamping>>

\* The message is acted on whatever has become of the state since it was posted.
TakeEvent ==
    /\ timerPc = "idle" /\ timerQueue # <<>>
    /\ timerQueue' = Tail(timerQueue)
    /\ \/ /\ Head(timerQueue) = "SuspendTimeout"
          /\ EnterDisabled
          /\ timerPc' = "reset"
       \/ /\ Head(timerQueue) = "ReenableSettle"
          /\ EnterEnabled
          /\ UNCHANGED timerPc
    /\ UNCHANGED <<link, lastPeer, forgetPending, forgetAge, btPc, dcd, moved, owedEdge, stamping>>

TimerReset ==
    /\ timerPc = "reset"
    /\ ResetState
    /\ timerPc' = "idle"
    /\ UNCHANGED <<link, lastPeer, timerQueue, forgetPending, forgetAge, btPc, dcd, moved,
                   owedEdge, stamping>>

TimerTask == TakeEvent \/ TimerReset

-----------------------------------------------------------------------------
(* The main loop.                                                          *)

DcdLevel == state # "Disabled"

SampleDcd ==
    /\ ~stamping /\ dcd # DcdLevel
    /\ dcd' = DcdLevel
    /\ owedEdge' = (owedEdge /\ DcdLevel)
    /\ UNCHANGED <<state, link, lastPeer, suspendTimer, settleTimer, timerQueue,
                   forgetPending, forgetAge, btPc, timerPc, moved, stamping>>

\* The key is held for ten seconds before each forget, longer than the window,
\* so the previous request has always aged out of it.
Forget ==
    /\ ~stamping /\ forgetAge = WindowTicks
    /\ forgetPending' = TRUE
    /\ stamping' = TRUE
    /\ UNCHANGED <<state, link, lastPeer, suspendTimer, settleTimer, timerQueue, forgetAge,
                   btPc, timerPc, dcd, moved, owedEdge>>

\* Until then a disconnect finds the request with the time of the one before.
StampForget ==
    /\ stamping
    /\ stamping' = FALSE
    /\ forgetAge' = 0
    /\ UNCHANGED <<state, link, lastPeer, suspendTimer, settleTimer, timerQueue, forgetPending,
                   btPc, timerPc, dcd, moved, owedEdge>>

-----------------------------------------------------------------------------
(* Time.                                                                   *)

\* No task has work left: the BT task and the timer task are idle, no timer is
\* due, and the main loop has set the time of its request and sampled the pin.
Quiet ==
    /\ btPc = "idle" /\ timerPc = "idle" /\ timerQueue = <<>>
    /\ suspendTimer # 0 /\ settleTimer # 0
    /\ ~stamping /\ dcd = DcdLevel

Elapse(t) == IF t = Off THEN Off ELSE t - 1

Tick ==
    /\ Quiet
    /\ suspendTimer' = Elapse(suspendTimer)
    /\ settleTimer' = Elapse(settleTimer)
    /\ forgetAge' = IF forgetAge < WindowTicks THEN forgetAge + 1 ELSE forgetAge
    /\ moved' = FALSE
    /\ UNCHANGED <<state, link, lastPeer, timerQueue, forgetPending, btPc, timerPc, dcd,
                   owedEdge, stamping>>

-----------------------------------------------------------------------------

LinkNext ==
    \/ \E p \in Peers : BtConnected(p)
    \/ BtDisconnected
    \/ BtPeerAddress
    \/ BtResume
    \/ BtReplace
    \/ BtReset
    \/ BtArmSettle
    \/ SuspendExpires
    \/ SettleExpires
    \/ TakeEvent
    \/ TimerReset
    \/ SampleDcd
    \/ Forget
    \/ StampForget
    \/ Tick

LinkSpec == LinkInit /\ [][LinkNext]_linkVars

\* The tasks run and time passes; the user and the phones owe us nothing.
LinkFairness ==
    /\ WF_linkVars(BtTask)
    /\ WF_linkVars(TimerTask)
    /\ WF_linkVars(SuspendExpires)
    /\ WF_linkVars(SettleExpires)
    /\ WF_linkVars(SampleDcd \/ StampForget)
    /\ WF_linkVars(Tick)

FairLinkSpec == LinkSpec /\ LinkFairness

-----------------------------------------------------------------------------
(* Properties.                                                             *)

\* Every field keeps its type, and a timer never shows more than its period.
LinkTypeOK ==
    /\ state \in EspodState
    /\ link \in Peers \cup {NoPeer}
    /\ lastPeer \in Peers \cup {NoPeer}
    /\ suspendTimer \in Off..SuspendTicks
    /\ settleTimer \in Off..SettleTicks
    /\ timerQueue \in Seq(Events)
    /\ forgetPending \in BOOLEAN
    /\ forgetAge \in 0..WindowTicks
    /\ stamping \in BOOLEAN
    /\ btPc \in BtSteps
    /\ timerPc \in TimerSteps
    /\ dcd \in BOOLEAN
    /\ moved \in BOOLEAN
    /\ owedEdge \in BOOLEAN

\* A suspended session is never abandoned: its timer runs, or its timeout waits in the
\* queue, or the BT task has stopped the timer and is about to leave the state.
SuspendWatched ==
    state = "Suspended" =>
        \/ suspendTimer # Off
        \/ Queued("SuspendTimeout")
        \/ btPc \in {"resume", "replace"}

\* Neither timer outlives the state it was started for: whatever task left that state
\* stopped it, so a later session is not cut or opened by an earlier one's timer.
NoStrayTimer ==
    /\ suspendTimer # Off => state = "Suspended"
    /\ settleTimer # Off => state = "Disabled"

\* When another phone takes over a suspended session, the car sees DCD fall before it
\* is offered the new one, although the pin is only sampled by a polling loop.
FallingEdge == owedEdge => state # "Enabled"

\* A failed attempt to reconnect does not restart the grace period of a suspended
\* session (the early return of _handleBtDisconnected).
GraceNotRestarted ==
    [][state = "Suspended" /\ state' = "Suspended" => suspendTimer' <= suspendTimer]_linkVars

\* A suspended session ends: it is resumed, replaced or given up.
SuspendEnds == state = "Suspended" ~> state # "Suspended"

\* esPod_conf.h: after an unexpected disconnect esPod stays Suspended before finally
\* going Disabled.  With no link for good, it must end up Disabled.
UnlinkedEndsDisabled == link = NoPeer ~> (state = "Disabled" \/ link # NoPeer)

=============================================================================
