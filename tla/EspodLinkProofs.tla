--------------------------- MODULE EspodLinkProofs ---------------------------
(***************************************************************************)
(* Proofs about EspodLink for every set of peers and every length of the   *)
(* timers.  The safety properties are not inductive: each rests on which   *)
(* orders of the tasks' steps are possible, which LinkInv states.          *)
(***************************************************************************)
EXTENDS EspodLink, TLAPS

\* Only one internal event can wait at a time, and none while a timer is due.
QueueInv ==
    /\ Len(timerQueue) <= 1
    /\ timerQueue # <<>> => suspendTimer # 0 /\ settleTimer # 0

\* After the timer task has begun to disable, only a connection reported in this very
\* tick can have left Disabled.
ResetInv ==
    timerPc = "reset" => state = "Disabled" \/ (moved /\ state = "Enabled")

\* The same holds of a settle event on its way, and none is on its way while the BT
\* task handles a takeover.
SettleInv ==
    Queued("ReenableSettle") =>
        /\ state = "Disabled" \/ (moved /\ state = "Enabled")
        /\ btPc \notin {"resume", "replace", "replaceReset", "armSettle"}

\* Where the BT task stands says what it has found and done.
BtInv ==
    /\ btPc # "idle" => moved
    /\ btPc \in {"resume", "replace", "replaceReset", "armSettle"} => settleTimer = Off
    /\ btPc \in {"replaceReset", "armSettle"} => state = "Disabled"
    /\ btPc = "forgetReset" => state # "Suspended"

\* Until the pin has fallen, nothing can lead out of Disabled.
EdgeInv ==
    owedEdge =>
        /\ dcd /\ moved /\ state = "Disabled"
        /\ ~Queued("ReenableSettle") /\ settleTimer # 0
        /\ btPc \in {"replaceReset", "armSettle", "idle"}

LinkInv ==
    /\ LinkTypeOK
    /\ QueueInv
    /\ ResetInv
    /\ SettleInv
    /\ BtInv
    /\ EdgeInv
    /\ NoStrayTimer
    /\ SuspendWatched

-----------------------------------------------------------------------------

\* A queue that holds at most one event: what taking from it and posting to it leave.
LEMMA ShortQueue ==
    ASSUME NEW q \in Seq(Events), Len(q) <= 1
    PROVE  /\ q # <<>> => /\ Tail(q) = <<>>
                          /\ Head(q) \in Events
                          /\ \E i \in 1..Len(q) : q[i] = Head(q)
           /\ q = <<>> => \A m \in Events :
                 /\ Append(q, m) \in Seq(Events)
                 /\ Len(Append(q, m)) = 1
                 /\ Append(q, m)[1] = m
  OBVIOUS

\* The initial state satisfies the invariant.
LEMMA LinkInvInit == LinkInit => LinkInv
<1> SUFFICES ASSUME LinkInit PROVE LinkInv
  OBVIOUS
<1>1. timerQueue \in Seq(Events) /\ Len(timerQueue) = 0 /\ \A m \in Events : ~Queued(m)
  BY DEF LinkInit, Queued
<1>2. LinkTypeOK
  <2>1. suspendTimer \in Off..SuspendTicks /\ settleTimer \in Off..SettleTicks
    BY LinkAssumption DEF LinkInit, Off
  <2>2. forgetAge \in 0..WindowTicks
    BY LinkAssumption DEF LinkInit
  <2>3. QED
    BY <1>1, <2>1, <2>2, Zenon DEF LinkInit, LinkTypeOK, EspodState, BtSteps, TimerSteps
<1>3. QED
  BY <1>1, <1>2
  DEF LinkInit, LinkInv, QueueInv, ResetInv, SettleInv, BtInv, EdgeInv, NoStrayTimer,
      SuspendWatched, Events

\* Every step keeps the types; this part needs nothing of the rest of LinkInv but that
\* no timer that is due survives a tick (Quiet).
LEMMA LinkTypeStep == LinkTypeOK /\ [LinkNext]_linkVars => LinkTypeOK'
<1> SUFFICES ASSUME LinkTypeOK, [LinkNext]_linkVars PROVE LinkTypeOK'
  OBVIOUS
<1> USE LinkAssumption DEF LinkTypeOK, Off, EspodState, BtSteps, TimerSteps
<1>1. CASE \E p \in Peers : BtConnected(p)
  <2> PICK p \in Peers : BtConnected(p)
    BY <1>1
  <2> QED
    BY DEF BtConnected, EnterEnabled
<1>2. CASE BtDisconnected
  <2>1. state' \in EspodState /\ btPc' \in BtSteps
    BY <1>2 DEF BtDisconnected, EnterDisabled, EnterSuspended
  <2>2. suspendTimer' \in Off..SuspendTicks /\ settleTimer' \in Off..SettleTicks
    BY <1>2 DEF BtDisconnected, EnterDisabled, EnterSuspended
  <2>3. QED
    BY <1>2, <2>1, <2>2 DEF BtDisconnected
<1>3. CASE BtPeerAddress \/ BtArmSettle
  BY <1>3 DEF BtPeerAddress, BtArmSettle
<1>4. CASE BtResume \/ BtReplace
  BY <1>4 DEF BtResume, BtReplace, EnterEnabled, EnterDisabled
<1>5. CASE BtReset \/ TimerReset
  BY <1>5 DEF BtReset, TimerReset, ResetState
<1>6. CASE SuspendExpires \/ SettleExpires
  <2>1. CASE SuspendExpires
    BY <2>1 DEF SuspendExpires, Post, Events
  <2>2. CASE SettleExpires
    BY <2>2 DEF SettleExpires, Post, Events
  <2>3. QED
    BY <1>6, <2>1, <2>2
<1>7. CASE TakeEvent
  <2>1. timerQueue' \in Seq(Events)
    BY <1>7 DEF TakeEvent
  <2>2. QED
    BY <1>7, <2>1 DEF TakeEvent, EnterDisabled, EnterEnabled
<1>8. CASE SampleDcd \/ Forget \/ StampForget
  <2>1. /\ dcd' \in BOOLEAN /\ owedEdge' \in BOOLEAN /\ forgetPending' \in BOOLEAN
        /\ stamping' \in BOOLEAN
    BY <1>8, Zenon DEF SampleDcd, Forget, StampForget, DcdLevel
  <2>2. forgetAge' \in 0..WindowTicks
    BY <1>8 DEF SampleDcd, Forget, StampForget
  <2>3. QED
    BY <1>8, <2>1, <2>2 DEF SampleDcd, Forget, StampForget
<1>9. CASE Tick
  <2>1. suspendTimer' \in Off..SuspendTicks /\ settleTimer' \in Off..SettleTicks
    BY <1>9 DEF Tick, Quiet, Elapse
  <2>2. forgetAge' \in 0..WindowTicks
    <3>1. CASE forgetAge < WindowTicks
      BY <1>9, <3>1 DEF Tick
    <3>2. CASE ~(forgetAge < WindowTicks)
      BY <1>9, <3>2 DEF Tick
    <3>3. QED
      BY <3>1, <3>2
  <2>3. QED
    BY <1>9, <2>1, <2>2 DEF Tick
<1>10. CASE UNCHANGED linkVars
  BY <1>10 DEF linkVars
<1>11. QED
  BY <1>1, <1>2, <1>3, <1>4, <1>5, <1>6, <1>7, <1>8, <1>9, <1>10 DEF LinkNext

\* Every step keeps the rest of the invariant.
LEMMA LinkInvStep == LinkInv /\ [LinkNext]_linkVars => LinkInv'
<1> SUFFICES ASSUME LinkInv, [LinkNext]_linkVars PROVE LinkInv'
  OBVIOUS
<1>1. LinkTypeOK /\ LinkTypeOK'
  BY LinkTypeStep DEF LinkInv
<1> DEFINE Rest == /\ QueueInv /\ ResetInv /\ SettleInv /\ BtInv /\ EdgeInv
                   /\ NoStrayTimer /\ SuspendWatched
<1>2. SUFFICES Rest'
  BY <1>1 DEF LinkInv
<1> USE <1>1, LinkAssumption
    DEF LinkInv, LinkTypeOK, QueueInv, ResetInv, SettleInv, BtInv, EdgeInv,
        NoStrayTimer, SuspendWatched, Queued, Off
\* The BT task's steps: "moved" keeps a second link change out of the tick, so what
\* the callback found still holds when it acts.
<1>3. CASE \E p \in Peers : BtConnected(p)
  BY <1>3 DEF BtConnected, EnterEnabled
<1>4. CASE BtDisconnected
  BY <1>4 DEF BtDisconnected, EnterDisabled, EnterSuspended
<1>5. CASE BtPeerAddress
  BY <1>5 DEF BtPeerAddress
<1>6. CASE BtResume
  BY <1>6 DEF BtResume, EnterEnabled
<1>7. CASE BtReplace
  BY <1>7 DEF BtReplace, EnterDisabled
<1>8. CASE BtReset
  BY <1>8 DEF BtReset, ResetState
<1>9. CASE BtArmSettle
  BY <1>9 DEF BtArmSettle
\* A timer that is due finds the queue empty, so its event is not lost.
<1>10. CASE SuspendExpires
  <2>1. timerQueue = <<>> /\ timerQueue' = Append(timerQueue, "SuspendTimeout")
    BY <1>10 DEF SuspendExpires, Post
  <2>2. /\ Len(timerQueue') = 1
        /\ timerQueue'[1] = "SuspendTimeout"
    BY <2>1, ShortQueue DEF Events
  <2>3. QED
    BY <1>10, <2>2 DEF SuspendExpires
<1>11. CASE SettleExpires
  <2>1. timerQueue = <<>> /\ timerQueue' = Append(timerQueue, "ReenableSettle")
    BY <1>11 DEF SettleExpires, Post
  <2>2. /\ Len(timerQueue') = 1
        /\ timerQueue'[1] = "ReenableSettle"
    BY <2>1, ShortQueue DEF Events
  <2>3. QED
    BY <1>11, <2>2 DEF SettleExpires
\* Taking the one event empties the queue; a settle event cannot hit a takeover.
<1>12. CASE TakeEvent
  <2>1. timerQueue' = <<>> /\ \E i \in 1..Len(timerQueue) : timerQueue[i] = Head(timerQueue)
    BY <1>12, ShortQueue DEF TakeEvent
  <2>2. CASE Head(timerQueue) = "SuspendTimeout"
    BY <1>12, <2>1, <2>2 DEF TakeEvent, EnterDisabled
  <2>3. CASE Head(timerQueue) = "ReenableSettle"
    BY <1>12, <2>1, <2>3 DEF TakeEvent, EnterEnabled
  <2>4. QED
    BY <1>12, <2>2, <2>3 DEF TakeEvent
<1>13. CASE TimerReset
  BY <1>13 DEF TimerReset, ResetState
<1>14. CASE SampleDcd
  BY <1>14 DEF SampleDcd, DcdLevel
<1>15. CASE Forget \/ StampForget
  BY <1>15 DEF Forget, StampForget
\* A tick finds every task idle and the pin sampled, so no edge is owed.
<1>16. CASE Tick
  <2>1. /\ btPc = "idle" /\ timerPc = "idle" /\ timerQueue = <<>>
        /\ suspendTimer # 0 /\ settleTimer # 0
        /\ ~owedEdge
    BY <1>16 DEF Tick, Quiet, DcdLevel
  <2>2. /\ suspendTimer' # Off <=> suspendTimer # Off
        /\ settleTimer' # Off <=> settleTimer # Off
    BY <1>16, <2>1 DEF Tick, Elapse
  <2>3. QED
    BY <1>16, <2>1, <2>2 DEF Tick
<1>17. CASE UNCHANGED linkVars
  BY <1>17 DEF linkVars
<1>18. QED
  BY <1>3, <1>4, <1>5, <1>6, <1>7, <1>8, <1>9, <1>10, <1>11, <1>12, <1>13, <1>14, <1>15,
     <1>16, <1>17 DEF LinkNext

-----------------------------------------------------------------------------

\* The invariant holds in every reachable state.
THEOREM LinkInvariance == LinkSpec => []LinkInv
<1>1. LinkInit => LinkInv
  BY LinkInvInit
<1>2. LinkInv /\ [LinkNext]_linkVars => LinkInv'
  BY LinkInvStep
<1>3. QED
  BY <1>1, <1>2, PTL DEF LinkSpec

\* Every field of the state machine keeps its type (_state, the timers, the queue).
THEOREM LinkTypeCorrect == LinkSpec => []LinkTypeOK
<1>1. LinkInv => LinkTypeOK
  BY DEF LinkInv
<1>2. QED
  BY <1>1, LinkInvariance, PTL

\* A suspended session always has its timer, its timeout message or the BT task's
\* decision ahead of it: _enterSuspended is never left without a way out.
THEOREM SuspendedIsWatched == LinkSpec => []SuspendWatched
<1>1. LinkInv => SuspendWatched
  BY DEF LinkInv
<1>2. QED
  BY <1>1, LinkInvariance, PTL

\* _suspendTimer runs only while Suspended, _reenableSettleTimer only while Disabled.
THEOREM TimersMatchState == LinkSpec => []NoStrayTimer
<1>1. LinkInv => NoStrayTimer
  BY DEF LinkInv
<1>2. QED
  BY <1>1, LinkInvariance, PTL

\* A takeover by another phone always shows the car a falling edge of DCD first.
THEOREM TakeoverDropsDcd == LinkSpec => []FallingEdge
<1>1. LinkInv => FallingEdge
  BY DEF LinkInv, EdgeInv, FallingEdge
<1>2. QED
  BY <1>1, LinkInvariance, PTL

\* No step restarts the grace period of a suspended session.
THEOREM GraceRunsDown == LinkSpec => GraceNotRestarted
<1> DEFINE Keeps == state = "Suspended" /\ state' = "Suspended"
                      => suspendTimer' <= suspendTimer
<1>1. LinkInv /\ [LinkNext]_linkVars => [Keeps]_linkVars
  <2> SUFFICES ASSUME LinkInv, LinkNext, state = "Suspended", state' = "Suspended"
               PROVE  suspendTimer' <= suspendTimer
    OBVIOUS
  <2>1. suspendTimer \in Int /\ Off <= suspendTimer
    BY DEF LinkInv, LinkTypeOK, Off
  <2>2. \/ suspendTimer' = Off \/ suspendTimer' = suspendTimer
        \/ Tick /\ suspendTimer' = Elapse(suspendTimer)
    BY DEF LinkNext, BtConnected, BtDisconnected, BtPeerAddress, BtResume, BtReplace,
           BtReset, BtArmSettle, SuspendExpires, SettleExpires, TakeEvent, TimerReset,
           SampleDcd, Forget, StampForget, Tick, EnterEnabled, EnterDisabled, ResetState
  <2>3. QED
    BY <2>1, <2>2 DEF Elapse, Off
<1>2. QED
  BY <1>1, LinkInvariance, PTL DEF LinkSpec, GraceNotRestarted

=============================================================================
