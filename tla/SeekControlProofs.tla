-------------------------- MODULE SeekControlProofs --------------------------
(***************************************************************************)
(* Proofs about SeekControl for every limit of the watchdog and every size *)
(* of the timer queue.                                                     *)
(***************************************************************************)
EXTENDS SeekControl, TLAPS

\* While a click is under way the timer task does nothing else, and in the midst of the
\* watchdog, once it has sent the release, no key is held but one that slipped in.  With no link none is held.
TimerInv ==
    /\ clicking # None <=> timerPc = "click"
    /\ timerPc \in {"clear", "stop"} => pressed \subseteq slipped
    /\ session # "Enabled" => pressed = {}

SeekInv == SeekTypeOK /\ TimerInv /\ PressGuarded

-----------------------------------------------------------------------------

\* The initial state satisfies the invariant.
LEMMA SeekInvInit == SeekInit => SeekInv
<1> SUFFICES ASSUME SeekInit PROVE SeekInv
  OBVIOUS
<1>1. SeekTypeOK
  <2>1. ticks \in 0..MaxHoldTicks /\ timerQueue \in Seq(Keys \cup {None})
    BY SeekAssumption DEF SeekInit
  <2>2. QED
    BY <2>1, Zenon DEF SeekInit, SeekTypeOK
<1>2. TimerInv /\ PressGuarded
  BY DEF SeekInit, TimerInv, PressGuarded, None, Keys
<1>3. QED
  BY <1>1, <1>2 DEF SeekInv

\* Every step keeps the types.
LEMMA SeekTypeStep == SeekTypeOK /\ [SeekNext]_seekVars => SeekTypeOK'
<1> SUFFICES ASSUME SeekTypeOK, [SeekNext]_seekVars PROVE SeekTypeOK'
  OBVIOUS
<1> USE SeekAssumption DEF SeekTypeOK, Watchdog
<1>1. CASE \E k \in Keys : SeekHold(k)
  <2> PICK k \in Keys : SeekHold(k)
    BY <1>1
  <2>1. pressed' \subseteq Keys
    BY DEF SeekHold, Replace, Press
  <2>2. slipped' \subseteq Keys
    BY DEF SeekHold, Replace, Press
  <2>3. QED
    BY <2>1, <2>2 DEF SeekHold
<1>2. CASE \E k \in Keys : SeekClick(k)
  BY <1>2 DEF SeekClick
<1>3. CASE StopSeek
  BY <1>3 DEF StopSeek, Release
<1>4. CASE ToggleShuffle
  <2>1. NextMode[seekMode] \in SeekModes
    BY DEF NextMode, SeekModes
  <2>2. QED
    BY <1>4, <2>1 DEF ToggleShuffle, SetSeekMode, Release
<1>5. CASE ToggleAges
  BY <1>5 DEF ToggleAges
<1>6. CASE PbCmdTimer
  BY <1>6 DEF PbCmdTimer
<1>7. CASE CountHold
  BY <1>7 DEF CountHold, TakeMessage, Count
<1>8. CASE WatchdogReleases \/ WatchdogClears \/ WatchdogStops
  BY <1>8 DEF WatchdogReleases, WatchdogClears, WatchdogStops, Release
<1>9. CASE Click
  BY <1>9 DEF Click, TakeMessage, Press
<1>10. CASE ClickEnds \/ NoClick
  <2>1. CASE ClickEnds
    BY <2>1 DEF ClickEnds, Release
  <2>2. CASE NoClick
    BY <2>2 DEF NoClick, TakeMessage
  <2>3. QED
    BY <1>10, <2>1, <2>2
<1>11. CASE SessionStarts \/ SessionSuspends \/ SessionEnds
  BY <1>11 DEF SessionStarts, SessionSuspends, SessionEnds
<1>12. CASE UNCHANGED seekVars
  BY <1>12 DEF seekVars
<1>13. QED
  BY <1>1, <1>2, <1>3, <1>4, <1>5, <1>6, <1>7, <1>8, <1>9, <1>10, <1>11, <1>12
  DEF SeekNext, TimerTask

\* Every step keeps the rest of the invariant, those of the car in the midst of the
\* watchdog included.
LEMMA SeekInvStep == SeekInv /\ [SeekNext]_seekVars => SeekInv'
<1> SUFFICES ASSUME SeekInv, [SeekNext]_seekVars PROVE SeekInv'
  OBVIOUS
<1>1. SeekTypeOK'
  BY SeekTypeStep DEF SeekInv
<1> USE DEF SeekInv, SeekTypeOK, TimerInv, PressGuarded, Watchdog, Keys, None
<1>2. TimerInv' /\ PressGuarded'
  <2>1. CASE \E k \in Keys : SeekHold(k) \/ SeekClick(k)
    <3> PICK k \in Keys : SeekHold(k) \/ SeekClick(k)
      BY <2>1
    <3>1. CASE SeekClick(k)
      BY <3>1 DEF SeekClick
    <3>2. CASE SeekHold(k)
      <4>1. TimerInv'
        <5>1. clicking' = clicking /\ timerPc' = timerPc
          BY <3>2 DEF SeekHold
        <5>2. ASSUME timerPc \in {"clear", "stop"}, NEW j \in pressed'
              PROVE  j \in slipped'
          <6>1. session = "Enabled"
            BY <3>2, <5>2 DEF SeekHold, Replace, Press
          <6>2. CASE j = k
            BY <3>2, <5>2, <6>1, <6>2 DEF SeekHold, Replace, Press
          <6>3. CASE j # k
            BY <3>2, <5>2, <6>1, <6>3 DEF SeekHold, Replace, Press
          <6>4. QED
            BY <6>2, <6>3
        <5>3. session' # "Enabled" => pressed' = {}
          BY <3>2 DEF SeekHold, Replace, Press
        <5>4. QED
          BY <5>1, <5>2, <5>3
      <4>2. ASSUME NEW j \in pressed' \ slipped'
            PROVE  clicking' = j \/ (seekMode' = "hold" /\ pbCmd' = j /\ timerOn')
        <5>1. CASE j = k
          BY <3>2, <5>1 DEF SeekHold
        <5>2. CASE j # k
          <6>1. j \in pressed \ slipped /\ j # pbCmd
            BY <3>2, <4>2, <5>2 DEF SeekHold, Replace, Press
          <6>2. QED
            BY <3>2, <6>1 DEF SeekHold
        <5>3. QED
          BY <5>1, <5>2
      <4>3. QED
        BY <4>1, <4>2
    <3>3. QED
      BY <3>1, <3>2
  <2>2. CASE StopSeek
    BY <2>2 DEF StopSeek, Release
  <2>3. CASE ToggleShuffle
    BY <2>3 DEF ToggleShuffle, SetSeekMode, Release
  <2>4. CASE ToggleAges \/ PbCmdTimer
    BY <2>4 DEF ToggleAges, PbCmdTimer
  <2>5. CASE CountHold
    BY <2>5 DEF CountHold, TakeMessage
  <2>6. CASE WatchdogReleases
    BY <2>6 DEF WatchdogReleases, Release
  <2>7. CASE WatchdogClears \/ WatchdogStops
    BY <2>7 DEF WatchdogClears, WatchdogStops
  <2>8. CASE Click
    BY <2>8 DEF Click, TakeMessage, Press
  <2>9. CASE ClickEnds \/ NoClick
    BY <2>9 DEF ClickEnds, NoClick, TakeMessage, Release
  <2>10. CASE SessionStarts \/ SessionSuspends \/ SessionEnds
    BY <2>10 DEF SessionStarts, SessionSuspends, SessionEnds
  <2>11. CASE UNCHANGED seekVars
    BY <2>11 DEF seekVars
  <2>12. QED
    BY <2>1, <2>2, <2>3, <2>4, <2>5, <2>6, <2>7, <2>8, <2>9, <2>10, <2>11
    DEF SeekNext, TimerTask
<1>3. QED
  BY <1>1, <1>2

-----------------------------------------------------------------------------

\* Every field of the seek control keeps its type, and the watchdog's count its limit.
THEOREM SeekTypeCorrect == SeekSpec => []SeekTypeOK
<1>1. SeekInit => SeekTypeOK
  BY SeekInvInit DEF SeekInv
<1>2. QED
  BY <1>1, SeekTypeStep, PTL DEF SeekSpec

\* A press on the phone is always guarded by what esPod remembers and by its watchdog,
\* or it came between the watchdog's release and its last statement.  Nothing is assumed
\* about when the process task runs.
THEOREM PressesGuarded == SeekSpec => []PressGuarded
<1>1. SeekInit => SeekInv
  BY SeekInvInit
<1>2. SeekInv /\ [SeekNext]_seekVars => SeekInv'
  BY SeekInvStep
<1>3. SeekInv => PressGuarded
  BY DEF SeekInv
<1>4. QED
  BY <1>1, <1>2, <1>3, PTL DEF SeekSpec

=============================================================================
