# vp-pod in TLA+

vp-pod is ESP32 firmware that stands between a phone (Bluetooth A2DP/AVRCP) and a
car that expects an iPod on a serial line (iAP). This directory models its
concurrent core in TLA+, checks the models with TLC and proves the main safety
properties with TLAPS. Paths below are relative to the repository's source
directory, `src/`.

## 1. The system

| Part | Source | State | Who runs it |
|---|---|---|---|
| Connection state machine | `esPod.cpp` 773-884, `esPod.h` 232-247 | `_state`, `_lastPeerAddress`, grace and settle timers, explicit-disconnect window | BT task, timer daemon, timer task, main loop |
| Command pipeline and acks | `esPod.cpp` 9-300, 484-580; `L0x03.cpp`, `L0x04.cpp` | `_cmdQueue`, `_txQueue`, `_timerQueue`, pending IDs and timers, `trackChangeAckPending`, `_rxIncomplete` | RX, process, TX and timer tasks, metadata task |
| Seek control | `esPod.cpp` 329-379, 1135-1235; `L0x04.cpp` 564-623 | `_seekMode`, `_pbCmd`, its timer and count, the gesture's timestamp | process task, timer task, BT task |
| Reconnect and forget | `NativeA2dpBluetoothSink.cpp` 94-232, 569-663; `NativeA2dpBluetoothSource.cpp` 137-144 | connection state, retry count, NVS blob and its copy in RAM, explicit-disconnect flag | BT application task, esp_timer task, main loop |
| Track cursor and notifications | `L0x04.cpp` 293-581, 688-730, 926-949; `esPod.cpp` 301-328, 392-406, 744-757, 1057-1133 | current and pending track index, scheduled notification, play status, the change that waits for metadata | process, timer and metadata tasks, timer daemon |
| Packet framing | `esPod.cpp` 9-151, 484-513 | last byte, length, cursor, buffer, `_rxIncomplete` | RX and TX tasks |
| Metadata path | `NativeA2dpBluetoothSink.cpp` 411-445, 521-550; `NativeA2dpBluetoothSource.cpp` 150-243, 341-361; `esPod.cpp` 897-922, 1057-1120 | attributes of one track, queue of attributes, track number and UID and their predecessors, stored texts | BT application task, metadata task |
| Identification, extended mode | `L0x00.cpp` | `extendedInterfaceModeActive`, notification state | process task |
| Volume | `NativeA2dpBluetoothSink.cpp` 447-520; `IBluetoothPlaybackSource.h` 37-71 | volume, gain, registration of the phone, saved volume, `_volumeState` | BT application task, timer task |
| Audio output | `IAudioOutput.h`, `NativeI2sAudioOutput.cpp` | I2S channel, position estimate | A2DP data callback, BT task |
| Peer names, settings, platform, UART, SD update, transliteration | `storage.cpp`, `platform.cpp`, `sdLogUpdate.cpp`, ... | NVS | start-up, any task |

The parts meet in four places. The sink's application task calls esPod's
`IBluetoothSourceEvents` handlers (link changes, play state, metadata). esPod calls the
source (`next`, `play`, key presses, `forgetConnection`). FreeRTOS timer callbacks
reach esPod only through `_timerQueue`, which the timer task empties. The main loop
samples `isDisabled()` onto the DCD pin and calls `forgetBtConnection()`.

No mutex guards any of esPod's fields. What is hard in this code is therefore the
interleaving of tasks that read a field, act on it and write it; timers whose message
is already queued when they are stopped; queues that drop silently when full; and
state kept twice, in NVS and in RAM. `PROJECT.json` lists each such spot as a hazard
with its line and the properties that guard it.

What makes each part correct:

- *state machine*: a suspended session ends; timers do not outlive their state; the
  car sees DCD fall when another phone takes over;
- *acks*: every deferred command gets its final ack; the pending ID, which blocks all
  transmission, is always about to be cleared; answers go out in the right order;
- *seek*: no press without its release;
- *reconnect*: bounded retries, a lost link is tried again, a forgotten phone is
  forgotten;
- *tracks*: a car that was moved to another row is moved back to the phone's track, and
  a track change does not stay pending;
- *framing*: what is received is what was framed, after any noise, and transmission is
  not held up by a packet that never ends;
- *metadata*: the texts shown belong to one track, and in the end to the phone's;
- *volume*: the gain follows the volume, and nobody is muted without having chosen so.

## 2. Modules

| Module | Models | Run by | Proofs |
|---|---|---|---|
| `EspodLink` | connection state machine | `MCEspodLink` | `EspodLinkProofs` |
| `AckPipeline` | commands, answers, pending acks, end of the session | itself | `AckPipelineProofs` |
| `SeekControl` | seek control | itself | `SeekControlProofs` |
| `SinkReconnect` | reconnect and forget | `MCSinkReconnect` | `SinkReconnectProofs` |
| `RxFramer` | the receiving loop | `MCRxFramer` | `RxFramerProofs` |
| `FrameParser` | what the receiving loop promises: a parser of the byte stream | refined by `RxFramer` | |
| `TrackSession` | track cursor, notifications, extended mode | itself | `TrackSessionProofs` |
| `MetadataFlow` | from the phone's track to esPod's texts | itself | `MetadataFlowProofs` |
| `VolumeControl` | volume, gain, zero-volume fix | itself | `VolumeControlProofs` |

Each keeps its fields as VARIABLES (the comment at each variable names the field), has
one action per handler or per atomic part of one, and gathers the properties at its
end. An operator introduced as "a wrong X" stands before X and is in no
specification: it is X with a plausible mistake, kept to show that the property
named beside it in `PROJECT.json` notices that mistake.

### EspodLink

`BtConnected`, `BtPeerAddress`, `BtResume`, `BtReplace`, `BtReset`, `BtArmSettle` and
`BtDisconnected` are the callbacks of the BT task, split wherever another task may see
or change what the next statement relies on. `SuspendExpires` and `SettleExpires` are
the timer daemon's callbacks, `TakeEvent` and `TimerReset` the timer task, `SampleDcd`,
`Forget` and `StampForget` (flag and time of a requested disconnect) the main loop. `_enterEnabled`, `_enterSuspended` and `_enterDisabled` are
operators shared by both tasks, as in the code.

*Time.* A `Tick` is possible only when every task has finished its work (`Quiet`), and
one link change is reported per tick. So two tasks interleave freely within a tick,
but a message does not wait in the queue for seconds. The tasks poll every 2 to 10 ms,
while the shortest timer here takes 2.5 s and a Bluetooth link does not come and go
within 10 ms. `FallingEdge` depends on this: it is a claim about a polling loop.

*Abstracted:* of `resetState()` only the timers of this module; its effect on the queues
and on pending acks is in `AckPipeline`, on the track in `TrackSession`, on the seek in
`SeekControl`, on the UIDs in `MetadataFlow`. A timer that is stopped while the daemon is
about to run its callback is the same as one whose message is already queued.

### AckPipeline

A command is received (`RxBegin`, `RxEnd`), taken by the process task and answered at
once (`AnswerGet`, `AnswerNow`) or deferred (`Defer`, `QueuePending`, `SetPending`,
`StartPendingTimer`, `EndDefer`). The final ack is the routine `AckRoutine(t)`, run by
the process, timer or metadata task `t`, in the five steps of the source: compare,
stop, clear, queue (front), or queue (back). `TxSend` sends only while nothing is
pending and nothing is being received.

Which branch of a handler defers is left open: any command that may be deferred may
also be answered at once. Notifications and replies are packets of kind "other"; a query
is answered by none, one or a row of them, one step each (`AnswerGet`, `Reply`), as the
records of a range or the questions after an identification are. What they say is not in
the model, and neither is lingo 0x00's timer, which nothing starts.

`_timerQueue` is shared. The callbacks of the play position, notification, key press, grace
period and settle timers post there too (`OtherTimerPosts`), at any moment and `MaxPosts` times
in all, and their messages are handled in turn (`TakeOther`). No callback waits for room or looks
whether there was any, so a pending timer's message may be lost; `lost` remembers for which lingo.
Nothing starts that timer again, and the properties say what holds up to that loss.
`TimeoutHasRoom` bounds the pending timers' own part: as long as the others leave one place (a car
that waits) or one for each command, no loss happens. With ten places and five other timers, each
of which posts once before its message is taken, five places remain; a timer task that is
held up, by a click of 100 ms or by a full transmit queue, is what could use up more.

`SessionEnds` is the change to Disabled and `ResetChangeAck` ... `ResetPending` the
statements of `resetState()` in their order (`ResetAfter`), with steps of every other
task between them; the next session may start before they are done. One reset runs at a
time. A purge is the process or transmit task finding Disabled. `unanswered` holds the
commands of a car that waits that have no final ack sent.

### SeekControl

`SeekHold`, `SeekClick`, `StopSeek` are `firePbCmdTimer` by mode and command;
`ToggleShuffle` is the double-toggle gesture with `setSeekMode`. `PbCmdTimer` posts,
`CountHold`, the three `Watchdog...` steps, `Click`/`ClickEnds` and `NoClick` are the
0x29 branch of the timer task. `SessionSuspends` and `SessionEnds` are what
`_enterSuspended` and `resetState` do to these fields; the session is taken to be
Enabled exactly while a phone is linked. `pressed` is the phone's view.

All esPod tasks are pinned to one core; the process task has priority 5, the timer task
1. So a command is atomic to the timer task, while the timer task can be interrupted
between any two statements: the watchdog's three are three steps, and a click sleeps. A key
that the car presses behind the watchdog's release and before its last statement is
forgotten by the second statement or loses its timer to the third. That is what the code does;
`slipped` remembers such a key, and `PressGuarded` and `HoldEnds` say so by name and hold
for every other.

### SinkReconnect

The stack and phones (`PhoneConnects`, `Opening`, `Opened`, `Closed`) are external: one
link at a time, events delivered in order through `app_task_queue`. `Handle...` are the
application task (a DISCONNECTED event in two steps, the test and the scheduling,
`FinishDisconnected`), `TimerExpires` and `TimerPosts` the esp_timer task, and `ForgetBegins` to
`ForgetTarget` the steps of `forgetConnection()`, which can stop a timer that runs but not an
attempt whose callback waits for room. `PowerCycle` may happen at any time and keeps only
NVS. The stack closes a link on request only if the address is that link's. Whom the stack is
bonded with is left out.

`allowed` counts down the links the sink may still open: `MaxRetries`, and the attempts that were
due when the retry count was last cleared, by the running timer, in its callback or in the queue.
Clearing the count takes none of these back. `RetryBounded` says that it never runs out.

`lost` is the phone whose established link failed. `LostIsRetried` claims a call to that very phone,
and only if it is the one in `ramLast`: `last_connection` is read from NVS when the stack comes up,
and a connect writes NVS only. For a phone first connected since power-on attempts are counted and
made, and go to another address or to zero, and a forget asks for no bond or another's to be
removed. The comment in `clean_last_connection()` (`NativeA2dpBluetoothSink.cpp:633-634`, "kept
current on every successful connect") says otherwise of `last_connection`. A loss after a leftover `user_disconnect_requested` is excepted too.

### RxFramer and FrameParser

`FrameParser` is a parser of the byte stream: it keeps the longest suffix of what was read
that may still become a frame, and accepts a payload when its whole frame is there.
`RxFramer` is `_rxTask`: `StartPacket`, `TakeLength` and `TakeByte` are the branches for
one byte, with `_rxIncomplete`, the length and the cursor (here the length of `buf`);
`BeginDrain` and `EndDrain` are the ends of the inner loop, the latter with the pause
check, `Flush` the round while Disabled. `ImplementsParser` says that the first
implements the second. The size of a byte, the sync bytes, the buffer and the checksum
are parameters; `ByteChecksum` is the source's. The line (`CarSends`, `ReadNoise`,
`ByteLost`) may add and lose bytes at any place.

### TrackSession

The car browses three rows of which the middle one is always the phone's track. To make
it redraw, esPod moves it to another row and back: at once, when a deferred ack ends, or
by a notification 500 ms or more later. `shown` is the row the car was last told while it
listened. The process task sleeps 100 ms in a key press; the code before and after that
are two steps (`doing`), everything else in a handler is one. `SkipSet`, `SelectSame`,
`SelectWaking` and `SelectMoving` are the branches of a selection, `Halt`, `TogglePlay`,
`NextTrack`, `AckFirst`, `Play` and `OtherControl` those of PlayControl.

`Patient` is a car that awaits the final ack of a command before the next. New metadata may
come at any moment, in the 100 ms of a key press too, where it is an earlier change's. It then takes
the ack whose timer would have moved the car back; if at that moment an earlier notification is
scheduled, or the car has no track, it schedules nothing in its place, and the row told when the
key press ends may stay. `adrift` marks that row, and `TemporaryIsWatched` and `DisplaySettles`
except it in words and in the formula. The head of the module lists the facts about time that it
relies on. The other timers of `_timerQueue` are not here; `TimerQueueSize` is the places they leave.
What moves the car back, for `TemporaryIsWatched`, is a
notification's timer or message, or a deferred ack's; that a notification is marked
as scheduled is not enough, since Track messages left behind by ended sessions can fill the
queue. Not here: selections by lingo 0x03, the play position,
play lists of another size (a build option that is off).

### MetadataFlow

`Phone` answers commands in order and owes one report of a change for each registration.
`Handle...` is the sink's application task, `Collect`, `Settle`, `Apply`, `NoteUid` the
metadata task: an attribute, the pause, `_applyTrackMetadata` and the assignment behind
it. A text is its kind and its track. `Patient` keeps the phone from changing tracks
between its answer to the question for metadata and the registration that follows;
a change in that gap is reported by nobody and `TrackArrives` fails with `Patient` FALSE. An
attribute is lost when the queue is full or, with `OutOfMemory`, when its copy could not be made.
`SessionEnds` may come with a phone linked, as at a takeover or by a stale grace message.

### VolumeControl

A setting of the volume is five steps of a task (`StoreVolume`, `StoreGain`, `Callback`,
`Tell`, `Clear`); its callback may restore the saved volume, which pushes a setting
within the setting. The BT application task and the timer task (clicks) may both be in
one. `MaxVolume` is 3 in place of 0x7f with a step of 2 in place of 5, and the gain keeps
its cubic curve. The zero-volume fix is on. History variables mark what the code has no
defence against: settings that overlapped, a registration that came in the wrong moment.

## 3. Runs

Passing runs:

| Run | Instance | Shows |
|---|---|---|
| `link` | 2 phones, grace 3, settle 2, window 2 ticks, queue 2; 1.3k states | `SuspendWatched`, `NoStrayTimer`, `FallingEdge`, `GraceNotRestarted`, and that a suspended session ends (`SuspendEnds`) |
| `acks` | 2 commands out of 4, 1 metadata change, 1 message of another timer, all queues 2, answers of up to 2 packets; 1.04M states | `PendingWatched` and `Drains` for a car that does not wait, with all queues overflowing |
| `acks_patient` | 2 commands, of lingo 0x03 and 0x04, 1 change, 1 end of the session, 1 message of another timer, timer queue of 2; 645k states | `PendingWatched` again with sessions that end, `TimeoutHasRoom`: no timer of a pending ack finds the queue full while the others leave a place; `Answered`: a final ack for every command of a car that waits; `EndedIsForgotten`: what was pending when a session ended blocks no later one |
| `seek` | limit 3, queue 2; 26.5k states | `PressGuarded` and `HoldEnds` through mode changes, link losses, stale messages and commands within the watchdog |
| `reconnect` | 2 phones, 2 retries, queue 2; 606k states | `RetryBounded`, `LostIsRetried` through forgets, power cycles and a full queue |
| `rx` | bytes of 2 bits, 6 payloads with sync bytes in them, buffer 4; 398k states | `ImplementsParser`; `IntactIsReceived`: a frame that comes whole to a receiver at rest is taken; `GateOpens` |
| `track` | 5 commands, 2 changes of metadata, 1 end of the session, queue 3; 481k states | `ScheduledIsWatched`, `TemporaryIsWatched`, `ChangeTimesOut`, `DisplaySettles` |
| `meta` | 2 tracks, one of them transliterated, 3 links and changes, queue 6; 484k states | `OneTrackAtATime`, `DirectionRight`, `ChangeIsNew`, `TrackArrives` |
| `volume` | volumes 0-3, 4 inputs, saved 0 or 2; 475k states | `GainFollows`, `NotMuted`, `ZeroSavedIsChosen`, `PhoneAgrees` |

Runs that show a disagreement between the code and what the repository says of it:

| Run | Counterexample |
|---|---|
| `link_stranded` | Suspended; another phone takes over, so esPod is Disabled with the settle timer running; that phone leaves within the pause. The disconnect finds Disabled and does nothing, the timer enters Enabled, and the car is shown an iPod with no phone and no timer. A later failed reconnect would end it, but a phone that left normally is not called back. |
| `ack_order` | CmdPending waits in the queue while its command is pending; the final ack overtakes it at the front. The car receives OK and then CmdPending. |
| `track_impatient` | PLAY is deferred; a PlayControl that is acked at once has the same command ID and stops the timer of the first. `trackChangeAckPending` stays set, and with it play positions stay off, until the next new metadata. |

Other behaviour the models have, which the properties except by name or do not speak of: a
grace-period message that was queued just before the phone returned disables the resumed session
(`EspodLink`); a key pressed within the last statements of the seek watchdog is forgotten
(`SeekControl`, `slipped`); a row told behind a key press in which metadata scheduled nothing
stays (`TrackSession`, `adrift`); a pending timer whose message finds `_timerQueue` full silences
the adapter until the session ends (`AckPipeline`, `lost`); a forget while a phone is CONNECTING
leaves `user_disconnect_requested` to the connection that follows, and a phone
first connected since power-on is not called back after a loss (`SinkReconnect`).

*Bounds.* Two phones are enough for "same" and "other". Timers need only be longer than
the window in which they are stopped, so small ticks keep every order of expiry. Two
commands make one pending ID overwrite another while all three ackers are under way.
The framer's payloads include sync bytes, a sync pair and a complete frame's beginning,
so every confusion of data with a frame occurs; four byte values leave one that is
neither sync byte. Five commands reach each pair of a deferred selection and what may
follow it. Two tracks are enough for "this" and "the one before"; six places hold one
answer and half of the next, so the queue overflows; its run leaves `OutOfMemory` FALSE, which
only adds losses to those of the full queue (TRUE is beyond five million states; the theorems cover both). `MaxHoldTicks` 3 leaves room for a mode change in
mid-hold. `MaxRetries` is 2 in the instance and 10000 in the shipped configuration: at
`NativeA2dpBluetoothSource.cpp:91-95` the comment argues against the number the call
then uses. Deadlock checking is off where the model's environment may run out of commands.

*Fairness.* Weak fairness of each task, of timers (they expire) and of the tick: FreeRTOS
schedules every ready task (the main loop's two steps count as one task), and none of these tasks blocks for ever. `SinkReconnect` asks
strong fairness of the timer's post (`TimerPosts`) into the application queue, which a task waits for
with no time limit. The car, the phone and the user are never obliged to do anything;
`acks` needs a packet that was begun to end, which the inter-byte timeout ensures and
`GateOpens` shows for the framer: there the end of a round takes strong fairness, as the
pause that ends a packet recurs and is cut short by each further byte. In `MetadataFlow`
a linked phone answers, in `VolumeControl` it registers again after each report.

## 4. Proofs

`EspodLinkProofs` proves for every set of phones, all periods of at least one tick and
every queue length of at least two (`LinkAssumption`):

- `LinkTypeCorrect`, `SuspendedIsWatched`, `TimersMatchState`, `TakeoverDropsDcd`: the
  invariants of run `link`; `GraceRunsDown`: its action property.

None of them is inductive: `SuspendWatched` alone is broken by a second message in the
queue, which would disable and reset a session suspended after the first.
`LinkInv` adds what makes that impossible: at most one internal event
waits (`QueueInv`, which rests on `Quiet`), what the timer task's and the BT task's
positions say about the state (`ResetInv`, `SettleInv`, `BtInv`), and that nothing leads
out of Disabled before the pin has fallen (`EdgeInv`). `LinkInvInit`, `LinkTypeStep` and
`LinkInvStep` establish it, one step per action.

`SeekControlProofs` proves `SeekTypeCorrect` and `PressesGuarded` for a watchdog that the process
task may interrupt anywhere, from `SeekInv`: the invariant together with "a click occupies the
timer task" and "after the watchdog's release no key is held but one that slipped".

`RxFramerProofs` proves for every base, sync bytes, buffer, set of payloads and checksum
(`FramerAssumption`):

- `FramerTypeCorrect`: no byte is written past the buffer, from `FramerInv` (the buffer
  holds at most the expected length);
- `FramerRefinesParser`: `FramerSpec => ImplementsParser`. The refinement mapping
  `Window` puts the framer's flags and counters back together into the suffix the parser
  keeps. `RestReads`, `LengthReads` and `ByteReads` show one byte to be one step of the
  parser, at rest, for the length and within a packet; everything else is a stutter;
- `IntactFramesReceived`: a frame that meets the framer at rest, and that no noise, loss, pause or
  end of the session touches, is accepted with its last byte. `IntactInv` says what the flags,
  the length and the buffer are behind each of its first bytes.

`AckPipelineProofs` proves for every number of commands, changes, replies and session ends, every
length of the three queues and both kinds of car (`AckAssumption`):

- `AckTypeCorrect`;
- `PendingIsWatched`: `PendingWatched`, with no assumption on the queue. Given the types the
  property is inductive as it stands, which makes it the argument for the code itself: whichever
  step of an ack, a deferral or a reset takes one watcher away leaves another, clears the ID, or is
  the loss of a timer message, which the property names;
- `TimeoutsHaveRoom`: a pending timer finds room while the other timers' messages leave one place
  (a patient car) or one per command (any car). `DueInv` counts what may still post or is posted
  by the pending timers: a command received, deferring or with its timer running, and their
  messages in the queue. A patient car keeps that sum to one, an impatient one to the commands it
  sent: only a new command raises it, and no step of any task does. How many places the other timers take is
  not bounded here.

`SinkReconnectProofs` proves for every set of phones, queue length and number of retries
`ReconnectTypeCorrect` and `RetriesAreBounded`. `DueInv` says that retries not yet used
plus attempts due (timer, its callback and queue) are at most those still allowed; `BootInv` that nothing of
this exists until the stack runs after a power-on, which is when the history starts afresh.

`TrackSessionProofs` proves for every number of commands, changes, session ends and places
in the queue:

- `TrackTypeCorrect` and `ScheduledWatched`, for patient and impatient cars: a notification that
  is due has its timer running or its message waiting, so the refusal of all others ends, also
  when a full queue dropped the message. With the types it is inductive as it stands; what it
  rests on is the queue (`PostKeeps`, `TakeKeeps`: a message that waits is not displaced by one
  that is posted, and one that is taken is the one that is handled);
- `TemporaryWatched`: `TemporaryIsWatched` for a car that waits and a timer queue whose other users
  leave two places, with metadata at any moment. Both are needed: an impatient
  car's second command stops the timer that would have moved it back (as in `track_impatient`),
  and in a queue of one place a play position keeps the move out.
  `TemporaryInv` adds that only a car with notifications on is told rows (`ListenInv`), that a key
  press with a row to tell has its ack's timer running or metadata come within it, which started a
  notification or not (`SleepInv`), that play positions take one place
  (`OnePosition`, hence `FullQueueMoves`: a full queue holds something that moves the car), and that metadata,
  which stops an ack's timer, finds a track to schedule for (`CursorInv`).

`MetadataFlowProofs` proves for every number of tracks and events, choice of transliterated titles
and queue length, for phones that change at any moment, `MetaTypeCorrect`, `OneTrackApplied`,
`DirectionIsRight` and `ChangesAreNew`. The metadata task writes one attribute after another over
those of the track before and applies them after a pause, so what must be known is what is still
to come. `LineInv` reads the two queues as one line, in which title, artist, album and number of
an answer follow one another and the last answer is whole; `HeadInv` says what has been collected
when the head of the line is next, and thus that an empty line leaves a whole answer. `NumInv`
and `UidInv` say that the predecessor kept for the direction is the track applied last, and
`StoredInv` that what esPod compares with is. All of this is claimed only until an attribute is lost, for want of room or of memory:
the queue's size is a parameter, and what is left of an answer after a drop is one track's texts
over another's.

`VolumeControlProofs` proves for every range of volumes, step of the buttons, saved volume and
number of inputs:

- `GainFollowed` (`GainFollows`). The property speaks of a system at rest and says nothing in
  mid-setting. `GainInv` adds that at most one task is in a setting unless settings crossed,
  that only the task between its two stores lets the gain lag and knows the volume (`OrderInv`),
  and which settings nest (`StacksInv`): a restored volume, not zero, within a setting that has
  only its answer left to do. The last is what keeps an outer setting from storing its own
  gain over the restored one;
- `NobodyIsMuted` (`NotMuted`): `MuteInv` follows a zero from its store to the setting that the
  callback nests to restore the saved volume;
- `OnlyChosenZeroIsSaved` (`ZeroSavedIsChosen`): a zero at boot is not saved because a stream that
  suspends has started on the same link, and its start restored a volume; `QueueInv` keeps those
  events in that order;
- `VolumeTypeCorrect`: with the gain's cubic curve shown to stay within full scale (`GainFits`).

So every invariant the passing runs check is a theorem, and so is every action property and the
refinement. *Only model-checked* is liveness (`SuspendEnds`, `Drains`, `Answered`,
`EndedIsForgotten`, `HoldEnds`, `LostIsRetried`, `GateOpens`, `ChangeTimesOut`, `DisplaySettles`,
`TrackArrives`, `PhoneAgrees`), which needs fairness and ENABLED and is out of the prover's reach.

## 5. Not modelled

See "components" in `PROJECT.json`. In short: the I2S channel and the position estimate
(what a write in progress does when its channel goes away is the driver's, and the
estimate is unlocked arithmetic whose only reader is the play position); selections by
lingo 0x03 as far as the track is concerned; the contents of answers; settings, platform,
UART, SD update, peer names, the transliteration table (sequential I/O or data). The
Arduino build's Bluetooth source makes the same calls into esPod and has the same metadata
task; its reconnection is in an external library.

## 6. Plan

Theorems to come: an abstract session (offered, held, withdrawn) that `EspodLink` implements,
step by step;
the safety halves of the liveness properties, such as measures that every step of a task lowers
(`Drains`, `HoldEnds`).

A model that could follow: the selection by lingo 0x03 in `TrackSession`, with the modulo of an
invalid row.
