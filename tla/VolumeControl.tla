---------------------------- MODULE VolumeControl ----------------------------
(***************************************************************************)
(* The volume of the native sink (NativeA2dpBluetoothSink.cpp) and the     *)
(* zero-volume fix of its source (IBluetoothPlaybackSource.h).  Two tasks  *)
(* set it:                                                                 *)
(*                                                                         *)
(*   btAppTask    takes what the phone sends: absolute volumes, the        *)
(*                registration for changes, connections, audio state       *)
(*   timer task   steps the volume for the car's seek buttons              *)
(*                (SeekMode::VolumeClick)                                  *)
(*                                                                         *)
(* A setting is four steps - the volume, the gain, the callback, the       *)
(* answer to the registration - of which only the first holds              *)
(* s_volume_lock.  The callback may restore the saved volume, a setting    *)
(* within the setting, so each task has a stack of them.                   *)
(*                                                                         *)
(* The phone registers for changes, again after each, and takes an         *)
(* answer that it did not ask for as nothing.  It may start and suspend    *)
(* the stream and leave at any time; it suspends only what it started, and *)
(* takes longer to connect than btAppTask to take what was sent before.    *)
(***************************************************************************)
EXTENDS Integers, Sequences

CONSTANTS
    MaxVolume,    \* 0x7f
    VolumeStep,   \* 5
    SavedFirst,   \* the volumes that may be in NVS at boot
    PhoneSets,    \* the absolute volumes the phone sends
    MaxInputs     \* links, starts, absolute volumes and clicks in all

ASSUME VolumeAssumption ==
    /\ MaxVolume \in Nat \ {0} /\ VolumeStep \in 1 .. MaxVolume
    /\ SavedFirst \subseteq 0 .. MaxVolume
    /\ PhoneSets \subseteq 0 .. MaxVolume
    /\ MaxInputs \in Nat

VARIABLES
    volume,        \* s_volume
    gain,          \* s_volume_gain_q15
    notify,        \* s_volume_notify
    volumeState,   \* _volumeState
    saved,         \* SettingsKeys::Volume in NVS
    settings,      \* the settings each task is in, innermost first
    appQueue,      \* app_task_queue
    link,          \* the phone is there
    streaming,     \* it has started the stream
    phoneVolume,   \* what it takes the volume to be
    awaits,        \* the answer it awaits: "nothing", "interim" or "changed"
    toPhone,       \* answers on their way
    crossed,       \* history: two settings overlapped, with none after them
    reported,      \* history: a volume was set or the stream started since it connected
    chosen,        \* history: the last zero came from a button, or later than the first report
    missed,        \* history: a registration was cleared that had not been answered
    inputs         \* how much of MaxInputs is used

phoneVars == <<link, streaming, phoneVolume, awaits>>
historyVars == <<crossed, reported, chosen, missed>>
volumeVars == <<volume, gain, notify, volumeState, saved, settings, appQueue, phoneVars,
                toPhone, historyVars, inputs>>

Volumes == 0 .. MaxVolume
Tasks == {"bt", "timer"}
Unity == 32768
Invalid == -1

\* A cubic curve, rounded to the nearest of 0 .. Unity.
Gain(v) == (2 * v * v * v * Unity + MaxVolume * MaxVolume * MaxVolume)
             \div (2 * MaxVolume * MaxVolume * MaxVolume)

Event(kind) == [kind |-> kind, volume |-> Invalid]
Setting(v) == [to |-> v, at |-> 1]

Idle(task) == settings[task] = <<>>
Other(task) == IF task = "bt" THEN "timer" ELSE "bt"

VolumeInit ==
    /\ volume = 0
    /\ gain = Unity
    /\ notify = FALSE
    /\ volumeState = "notDefined"
    /\ saved \in SavedFirst
    /\ settings = [task \in Tasks |-> <<>>]
    /\ appQueue = <<>>
    /\ link = FALSE
    /\ streaming = FALSE
    /\ phoneVolume = 0
    /\ awaits = "nothing"
    /\ toPhone = <<>>
    /\ crossed = FALSE
    /\ reported = FALSE
    /\ chosen = FALSE
    /\ missed = FALSE
    /\ inputs = 0

-----------------------------------------------------------------------------
(* The phone.                                                              *)

Input == inputs < MaxInputs /\ inputs' = inputs + 1

Sends(event) ==
    /\ appQueue' = Append(appQueue, event)
    /\ UNCHANGED <<volume, gain, notify, volumeState, saved, settings, historyVars>>

PhoneConnects ==
    /\ ~link /\ appQueue = <<>> /\ Input
    /\ link' = TRUE
    /\ phoneVolume' \in PhoneSets
    /\ Sends(Event("connected"))
    /\ UNCHANGED <<streaming, awaits, toPhone>>

PhoneLeaves ==
    /\ link
    /\ link' = FALSE
    /\ streaming' = FALSE
    /\ awaits' = "nothing"
    /\ toPhone' = <<>>
    /\ UNCHANGED <<volume, gain, notify, volumeState, saved, settings, appQueue, phoneVolume,
                   historyVars, inputs>>

PhoneSetsVolume(v) ==
    /\ link /\ Input
    /\ phoneVolume' = v
    /\ Sends([kind |-> "set", volume |-> v])
    /\ UNCHANGED <<link, streaming, awaits, toPhone>>

PhoneStarts ==
    /\ link /\ ~streaming /\ Input
    /\ streaming' = TRUE
    /\ Sends(Event("started"))
    /\ UNCHANGED <<link, phoneVolume, awaits, toPhone>>

PhoneSuspends ==
    /\ streaming
    /\ streaming' = FALSE
    /\ Sends(Event("suspended"))
    /\ UNCHANGED <<link, phoneVolume, awaits, toPhone, inputs>>

PhoneRegisters ==
    /\ link /\ awaits = "nothing"
    /\ awaits' = "interim"
    /\ Sends(Event("register"))
    /\ UNCHANGED <<link, streaming, phoneVolume, toPhone, inputs>>

PhoneTakes ==
    /\ toPhone # <<>>
    /\ toPhone' = Tail(toPhone)
    /\ IF Head(toPhone).kind = awaits
       THEN /\ phoneVolume' = Head(toPhone).volume
            /\ awaits' = IF awaits = "interim" THEN "changed" ELSE "nothing"
       ELSE UNCHANGED <<phoneVolume, awaits>>
    /\ UNCHANGED <<volume, gain, notify, volumeState, saved, settings, appQueue, link,
                   streaming, historyVars, inputs>>

Answers(kind) ==
    toPhone' = IF link THEN Append(toPhone, [kind |-> kind, volume |-> volume]) ELSE toPhone

-----------------------------------------------------------------------------
(* Settings.                                                               *)

Begin(task, v) ==
    /\ settings' = [settings EXCEPT ![task] = <<Setting(v)>>]
    /\ crossed' = (crossed \/ ~Idle(Other(task)))

\* A wrong Up: no upper end.
UpUnclamped(v) == v + VolumeStep

Up(v) == IF v + VolumeStep > MaxVolume THEN MaxVolume ELSE v + VolumeStep

Down(v) == IF v > VolumeStep THEN v - VolumeStep ELSE 0

\* A wrong StepOrder: the gain comes after the callback.
StepOrderSwapped == <<"volume", "callback", "gain", "tell", "clear">>

StepOrder == <<"volume", "gain", "callback", "tell", "clear">>

At(task, step) == ~Idle(task) /\ StepOrder[Head(settings[task]).at] = step

\* The setting's next step; behind a setting within, if the callback made one.
Onward(task, within) ==
    LET setting == Head(settings[task])
        moved == [setting EXCEPT !.at = setting.at + 1]
    IN  settings' = [settings EXCEPT ![task] = within \o <<moved>> \o Tail(@)]

Done(task) == settings' = [settings EXCEPT ![task] = Tail(@)]

StoreVolume(task) ==
    /\ At(task, "volume")
    /\ LET to == Head(settings[task]).to
       IN  /\ volume' = to
           /\ chosen' = (to = 0 /\ (task = "timer" \/ reported))
    /\ crossed' = (crossed /\ ~Idle(Other(task)))
    /\ Onward(task, <<>>)
    /\ UNCHANGED <<gain, notify, volumeState, saved, appQueue, phoneVars, toPhone, reported,
                   missed, inputs>>

StoreGain(task) ==
    /\ At(task, "gain")
    /\ gain' = Gain(Head(settings[task]).to)
    /\ Onward(task, <<>>)
    /\ UNCHANGED <<volume, notify, volumeState, saved, appQueue, phoneVars, toPhone,
                   historyVars, inputs>>

\* A wrong Restored: a volume that was never reported is left as it is.
RestoredIfZero(report) ==
    IF volumeState = "notDefined" /\ report = 0 /\ saved # 0 THEN <<Setting(saved)>> ELSE <<>>

\* _restoreVolume(): the setting it makes within this one, if any.
Restored(report) ==
    IF volumeState = "notDefined" /\ report \in {0, Invalid} /\ saved # 0
    THEN <<Setting(saved)>> ELSE <<>>

Callback(task) ==
    /\ At(task, "callback")
    /\ volumeState' = "set"
    /\ reported' = TRUE
    /\ Onward(task, Restored(Head(settings[task]).to))
    /\ UNCHANGED <<volume, gain, notify, saved, appQueue, phoneVars, toPhone, crossed, chosen,
                   missed, inputs>>

Tell(task) ==
    /\ At(task, "tell")
    /\ IF notify THEN Answers("changed") /\ Onward(task, <<>>)
                 ELSE UNCHANGED toPhone /\ Done(task)
    /\ UNCHANGED <<volume, gain, notify, volumeState, saved, appQueue, phoneVars, historyVars,
                   inputs>>

Clear(task) ==
    /\ At(task, "clear")
    /\ notify' = FALSE
    /\ Done(task)
    /\ UNCHANGED <<volume, gain, volumeState, saved, appQueue, phoneVars, toPhone, historyVars,
                   inputs>>

SettingStep(task) ==
    StoreVolume(task) \/ StoreGain(task) \/ Callback(task) \/ Tell(task) \/ Clear(task)

-----------------------------------------------------------------------------
(* The timer task and btAppTask.                                           *)

Click(to) ==
    /\ Idle("timer") /\ Input
    /\ Begin("timer", to)
    /\ UNCHANGED <<volume, gain, notify, volumeState, saved, appQueue, phoneVars, toPhone,
                   reported, chosen, missed>>

Handle(kind) ==
    /\ Idle("bt")
    /\ appQueue # <<>> /\ Head(appQueue).kind = kind
    /\ appQueue' = Tail(appQueue)
    /\ UNCHANGED <<volume, gain, phoneVars, inputs>>

\* A wrong OnConnected: the fix is for the first link only.
OnConnectedOnce == volumeState

OnConnected == "notDefined"

HandleConnected ==
    /\ Handle("connected")
    /\ volumeState' = OnConnected
    /\ reported' = FALSE
    /\ UNCHANGED <<notify, saved, settings, toPhone, crossed, chosen, missed>>

HandleSet ==
    /\ Handle("set")
    /\ Begin("bt", Head(appQueue).volume)
    /\ UNCHANGED <<notify, volumeState, saved, toPhone, reported, chosen, missed>>

HandleStarted ==
    /\ Handle("started")
    /\ volumeState' = "set"
    /\ reported' = TRUE
    /\ IF Restored(Invalid) # <<>> THEN Begin("bt", saved) ELSE UNCHANGED <<settings, crossed>>
    /\ UNCHANGED <<notify, saved, toPhone, chosen, missed>>

\* _saveVolume()
HandleSuspended ==
    /\ Handle("suspended")
    /\ saved' = volume
    /\ UNCHANGED <<notify, volumeState, settings, toPhone, historyVars>>

\* A wrong HandleRegister: the registration is answered and not kept.
HandleRegisterOnce ==
    /\ Handle("register")
    /\ Answers("interim")
    /\ UNCHANGED <<notify, volumeState, saved, settings, historyVars>>

HandleRegister ==
    /\ Handle("register")
    /\ notify' = TRUE
    /\ Answers("interim")
    /\ missed' = At("timer", "clear")
    /\ UNCHANGED <<volumeState, saved, settings, crossed, reported, chosen>>

HandleEvent ==
    HandleConnected \/ HandleSet \/ HandleStarted \/ HandleSuspended \/ HandleRegister

-----------------------------------------------------------------------------

VolumeNext ==
    \/ PhoneConnects \/ PhoneLeaves
    \/ \E v \in PhoneSets : PhoneSetsVolume(v)
    \/ PhoneStarts \/ PhoneSuspends
    \/ PhoneRegisters \/ PhoneTakes
    \/ \E task \in Tasks : SettingStep(task)
    \/ Click(Up(volume)) \/ Click(Down(volume))
    \/ HandleEvent

VolumeSpec == VolumeInit /\ [][VolumeNext]_volumeVars

\* Both tasks run; a phone that is there registers and takes what it is answered.
FairVolumeSpec ==
    /\ VolumeSpec
    /\ \A task \in Tasks : WF_volumeVars(SettingStep(task))
    /\ WF_volumeVars(HandleEvent)
    /\ WF_volumeVars(PhoneRegisters)
    /\ WF_volumeVars(PhoneTakes)

-----------------------------------------------------------------------------
(* Properties.                                                             *)

\* Every field keeps its type: no step leaves 0 .. 0x7f, and no task is in more than two
\* settings (a restored volume is not restored again).
VolumeTypeOK ==
    /\ volume \in Volumes /\ saved \in Volumes /\ phoneVolume \in Volumes
    /\ gain \in 0 .. Unity
    /\ {notify, link, streaming, crossed, reported, chosen, missed} \subseteq BOOLEAN
    /\ volumeState \in {"notDefined", "set"}
    /\ \A task \in Tasks :
         /\ settings[task] \in Seq([to : Volumes, at : 1 .. Len(StepOrder)])
         /\ Len(settings[task]) <= 2
    /\ appQueue \in Seq([kind : {"connected", "set", "started", "suspended", "register"},
                         volume : Volumes \cup {Invalid}])
    /\ awaits \in {"nothing", "interim", "changed"}
    /\ toPhone \in Seq([kind : {"interim", "changed"}, volume : Volumes])
    /\ inputs \in 0 .. MaxInputs

\* The gain is "recomputed whenever s_volume changes" (NativeA2dpBluetoothSink.h:147): once
\* the volume has been set what is heard is the volume that is told, also when the callback
\* of one setting makes another.  Settings of the two tasks that overlap may leave the
\* volume of one with the gain of the other, until the next.
GainFollows ==
    (\A task \in Tasks : Idle(task)) /\ ~crossed =>
        \/ gain = Gain(volume)
        \/ volume = 0 /\ gain = Unity      \* as at boot

\* The zero-volume fix: once the phone has reported a volume or started the stream on a
\* link, it is not muted, by the boot value or by a first report of zero, unless a zero was
\* chosen or was what is saved, or two settings overlapped and none has come after them.
NotMuted ==
    reported /\ Idle("bt") /\ saved # 0 /\ ~chosen /\ ~crossed => volume # 0

\* Only a chosen zero is ever saved, as a saved zero turns the fix off, unless two settings
\* overlapped and none has come after them.
ZeroSavedIsChosen ==
    [][saved # 0 /\ saved' = 0 => chosen \/ crossed]_volumeVars

\* The phone comes to know the volume that is set, as long as its registration is not
\* lost: it is lost when it comes between the answer to the one before and its clearing.
PhoneAgrees == []<>(~link \/ missed \/ phoneVolume = volume)

=============================================================================
