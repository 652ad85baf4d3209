----------------------------- MODULE MetadataFlow -----------------------------
(***************************************************************************)
(* How the phone's track reaches esPod (NativeA2dpBluetoothSink.cpp,       *)
(* NativeA2dpBluetoothSource.cpp, esPod.cpp):                              *)
(*                                                                         *)
(*   phone           answers what it is asked, tells one change of track   *)
(*                   for each registration, and may leave                  *)
(*   btAppTask       takes the events of the stack; a change is asked for  *)
(*                   again (av_new_track) and goes to onTrackChange(), an  *)
(*                   attribute goes to a queue that drops when it is full  *)
(*   metadata task   collects attributes until 250 ms have passed without  *)
(*                   one, then calls onTrackMetadata()                     *)
(*                                                                         *)
(* A text is known by its kind and the track it is of.  A phone numbers    *)
(* its tracks or reports the same number for all; UIDs are in order in     *)
(* both cases.  The stack is taken to keep what it answers to one question *)
(* together and within the 250 ms, and not to report the interim answer to *)
(* a registration.  The playing time and the number of tracks are left     *)
(* out.  What the car is told of a change is in TrackSession.              *)
(***************************************************************************)
EXTENDS Integers, Sequences

CONSTANTS
    TrackCount,      \* the phone's tracks
    Cyrillic,        \* the tracks whose title is transliterated
    MaxEvents,       \* links and changes of track in all
    MetaQueueSize,   \* room in _avrcMetadataQueue (32)
    OutOfMemory,     \* the copy of a text may fail for want of memory
    Patient          \* no track changes between an answer and the registration behind it

ASSUME MetadataAssumption ==
    /\ {TrackCount, MetaQueueSize} \subseteq Nat \ {0}
    /\ MaxEvents \in Nat
    /\ Cyrillic \subseteq 1 .. TrackCount
    /\ {OutOfMemory, Patient} \subseteq BOOLEAN

VARIABLES
    playing,     \* the phone's track
    numbered,    \* the phone numbers its tracks
    link,        \* the AVRCP link is up
    registered,  \* the phone owes the news of a change
    toPhone,     \* commands on their way
    appQueue,    \* app_task_queue
    rnCap,       \* s_avrc_peer_rn_cap has ESP_AVRC_RN_TRACK_CHANGE
    metaQueue,   \* _avrcMetadataQueue
    texts,       \* pendingMetadata: of which track each text is
    num,         \* trackNum
    prevNum,     \* prevTrackNum
    fresh,       \* avrcMetadataTimestamp is not INVALID_TIMESTAMP
    uid,         \* trackUid
    prevUid,     \* prevTrackUid
    metaPc,      \* where the metadata task stands in onTrackMetadata()
    direction,   \* its argument
    stored,      \* trackTitle, artistName, albumName
    announced,   \* history: the last metadata was taken for a change
    applied,     \* history: the tracks of the last metadata and of that before it
    uidApplied,  \* history: trackUid at the last metadata
    hurried,     \* history: a change was told before the metadata of the last one was in
    dropped,     \* history: an attribute was lost
    spent        \* how much of the bound is used

phoneVars == <<playing, numbered, link, registered>>
taskVars == <<metaQueue, texts, num, prevNum, fresh, metaPc, direction, stored>>
historyVars == <<announced, applied, uidApplied, hurried, dropped>>
metaVars == <<phoneVars, toPhone, appQueue, rnCap, taskVars, uid, prevUid, historyVars, spent>>

Tracks == 1 .. TrackCount
None == 0                               \* INVALID_TRACK_NUM, INVALID_TRACK_UID
TextKinds == {"title", "artist", "album"}

Event(kind) == [kind |-> kind, track |-> None]
Attribute(kind, track) == [kind |-> kind, track |-> track]
Has(queue, kinds) == \E i \in 1 .. Len(queue) : queue[i].kind \in kinds
Attributes == TextKinds \cup {"num"}

NumberOf(track) == IF numbered THEN track ELSE 1

MetaInit ==
    /\ playing = 1
    /\ numbered = FALSE
    /\ link = FALSE
    /\ registered = FALSE
    /\ toPhone = <<>>
    /\ appQueue = <<>>
    /\ rnCap = FALSE
    /\ metaQueue = <<>>
    /\ texts = [kind \in TextKinds |-> None]
    /\ num = None
    /\ prevNum = None
    /\ fresh = FALSE
    /\ uid = None
    /\ prevUid = None
    /\ metaPc = "idle"
    /\ direction = "none"
    /\ stored = [kind \in TextKinds |-> <<kind, None>>]
    /\ announced = FALSE
    /\ applied = [last |-> None, before |-> None]
    /\ uidApplied = None
    /\ hurried = FALSE
    /\ dropped = FALSE
    /\ spent = [changes |-> 0, links |-> 0]

-----------------------------------------------------------------------------
(* The phone and the stack.                                                *)

PhoneConnects ==
    /\ ~link /\ spent.links + spent.changes < MaxEvents
    /\ spent' = [spent EXCEPT !.links = @ + 1]
    /\ link' = TRUE
    /\ numbered' \in BOOLEAN
    /\ playing' \in Tracks
    /\ appQueue' = Append(appQueue, Event("connected"))
    /\ UNCHANGED <<registered, toPhone, rnCap, taskVars, uid, prevUid, historyVars>>

PhoneLeaves ==
    /\ link
    /\ link' = FALSE
    /\ registered' = FALSE
    /\ toPhone' = <<>>
    /\ appQueue' = Append(appQueue, Event("disconnected"))
    /\ UNCHANGED <<playing, numbered, rnCap, taskVars, uid, prevUid, historyVars, spent>>

\* The track has been told and the next change not yet asked for (av_new_track).
Between == toPhone # <<>> /\ Head(toPhone) = "register"

TrackChanges(track) ==
    /\ link /\ track # playing
    /\ spent.links + spent.changes < MaxEvents
    /\ Patient => ~Between
    /\ spent' = [spent EXCEPT !.changes = @ + 1]
    /\ playing' = track
    /\ registered' = FALSE
    /\ appQueue' = IF registered THEN Append(appQueue, [kind |-> "change", track |-> track])
                                 ELSE appQueue
    /\ UNCHANGED <<numbered, link, toPhone, rnCap, taskVars, uid, prevUid, historyVars>>

Taken(command) ==
    /\ toPhone # <<>> /\ Head(toPhone) = command
    /\ toPhone' = Tail(toPhone)
    /\ UNCHANGED <<playing, numbered, link, rnCap, taskVars, uid, prevUid, historyVars, spent>>

AnswersCapabilities ==
    /\ Taken("capabilities")
    /\ appQueue' = Append(appQueue, Event("capabilities"))
    /\ UNCHANGED registered

AnswersMetadata ==
    /\ Taken("metadata")
    /\ appQueue' = appQueue \o <<Attribute("title", playing), Attribute("artist", playing),
                                 Attribute("album", playing),
                                 Attribute("num", NumberOf(playing))>>
    /\ UNCHANGED registered

Registers ==
    /\ Taken("register")
    /\ registered' = TRUE
    /\ UNCHANGED appQueue

Phone == AnswersCapabilities \/ AnswersMetadata \/ Registers

-----------------------------------------------------------------------------
(* btAppTask.                                                              *)

Handle(kind) ==
    /\ appQueue # <<>> /\ Head(appQueue).kind = kind
    /\ appQueue' = Tail(appQueue)
    /\ UNCHANGED <<phoneVars, spent>>

Sends(commands) == toPhone' = IF link THEN toPhone \o commands ELSE toPhone

\* A wrong NewTrack: only the track is asked for.
NewTrackOnce(capable) == Sends(<<"metadata">>)

\* av_new_track(): the track is asked for, then the next change.
NewTrack(capable) ==
    Sends(<<"metadata">> \o (IF capable THEN <<"register">> ELSE <<>>))

HandleConnected ==
    /\ Handle("connected")
    /\ Sends(<<"capabilities">>)
    /\ UNCHANGED <<rnCap, taskVars, uid, prevUid, historyVars>>

HandleDisconnected ==
    /\ Handle("disconnected")
    /\ rnCap' = FALSE
    /\ UNCHANGED <<toPhone, taskVars, uid, prevUid, historyVars>>

HandleCapabilities ==
    /\ Handle("capabilities")
    /\ rnCap' = TRUE
    /\ NewTrack(rnCap')
    /\ UNCHANGED <<taskVars, uid, prevUid, historyVars>>

\* Metadata of the change before is still on its way or being applied.
Collecting ==
    \/ fresh \/ metaPc # "idle" \/ metaQueue # <<>>
    \/ Has(Tail(appQueue), Attributes)
    \/ \E i \in 1 .. Len(toPhone) : toPhone[i] = "metadata"

HandleChange ==
    /\ Handle("change")
    /\ uid' = Head(appQueue).track
    /\ prevUid' = IF prevUid = None THEN uid' ELSE prevUid
    /\ NewTrack(rnCap)
    /\ hurried' = (hurried \/ Collecting)
    /\ UNCHANGED <<rnCap, taskVars, announced, applied, uidApplied, dropped>>

\* A wrong Full: one attribute too many.
FullLate == Len(metaQueue) > MetaQueueSize

\* The metadata callback does not wait for room.
Full == Len(metaQueue) = MetaQueueSize

\* An attribute is lost when there is no room for it, or no memory for its text.
HandleAttribute ==
    /\ appQueue # <<>> /\ Head(appQueue).kind \in Attributes
    /\ Handle(Head(appQueue).kind)
    /\ \/ ~Full /\ metaQueue' = Append(metaQueue, Head(appQueue)) /\ UNCHANGED dropped
       \/ (Full \/ OutOfMemory) /\ UNCHANGED metaQueue /\ dropped' = TRUE
    /\ UNCHANGED <<toPhone, rnCap, texts, num, prevNum, fresh, metaPc, direction, stored, uid,
                   prevUid, announced, applied, uidApplied, hurried>>

\* resetState(), when the session ends: that of a lost phone, or with a phone linked at a
\* takeover and on a stale message of the grace period.  The texts stay, and so does what the
\* metadata task keeps.
SessionEnds ==
    /\ uid' = None
    /\ prevUid' = None
    /\ applied' = [applied EXCEPT !.before = None]
    /\ uidApplied' = None
    /\ UNCHANGED <<phoneVars, toPhone, appQueue, rnCap, taskVars, announced, hurried, dropped,
                   spent>>

BtAppTask ==
    \/ HandleConnected \/ HandleDisconnected \/ HandleCapabilities
    \/ HandleChange \/ HandleAttribute

-----------------------------------------------------------------------------
(* The metadata task.                                                      *)

Collect ==
    /\ metaPc = "idle" /\ metaQueue # <<>>
    /\ metaQueue' = Tail(metaQueue)
    /\ fresh' = TRUE
    /\ LET item == Head(metaQueue)
       IN  IF item.kind = "num"
           THEN /\ num' = item.track
                /\ prevNum' = IF prevNum = None THEN num' ELSE prevNum
                /\ UNCHANGED texts
           ELSE /\ texts' = [texts EXCEPT ![item.kind] = item.track]
                /\ UNCHANGED <<num, prevNum>>
    /\ UNCHANGED <<phoneVars, toPhone, appQueue, rnCap, metaPc, direction, stored, uid,
                   prevUid, historyVars, spent>>

\* A wrong Silence: the time counts from the first attribute.
SilenceSinceFirst == fresh

\* 250 ms since the last attribute, with the next one of the same answer within them.
Silence == fresh /\ metaQueue = <<>> /\ ~Has(appQueue, Attributes)

\* A wrong ByNumber: it compares the wrong way round.
ByNumberReversed == CASE num > prevNum -> "prev" [] num < prevNum -> "next" [] OTHER -> "none"

ByNumber == CASE num < prevNum -> "prev" [] num > prevNum -> "next" [] OTHER -> "none"

\* A wrong ByUid: the track whose UID came before the last one is taken for the new one.
ByUidReversed == IF prevUid < uid THEN "prev" ELSE "next"

ByUid == IF uid < prevUid THEN "prev" ELSE "next"

Settle ==
    /\ metaPc = "idle" /\ Silence
    /\ metaPc' = "apply"
    /\ fresh' = FALSE
    /\ direction' = IF ByNumber = "none" /\ uid # None THEN ByUid ELSE ByNumber
    /\ prevNum' = num
    /\ applied' = [last |-> texts["title"], before |-> applied.last]
    /\ UNCHANGED <<phoneVars, toPhone, appQueue, rnCap, metaQueue, texts, num, stored, uid,
                   prevUid, announced, uidApplied, hurried, dropped, spent>>

Changed == \E kind \in TextKinds : stored[kind] # <<kind, texts[kind]>>

\* A wrong Kept: the album stays what it was.
KeptButAlbum ==
    IF texts["title"] \in Cyrillic
    THEN [title |-> <<"latin", texts["title"]>>, artist |-> <<"title", texts["title"]>>,
          album |-> <<"artist", texts["artist"]>>]
    ELSE [title |-> <<"title", texts["title"]>>, artist |-> <<"artist", texts["artist"]>>,
          album |-> stored.album]

\* A transliterated title moves the others down.
Kept ==
    IF texts["title"] \in Cyrillic
    THEN [title |-> <<"latin", texts["title"]>>, artist |-> <<"title", texts["title"]>>,
          album |-> <<"artist", texts["artist"]>>]
    ELSE [kind \in TextKinds |-> <<kind, texts[kind]>>]

Apply ==
    /\ metaPc = "apply"
    /\ metaPc' = "note"
    /\ announced' = Changed
    /\ stored' = IF Changed THEN Kept ELSE stored
    /\ UNCHANGED <<phoneVars, toPhone, appQueue, rnCap, metaQueue, texts, num, prevNum, fresh,
                   direction, uid, prevUid, applied, uidApplied, hurried, dropped, spent>>

\* The UID is read again: it may be that of a later track by now.
NoteUid ==
    /\ metaPc = "note"
    /\ metaPc' = "idle"
    /\ prevUid' = uid
    /\ uidApplied' = uid
    /\ hurried' = (hurried /\ (metaQueue # <<>> \/ Has(appQueue, Attributes)
                               \/ \E i \in 1 .. Len(toPhone) : toPhone[i] = "metadata"))
    /\ UNCHANGED <<phoneVars, toPhone, appQueue, rnCap, metaQueue, texts, num, prevNum, fresh,
                   direction, stored, uid, announced, applied, dropped, spent>>

MetadataTask == Collect \/ Settle \/ Apply \/ NoteUid

-----------------------------------------------------------------------------

MetaNext ==
    \/ PhoneConnects \/ PhoneLeaves
    \/ \E track \in Tracks : TrackChanges(track)
    \/ Phone
    \/ BtAppTask
    \/ SessionEnds
    \/ MetadataTask

MetaSpec == MetaInit /\ [][MetaNext]_metaVars

\* A phone that is linked answers and the tasks run; no track has to change.
FairMetaSpec ==
    /\ MetaSpec
    /\ WF_metaVars(Phone)
    /\ WF_metaVars(BtAppTask)
    /\ WF_metaVars(MetadataTask)

-----------------------------------------------------------------------------
(* Properties.                                                             *)

Texts == (TextKinds \cup {"latin"}) \X (Tracks \cup {None})

\* Every field keeps its type; the queue of attributes keeps its size.
MetaTypeOK ==
    /\ playing \in Tracks
    /\ {numbered, link, registered, rnCap, fresh, announced, hurried, dropped} \subseteq BOOLEAN
    /\ toPhone \in Seq({"capabilities", "metadata", "register"})
    /\ appQueue \in Seq([kind : Attributes \cup {"connected", "disconnected", "capabilities",
                                                 "change"},
                         track : Tracks \cup {None}])
    /\ metaQueue \in Seq([kind : Attributes, track : Tracks])
    /\ Len(metaQueue) <= MetaQueueSize
    /\ texts \in [TextKinds -> Tracks \cup {None}]
    /\ {num, prevNum, uid, prevUid, uidApplied} \subseteq Tracks \cup {None}
    /\ applied \in [last : Tracks \cup {None}, before : Tracks \cup {None}]
    /\ metaPc \in {"idle", "apply", "note"}
    /\ direction \in {"prev", "next", "none"}
    /\ stored \in [TextKinds -> Texts]
    /\ spent \in [changes : 0 .. MaxEvents, links : 0 .. MaxEvents]

\* What is applied is one track's, as long as no attribute was lost: the texts are
\* collected in place, one by one, over those of the track before.
OneTrackAtATime ==
    metaPc = "apply" /\ ~dropped =>
        \A kind \in TextKinds : texts[kind] = texts["title"] /\ texts[kind] # None

\* A change of track is announced in the direction it was made: by its number, or by its
\* UID when the changes did not come too fast for the metadata and one was told before.
DirectionRight ==
    LET toldByNumber == numbered /\ num = applied.last
        toldByUid == /\ ~numbered /\ ~hurried
                     /\ uid = applied.last
                     /\ uidApplied = applied.before
    IN  ( /\ metaPc = "apply" /\ ~dropped
          /\ link /\ spent.links = 1
          /\ applied.before \notin {None, applied.last}
          /\ toldByNumber \/ toldByUid )
        => direction = (IF applied.last < applied.before THEN "prev" ELSE "next")

\* "check if metadata changed" (esPod.cpp:1062): metadata that comes again is no change of
\* track and that of another track is one.  A transliterated title counts as changed each
\* time, as what is stored never equals what comes.
ChangeIsNew ==
    [][metaPc = "apply" /\ metaPc' = "note" /\ ~dropped =>
         IF announced' THEN applied.before # applied.last \/ applied.last \in Cyrillic
                       ELSE applied.before \in {None, applied.last}]_metaVars

Showing ==
    IF playing \in Cyrillic
    THEN stored["title"] = <<"latin", playing>> /\ stored["artist"] = <<"title", playing>>
    ELSE \A kind \in TextKinds : stored[kind] = <<kind, playing>>

\* When a phone stays on a track, esPod comes to have that track's texts, over changes in
\* quick succession, lost links and other phones.  This is for a Patient phone, whose track
\* does not change between its answer and the registration behind it, and no attribute lost.
TrackArrives == []<>(~link \/ dropped \/ Showing)

=============================================================================
