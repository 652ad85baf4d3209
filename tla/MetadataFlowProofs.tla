-------------------------- MODULE MetadataFlowProofs --------------------------
(***************************************************************************)
(* What MetadataFlow keeps for any number of tracks, events and places in  *)
(* the queue, whichever titles are transliterated, for phones that change  *)
(* their track at any moment: the types, that what is applied is one       *)
(* track's, that a change is announced in its direction, and that it is    *)
(* announced when it is one.                                               *)
(***************************************************************************)
EXTENDS MetadataFlow, SequenceTheorems, TLAPS

(***************************************************************************)
(* Types.                                                                  *)
(***************************************************************************)

TrackOrNone == Tracks \cup {None}
CommandKinds == {"capabilities", "metadata", "register"}
EventKinds == {"connected", "disconnected", "capabilities", "change"}
AttributeItems == [kind : Attributes, track : Tracks]
Items == AttributeItems \cup [kind : EventKinds, track : TrackOrNone]
Spent == [changes : 0 .. MaxEvents, links : 0 .. MaxEvents]

QueuesTyped ==
    /\ toPhone \in Seq(CommandKinds)
    /\ appQueue \in Seq(Items)
    /\ metaQueue \in Seq(AttributeItems)
    /\ Len(metaQueue) <= MetaQueueSize

PhoneTyped ==
    /\ playing \in Tracks
    /\ numbered \in BOOLEAN /\ link \in BOOLEAN /\ registered \in BOOLEAN /\ rnCap \in BOOLEAN
    /\ spent \in Spent

TaskTyped ==
    /\ fresh \in BOOLEAN /\ announced \in BOOLEAN /\ hurried \in BOOLEAN /\ dropped \in BOOLEAN
    /\ texts \in [TextKinds -> TrackOrNone]
    /\ num \in TrackOrNone /\ prevNum \in TrackOrNone
    /\ uid \in TrackOrNone /\ prevUid \in TrackOrNone /\ uidApplied \in TrackOrNone
    /\ applied \in [last : TrackOrNone, before : TrackOrNone]
    /\ metaPc \in {"idle", "apply", "note"}
    /\ direction \in {"prev", "next", "none"}
    /\ stored \in [TextKinds -> Texts]

Typed == QueuesTyped /\ PhoneTyped /\ TaskTyped

LEMMA TypedIsTypeOK == Typed => MetaTypeOK
<1> SUFFICES ASSUME Typed PROVE MetaTypeOK
    OBVIOUS
<1>1. appQueue \in Seq([kind : Attributes \cup EventKinds, track : TrackOrNone])
    <2>1. Items \subseteq [kind : Attributes \cup EventKinds, track : TrackOrNone]
        BY DEF Items, AttributeItems, TrackOrNone
    <2> QED BY <2>1, SeqMonotonic DEF Typed, QueuesTyped
<1> QED BY <1>1
    DEF Typed, QueuesTyped, PhoneTyped, TaskTyped, MetaTypeOK, CommandKinds, EventKinds,
        AttributeItems, TrackOrNone, Spent

\* What an item is, by its kind.
LEMMA ItemKinds ==
    /\ \A item \in Items :
         /\ item.kind \in Attributes \cup EventKinds /\ item.track \in TrackOrNone
         /\ item.kind \in Attributes => item \in AttributeItems /\ item.track \in Tracks
    /\ \A kind \in Attributes, track \in Tracks : Attribute(kind, track) \in AttributeItems
    /\ AttributeItems \subseteq Items
<1>1. Attributes \cap EventKinds = {}
    BY DEF Attributes, TextKinds, EventKinds
<1>2. \A item \in Items : item.kind \in Attributes => item \in AttributeItems
    BY <1>1 DEF Items
<1> QED BY <1>2 DEF Items, AttributeItems, Attribute, TrackOrNone

LEMMA EventItems ==
    /\ \A kind \in EventKinds : Event(kind) \in Items
    /\ \A track \in Tracks : [kind |-> "change", track |-> track] \in Items
BY DEF Items, EventKinds, TrackOrNone, Event

\* The phone's number of a track is one.
LEMMA NumberIsTrack ==
    ASSUME NEW track \in Tracks
    PROVE  NumberOf(track) \in Tracks
BY MetadataAssumption DEF NumberOf, Tracks

LEMMA HandleTyped ==
    ASSUME QueuesTyped, NEW kind, Handle(kind)
    PROVE  /\ appQueue # <<>> /\ Head(appQueue) \in Items /\ Head(appQueue) = appQueue[1]
           /\ appQueue[1].kind = kind
           /\ appQueue' = Tail(appQueue) /\ appQueue' \in Seq(Items)
           /\ UNCHANGED phoneVars /\ UNCHANGED spent
BY HeadTailProperties DEF QueuesTyped, Handle

\* What btAppTask has av_new_track() and its like send are commands.
LEMMA SendsTyped ==
    ASSUME QueuesTyped, NEW commands \in Seq(CommandKinds), Sends(commands)
    PROVE  toPhone' \in Seq(CommandKinds)
BY ConcatProperties DEF QueuesTyped, Sends

LEMMA NewTrackTyped ==
    ASSUME QueuesTyped, NEW capable, NewTrack(capable)
    PROVE  toPhone' \in Seq(CommandKinds)
<1>1. <<"metadata">> \in Seq(CommandKinds) /\ <<"register">> \in Seq(CommandKinds)
      /\ <<>> \in Seq(CommandKinds)
    BY DEF CommandKinds
<1>2. <<"metadata">> \o (IF capable THEN <<"register">> ELSE <<>>) \in Seq(CommandKinds)
    BY <1>1, ConcatProperties
<1> QED BY <1>2, SendsTyped DEF NewTrack

LEMMA QueuesStep ==
    ASSUME Typed, [MetaNext]_metaVars
    PROVE  QueuesTyped'
<1>q. /\ toPhone \in Seq(CommandKinds) /\ appQueue \in Seq(Items)
      /\ metaQueue \in Seq(AttributeItems) /\ Len(metaQueue) <= MetaQueueSize /\ QueuesTyped
    BY DEF Typed, QueuesTyped
<1>e. /\ \A item \in Items : Append(appQueue, item) \in Seq(Items)
    BY <1>q, AppendProperties
<1>1. CASE PhoneConnects
    <2>1. Event("connected") \in Items
        BY EventItems DEF EventKinds
    <2> QED BY <1>1, <2>1, <1>q, <1>e DEF PhoneConnects, QueuesTyped, taskVars
<1>2. CASE PhoneLeaves
    <2>1. Event("disconnected") \in Items /\ <<>> \in Seq(CommandKinds)
        BY EventItems DEF EventKinds
    <2> QED BY <1>2, <2>1, <1>q, <1>e DEF PhoneLeaves, QueuesTyped, taskVars
<1>3. ASSUME NEW track \in Tracks, TrackChanges(track) PROVE QueuesTyped'
    <2>1. appQueue' \in Seq(Items)
        BY <1>3, <1>q, <1>e, EventItems DEF TrackChanges
    <2> QED BY <1>3, <2>1, <1>q DEF TrackChanges, QueuesTyped, taskVars
<1>4. CASE Phone
    <2>1. PICK command \in CommandKinds : Taken(command)
        BY <1>4 DEF Phone, AnswersCapabilities, AnswersMetadata, Registers, CommandKinds
    <2>2. toPhone' \in Seq(CommandKinds) /\ UNCHANGED metaQueue
        BY <2>1, <1>q, HeadTailProperties DEF Taken, taskVars
    <2>3. CASE AnswersCapabilities
        <3>1. Event("capabilities") \in Items
            BY EventItems DEF EventKinds
        <3> QED BY <2>2, <2>3, <3>1, <1>q, <1>e DEF AnswersCapabilities, QueuesTyped
    <2>4. CASE AnswersMetadata
        <3>1. /\ playing \in Tracks /\ NumberOf(playing) \in Tracks
              /\ {"title", "artist", "album", "num"} \subseteq Attributes
            BY NumberIsTrack DEF Typed, PhoneTyped, Attributes, TextKinds
        <3>2. /\ Attribute("title", playing) \in Items /\ Attribute("artist", playing) \in Items
              /\ Attribute("album", playing) \in Items
              /\ Attribute("num", NumberOf(playing)) \in Items
            BY <3>1, ItemKinds
        <3>3. <<Attribute("title", playing), Attribute("artist", playing),
                Attribute("album", playing), Attribute("num", NumberOf(playing))>> \in Seq(Items)
            BY <3>2
        <3>4. appQueue' \in Seq(Items)
            BY <2>4, <3>3, <1>q, ConcatProperties DEF AnswersMetadata
        <3> QED BY <2>2, <3>4, <1>q DEF QueuesTyped
    <2>5. CASE Registers
        BY <2>2, <2>5, <1>q DEF Registers, QueuesTyped
    <2> QED BY <1>4, <2>3, <2>4, <2>5 DEF Phone
<1>5. CASE HandleConnected
    <2>1. <<"capabilities">> \in Seq(CommandKinds)
        BY DEF CommandKinds
    <2> QED
        BY <1>5, <2>1, <1>q, HandleTyped, SendsTyped DEF HandleConnected, QueuesTyped, taskVars
<1>6. CASE HandleDisconnected
    BY <1>6, <1>q, HandleTyped DEF HandleDisconnected, QueuesTyped, taskVars
<1>7. CASE HandleCapabilities
    BY <1>7, <1>q, HandleTyped, NewTrackTyped DEF HandleCapabilities, QueuesTyped, taskVars
<1>8. CASE HandleChange
    BY <1>8, <1>q, HandleTyped, NewTrackTyped DEF HandleChange, QueuesTyped, taskVars
<1>9. CASE HandleAttribute
    <2>1. /\ Head(appQueue) \in Items /\ Head(appQueue).kind \in Attributes
          /\ appQueue' \in Seq(Items)
        BY <1>9, <1>q, HandleTyped DEF HandleAttribute
    <2>2. Head(appQueue) \in AttributeItems
        BY <2>1, ItemKinds
    <2>3. metaQueue' \in Seq(AttributeItems) /\ Len(metaQueue') <= MetaQueueSize
        <3>1. CASE UNCHANGED metaQueue
            BY <3>1, <1>q
        <3>2. CASE metaQueue' # metaQueue
            <4>1. metaQueue' = Append(metaQueue, Head(appQueue)) /\ Len(metaQueue) # MetaQueueSize
                BY <1>9, <3>2 DEF HandleAttribute, Full
            <4> QED BY <2>2, <4>1, <1>q, AppendProperties, MetadataAssumption
        <3> QED BY <3>1, <3>2
    <2> QED BY <1>9, <2>1, <2>3, <1>q DEF HandleAttribute, QueuesTyped
<1>10. CASE SessionEnds
    BY <1>10, <1>q DEF SessionEnds, QueuesTyped, taskVars
<1>11. CASE Collect
    <2>1. metaQueue' \in Seq(AttributeItems) /\ Len(metaQueue') = Len(metaQueue) - 1
        BY <1>11, <1>q, HeadTailProperties DEF Collect
    <2>2. Len(metaQueue') <= MetaQueueSize
        BY <2>1, <1>q, MetadataAssumption
    <2> QED BY <1>11, <2>1, <2>2, <1>q DEF Collect, QueuesTyped
<1>12. CASE Settle \/ Apply \/ NoteUid \/ UNCHANGED metaVars
    <2>1. UNCHANGED <<toPhone, appQueue, metaQueue>>
        BY <1>12 DEF Settle, Apply, NoteUid, metaVars, taskVars
    <2> QED BY <2>1, <1>q DEF QueuesTyped
<1> QED
    BY <1>1, <1>2, <1>3, <1>4, <1>5, <1>6, <1>7, <1>8, <1>9, <1>10, <1>11, <1>12
    DEF MetaNext, BtAppTask, MetadataTask

LEMMA PhoneStep ==
    ASSUME Typed, [MetaNext]_metaVars
    PROVE  PhoneTyped'
<1>p. PhoneTyped /\ QueuesTyped
    BY DEF Typed
<1>1. CASE PhoneConnects
    <2>1. spent' \in Spent
        BY <1>1, <1>p, MetadataAssumption DEF PhoneConnects, PhoneTyped, Spent
    <2> QED BY <1>1, <2>1, <1>p DEF PhoneConnects, PhoneTyped
<1>2. CASE PhoneLeaves
    BY <1>2, <1>p DEF PhoneLeaves, PhoneTyped
<1>3. ASSUME NEW track \in Tracks, TrackChanges(track) PROVE PhoneTyped'
    <2>1. spent' \in Spent
        BY <1>3, <1>p, MetadataAssumption DEF TrackChanges, PhoneTyped, Spent
    <2> QED BY <1>3, <2>1, <1>p DEF TrackChanges, PhoneTyped
<1>4. CASE Phone
    BY <1>4, <1>p DEF Phone, AnswersCapabilities, AnswersMetadata, Registers, Taken, PhoneTyped
<1>5. CASE BtAppTask
    <2>1. UNCHANGED phoneVars /\ UNCHANGED spent
        BY <1>5
        DEF BtAppTask, HandleConnected, HandleDisconnected, HandleCapabilities, HandleChange,
            HandleAttribute, Handle
    <2>2. rnCap' \in BOOLEAN
        BY <1>5, <1>p
        DEF BtAppTask, HandleConnected, HandleDisconnected, HandleCapabilities, HandleChange,
            HandleAttribute, PhoneTyped
    <2> QED BY <2>1, <2>2, <1>p DEF phoneVars, PhoneTyped
<1>6. CASE SessionEnds \/ MetadataTask \/ UNCHANGED metaVars
    <2>1. UNCHANGED phoneVars /\ UNCHANGED <<rnCap, spent>>
        BY <1>6 DEF SessionEnds, MetadataTask, Collect, Settle, Apply, NoteUid, metaVars
    <2> QED BY <2>1, <1>p DEF phoneVars, PhoneTyped
<1> QED BY <1>1, <1>2, <1>3, <1>4, <1>5, <1>6 DEF MetaNext

\* The history and what the metadata task keeps: a change brings a UID, an attribute its
\* track, and what is applied is shown.
LEMMA TaskStep ==
    ASSUME Typed, [MetaNext]_metaVars
    PROVE  TaskTyped'
<1>t. TaskTyped /\ QueuesTyped
    BY DEF Typed
<1>1. CASE UNCHANGED <<taskVars, uid, prevUid, historyVars>>
    BY <1>1, <1>t DEF taskVars, historyVars, TaskTyped
<1>2. CASE HandleChange
    <2>1. Head(appQueue) \in Items
        BY <1>2, <1>t, HandleTyped DEF HandleChange
    <2>2. uid' \in TrackOrNone /\ prevUid' \in TrackOrNone
        BY <1>2, <2>1, <1>t, ItemKinds DEF HandleChange, TaskTyped
    <2>3. hurried' \in BOOLEAN
        BY <1>2 DEF HandleChange
    <2> QED BY <1>2, <2>2, <2>3, <1>t DEF HandleChange, taskVars, TaskTyped
<1>3. CASE HandleAttribute
    <2>1. dropped' \in BOOLEAN
        BY <1>3, <1>t DEF HandleAttribute, TaskTyped
    <2> QED BY <1>3, <2>1, <1>t DEF HandleAttribute, TaskTyped
<1>4. CASE SessionEnds
    <2>1. applied' \in [last : TrackOrNone, before : TrackOrNone]
        BY <1>4, <1>t DEF SessionEnds, TaskTyped, TrackOrNone
    <2> QED BY <1>4, <2>1, <1>t DEF SessionEnds, TaskTyped, taskVars, TrackOrNone
<1>5. CASE Collect
    <2>1. Head(metaQueue) \in AttributeItems
        BY <1>5, <1>t, HeadTailProperties DEF Collect, QueuesTyped
    <2>2. Head(metaQueue).track \in TrackOrNone
        BY <2>1 DEF AttributeItems, TrackOrNone
    <2>3. texts' \in [TextKinds -> TrackOrNone]
        BY <1>5, <2>2, <1>t DEF Collect, TaskTyped
    <2>4. num' \in TrackOrNone /\ prevNum' \in TrackOrNone
        BY <1>5, <2>2, <1>t DEF Collect, TaskTyped
    <2> QED BY <1>5, <2>3, <2>4, <1>t DEF Collect, TaskTyped, historyVars
<1>6. CASE Settle
    <2>1. applied' \in [last : TrackOrNone, before : TrackOrNone]
        BY <1>6, <1>t DEF Settle, TaskTyped, TextKinds
    <2>2. direction' \in {"prev", "next", "none"}
        <3>1. ByNumber \in {"prev", "next", "none"}
            BY <1>t DEF ByNumber
        <3> QED BY <1>6, <3>1 DEF Settle, ByUid
    <2> QED BY <1>6, <2>1, <2>2, <1>t DEF Settle, TaskTyped
<1>7. CASE Apply
    <2>1. announced' \in BOOLEAN
        BY <1>7 DEF Apply, Changed
    <2>2. texts["title"] \in TrackOrNone /\ texts["artist"] \in TrackOrNone
          /\ \A kind \in TextKinds : texts[kind] \in TrackOrNone
        BY <1>t DEF TaskTyped, TextKinds
    <2>3. Kept \in [TextKinds -> Texts]
        BY <2>2 DEF Kept, Texts, TextKinds, TrackOrNone
    <2>4. stored' \in [TextKinds -> Texts]
        BY <1>7, <2>3, <1>t DEF Apply, TaskTyped
    <2> QED BY <1>7, <2>1, <2>4, <1>t DEF Apply, TaskTyped
<1>8. CASE NoteUid
    <2>1. hurried' \in BOOLEAN
        BY <1>8 DEF NoteUid
    <2> QED BY <1>8, <2>1, <1>t DEF NoteUid, TaskTyped
<1>9. CASE PhoneConnects \/ PhoneLeaves \/ (\E track \in Tracks : TrackChanges(track)) \/ Phone
           \/ HandleConnected \/ HandleDisconnected \/ HandleCapabilities \/ UNCHANGED metaVars
    BY <1>9, <1>1
    DEF PhoneConnects, PhoneLeaves, TrackChanges, Phone, AnswersCapabilities, AnswersMetadata,
        Registers, Taken, HandleConnected, HandleDisconnected, HandleCapabilities, metaVars
<1> QED
    BY <1>2, <1>3, <1>4, <1>5, <1>6, <1>7, <1>8, <1>9 DEF MetaNext, BtAppTask, MetadataTask

LEMMA TypedStep == Typed /\ [MetaNext]_metaVars => Typed'
BY QueuesStep, PhoneStep, TaskStep DEF Typed

LEMMA TypedInit == MetaInit => Typed
<1> SUFFICES ASSUME MetaInit PROVE Typed
    OBVIOUS
<1>1. QueuesTyped
    BY MetadataAssumption, EmptySeq DEF MetaInit, QueuesTyped
<1>2. PhoneTyped
    <2>1. 1 \in Tracks /\ [changes |-> 0, links |-> 0] \in Spent
        BY MetadataAssumption DEF Tracks, Spent
    <2> QED BY <2>1 DEF MetaInit, PhoneTyped
<1>3. stored \in [TextKinds -> Texts]
    BY DEF MetaInit, Texts
<1>4. TaskTyped
    BY <1>3 DEF MetaInit, TaskTyped, TrackOrNone
<1> QED BY <1>1, <1>2, <1>4 DEF Typed

\* Every field keeps its type, and the queue of attributes its size: an attribute is
\* lost when it finds no room, or no memory for its text.
THEOREM MetaTypeCorrect == MetaSpec => []MetaTypeOK
BY TypedInit, TypedStep, TypedIsTypeOK, PTL DEF MetaSpec

(***************************************************************************)
(* The line of attributes, from the queue of btAppTask to the texts: the   *)
(* four of an answer stay together and in order, so that the texts are of  *)
(* one track whenever the next attribute is a title or none is on its way. *)
(***************************************************************************)

NewKinds == {"title"} \cup EventKinds

\* The phone has been the only one so far: its way to number the tracks has not changed.
OnePhone == spent.links = 1

\* What stands behind an item.
Follows(e, f) ==
    /\ e.kind = "title" => f = Attribute("artist", e.track)
    /\ e.kind = "artist" => f = Attribute("album", e.track)
    /\ e.kind = "album" => f.kind = "num" /\ (OnePhone => f.track = NumberOf(e.track))
    /\ e.kind \notin TextKinds => f.kind \in NewKinds

Linked(queue) == \A i \in 1 .. (Len(queue) - 1) : Follows(queue[i], queue[i + 1])

LineInv ==
    /\ Linked(metaQueue) /\ Linked(appQueue)
    /\ metaQueue # <<>> /\ appQueue # <<>> => Follows(metaQueue[Len(metaQueue)], appQueue[1])
    /\ appQueue # <<>> => appQueue[Len(appQueue)].kind \notin TextKinds
    /\ appQueue = <<>> /\ metaQueue # <<>> => metaQueue[Len(metaQueue)].kind \notin TextKinds

SameTexts == \A kind \in TextKinds : texts[kind] = texts["title"]

\* All of an answer has been collected.
Complete ==
    /\ SameTexts
    /\ OnePhone /\ texts["title"] # None => num = NumberOf(texts["title"])

\* What has been collected when an item is the next one.
Before(e) ==
    /\ e.kind \in NewKinds => Complete
    /\ e.kind = "artist" => texts["title"] = e.track
    /\ e.kind = "album" => texts["title"] = e.track /\ texts["artist"] = e.track
    /\ e.kind = "num" => /\ SameTexts /\ texts["title"] # None
                         /\ OnePhone => e.track = NumberOf(texts["title"])

HeadInv ==
    /\ metaQueue # <<>> => Before(metaQueue[1])
    /\ metaQueue = <<>> /\ appQueue # <<>> => Before(appQueue[1])
    /\ metaQueue = <<>> /\ appQueue = <<>> => Complete
    /\ fresh => texts["title"] # None

\* Before the first link there is nothing.
NoPhoneYet ==
    spent.links = 0 =>
        /\ ~link /\ ~fresh
        /\ appQueue = <<>> /\ metaQueue = <<>> /\ toPhone = <<>>
        /\ texts["title"] = None /\ applied.last = None /\ applied.before = None

\* Between two steps that are no new link, items that follow each other go on to.
LEMMA FollowsStays ==
    ASSUME Typed, NEW e, NEW f, Follows(e, f),
           \/ numbered' = numbered /\ spent'.links = spent.links
           \/ spent'.links \notin {0, 1}
    PROVE  Follows(e, f)'
BY DEF Follows, OnePhone, NumberOf

\* A link is counted, and no other step changes how the phone numbers its tracks.
LEMMA LinksCount ==
    ASSUME Typed, [MetaNext]_metaVars
    PROVE  \/ numbered' = numbered /\ spent'.links = spent.links
           \/ PhoneConnects /\ spent'.links = spent.links + 1
<1>1. spent \in [changes : 0 .. MaxEvents, links : 0 .. MaxEvents]
    BY DEF Typed, PhoneTyped, Spent
<1>2. CASE PhoneConnects
    BY <1>1, <1>2 DEF PhoneConnects
<1>3. CASE PhoneLeaves
    BY <1>3 DEF PhoneLeaves
<1>4. ASSUME NEW track \in Tracks, TrackChanges(track) PROVE numbered' = numbered /\ spent'.links = spent.links
    BY <1>1, <1>4 DEF TrackChanges
<1>5. CASE Phone
    BY <1>5 DEF Phone, AnswersCapabilities, AnswersMetadata, Registers, Taken
<1>6. CASE BtAppTask
    BY <1>6
    DEF BtAppTask, HandleConnected, HandleDisconnected, HandleCapabilities, HandleChange,
        HandleAttribute, Handle, phoneVars
<1>7. CASE SessionEnds \/ MetadataTask \/ UNCHANGED metaVars
    BY <1>7 DEF SessionEnds, MetadataTask, Collect, Settle, Apply, NoteUid, metaVars, phoneVars
<1> QED BY <1>2, <1>3, <1>4, <1>5, <1>6, <1>7 DEF MetaNext

\* No other phone, or one that is not the first.
SameNumbers ==
    \/ numbered' = numbered /\ spent'.links = spent.links
    \/ spent'.links \notin {0, 1}

LEMMA LineStays ==
    ASSUME Typed, LineInv, UNCHANGED <<appQueue, metaQueue>>, SameNumbers
    PROVE  LineInv'
<1>1. \A e, f : Follows(e, f) => Follows(e, f)'
    BY FollowsStays DEF SameNumbers
<1> QED BY <1>1 DEF LineInv, Linked

\* An event goes behind what is whole.
LEMMA EventIn ==
    ASSUME Typed, LineInv, SameNumbers,
           NEW item \in Items, item.kind \in EventKinds,
           appQueue' = Append(appQueue, item), UNCHANGED metaQueue
    PROVE  LineInv'
<1>1. \A e, f : Follows(e, f) => Follows(e, f)'
    BY FollowsStays DEF SameNumbers
<1>2. /\ Len(appQueue) \in Nat /\ Len(appQueue') = Len(appQueue) + 1
      /\ \A i \in 1 .. Len(appQueue) : appQueue'[i] = appQueue[i]
      /\ appQueue'[Len(appQueue) + 1] = item
      /\ appQueue' # <<>> /\ (appQueue # <<>> => Len(appQueue) > 0)
    BY AppendProperties, LenProperties, EmptySeq DEF Typed, QueuesTyped
<1>3. item.kind \notin TextKinds /\ item.kind \in NewKinds
    BY DEF TextKinds, EventKinds, NewKinds
<1>4. \A e : e.kind \notin TextKinds => Follows(e, item)
    BY <1>3 DEF Follows, TextKinds
<1>5. Linked(appQueue)'
    <2> SUFFICES ASSUME NEW i \in 1 .. (Len(appQueue') - 1)
                 PROVE  Follows(appQueue'[i], appQueue'[i + 1])
        BY <1>1 DEF Linked
    <2>1. CASE i = Len(appQueue)
        <3>1. appQueue # <<>> /\ i \in 1 .. Len(appQueue)
            BY <1>2, <2>1
        <3>2. appQueue'[i].kind \notin TextKinds /\ appQueue'[i + 1] = item
            BY <1>2, <2>1, <3>1 DEF LineInv
        <3> QED BY <1>4, <3>2
    <2>2. CASE i # Len(appQueue)
        <3>1. i \in 1 .. (Len(appQueue) - 1) /\ i \in 1 .. Len(appQueue) /\ i + 1 \in 1 .. Len(appQueue)
            BY <1>2, <2>2
        <3>2. Follows(appQueue[i], appQueue[i + 1])
            BY <3>1 DEF LineInv, Linked
        <3> QED BY <1>2, <3>1, <3>2
    <2> QED BY <2>1, <2>2
<1>6. Linked(metaQueue)'
    BY <1>1 DEF LineInv, Linked
<1>7. ASSUME metaQueue # <<>> PROVE Follows(metaQueue[Len(metaQueue)], appQueue[1])'
    <2>1. CASE appQueue = <<>>
        <3>1. appQueue'[1] = item
            BY <1>2, <2>1, EmptySeq
        <3> QED BY <1>1, <1>4, <1>7, <2>1, <3>1 DEF LineInv
    <2>2. CASE appQueue # <<>>
        <3>1. appQueue'[1] = appQueue[1]
            BY <1>2, <2>2
        <3> QED BY <1>1, <1>7, <2>2, <3>1 DEF LineInv
    <2> QED BY <2>1, <2>2
<1> QED BY <1>2, <1>3, <1>5, <1>6, <1>7 DEF LineInv

\* An answer is four items in order.
LEMMA AnswerIn ==
    ASSUME Typed, LineInv, AnswersMetadata
    PROVE  LineInv'
<1>s. SameNumbers /\ UNCHANGED metaQueue
    BY DEF AnswersMetadata, Taken, SameNumbers, taskVars
<1>1. \A e, f : Follows(e, f) => Follows(e, f)'
    BY <1>s, FollowsStays DEF SameNumbers
<1> DEFINE answer == <<Attribute("title", playing), Attribute("artist", playing),
                       Attribute("album", playing), Attribute("num", NumberOf(playing))>>
<1>2. PICK n \in Nat :
      /\ n = Len(appQueue) /\ Len(appQueue') = n + 4
      /\ \A i \in 1 .. n : appQueue'[i] = appQueue[i]
      /\ appQueue'[n + 1] = Attribute("title", playing)
      /\ appQueue'[n + 2] = Attribute("artist", playing)
      /\ appQueue'[n + 3] = Attribute("album", playing)
      /\ appQueue'[n + 4] = Attribute("num", NumberOf(playing))
      /\ (appQueue = <<>> => n = 0) /\ (appQueue # <<>> => n > 0)
    <2>1. /\ playing \in Tracks /\ NumberOf(playing) \in Tracks
          /\ {"title", "artist", "album", "num"} \subseteq Attributes
        BY NumberIsTrack DEF Typed, PhoneTyped, Attributes, TextKinds
    <2>2. /\ Attribute("title", playing) \in Items /\ Attribute("artist", playing) \in Items
          /\ Attribute("album", playing) \in Items
          /\ Attribute("num", NumberOf(playing)) \in Items
        BY <2>1, ItemKinds
    <2>3. answer \in Seq(Items) /\ Len(answer) = 4
        BY <2>2
    <2>4. /\ answer[1] = Attribute("title", playing) /\ answer[2] = Attribute("artist", playing)
          /\ answer[3] = Attribute("album", playing)
          /\ answer[4] = Attribute("num", NumberOf(playing))
        OBVIOUS
    <2>5. appQueue' = appQueue \o answer /\ appQueue \in Seq(Items)
        BY DEF AnswersMetadata, Typed, QueuesTyped
    <2> HIDE DEF answer
    <2>6. PICK n \in Nat : n = Len(appQueue)
        BY <2>5, LenProperties
    <2>7. /\ Len(appQueue') = n + 4
          /\ \A i \in 1 .. (n + 4) : appQueue'[i] = IF i <= n THEN appQueue[i] ELSE answer[i - n]
        <3>1. /\ Len(appQueue \o answer) = Len(appQueue) + Len(answer)
              /\ \A i \in 1 .. Len(appQueue) + Len(answer) :
                    (appQueue \o answer)[i] = IF i <= Len(appQueue) THEN appQueue[i]
                                                                 ELSE answer[i - Len(appQueue)]
            BY <2>3, <2>5, ConcatProperties, Zenon
        <3> QED BY <2>3, <2>5, <2>6, <3>1
    <2>8. (appQueue = <<>> => n = 0) /\ (appQueue # <<>> => n > 0)
        BY <2>5, <2>6, EmptySeq
    <2>9. \A i \in 1 .. n : appQueue'[i] = appQueue[i]
        BY <2>6, <2>7
    <2>10. /\ appQueue'[n + 1] = answer[1] /\ appQueue'[n + 2] = answer[2]
           /\ appQueue'[n + 3] = answer[3] /\ appQueue'[n + 4] = answer[4]
        BY <2>6, <2>7
    <2> QED BY <2>4, <2>6, <2>7, <2>8, <2>9, <2>10
<1>3. /\ Follows(appQueue'[n + 1], appQueue'[n + 2]) /\ Follows(appQueue'[n + 2], appQueue'[n + 3])
      /\ Follows(appQueue'[n + 3], appQueue'[n + 4])
      /\ \A e : e.kind \notin TextKinds => Follows(e, appQueue'[n + 1])
    BY <1>2 DEF Follows, Attribute, TextKinds, NewKinds
<1>4. Linked(appQueue)'
    <2> SUFFICES ASSUME NEW i \in 1 .. (Len(appQueue') - 1)
                 PROVE  Follows(appQueue'[i], appQueue'[i + 1])
        BY <1>1 DEF Linked
    <2>1. CASE i \in 1 .. (n - 1)
        <3>1. i \in 1 .. n /\ i + 1 \in 1 .. n
            BY <1>2, <2>1
        <3>2. Follows(appQueue[i], appQueue[i + 1])
            BY <1>2, <2>1 DEF LineInv, Linked
        <3> QED BY <1>2, <3>1, <3>2
    <2>2. CASE i = n
        <3>1. appQueue # <<>> /\ n \in 1 .. n
            BY <1>2, <2>2
        <3>2. appQueue'[n].kind \notin TextKinds
            BY <1>2, <3>1 DEF LineInv
        <3> QED BY <1>3, <2>2, <3>2
    <2>3. CASE i = n + 1
        BY <1>2, <1>3, <2>3
    <2>4. CASE i = n + 2
        BY <1>2, <1>3, <2>4
    <2>5. CASE i = n + 3
        BY <1>2, <1>3, <2>5
    <2> QED BY <1>2, <2>1, <2>2, <2>3, <2>4, <2>5
<1>5. Linked(metaQueue)'
    BY <1>1, <1>s DEF LineInv, Linked
<1>6. ASSUME metaQueue # <<>> PROVE Follows(metaQueue[Len(metaQueue)], appQueue'[1])
    <2>1. CASE appQueue = <<>>
        <3>1. n + 1 = 1 /\ metaQueue[Len(metaQueue)].kind \notin TextKinds
            BY <1>2, <1>6, <2>1 DEF LineInv
        <3> QED BY <1>3, <3>1
    <2>2. CASE appQueue # <<>>
        <3>1. appQueue'[1] = appQueue[1]
            BY <1>2, <2>2
        <3> QED BY <1>6, <2>2, <3>1 DEF LineInv
    <2> QED BY <2>1, <2>2
<1>7. appQueue'[Len(appQueue')].kind \notin TextKinds /\ appQueue' # <<>>
    BY <1>2, EmptySeq DEF Attribute, TextKinds
<1> QED BY <1>1, <1>4, <1>5, <1>6, <1>7, <1>s DEF LineInv

\* Without its first item a queue is linked as it was.
LEMMA TailLinked ==
    ASSUME Typed, NEW S, NEW queue \in Seq(S), queue # <<>>, Linked(queue)
    PROVE  /\ Linked(Tail(queue))
           /\ Len(Tail(queue)) = Len(queue) - 1 /\ Len(queue) \in Nat \ {0}
           /\ \A i \in 1 .. (Len(queue) - 1) : Tail(queue)[i] = queue[i + 1]
           /\ Tail(queue) # <<>> => /\ Follows(queue[1], Tail(queue)[1])
                                    /\ Tail(queue)[Len(Tail(queue))] = queue[Len(queue)]
           /\ Tail(queue) = <<>> => Len(queue) = 1
<1>1. PICK n \in Nat : n = Len(queue) /\ n > 0
    BY LenProperties, EmptySeq
<1>2. /\ Tail(queue) \in Seq(S) /\ Len(Tail(queue)) = n - 1
      /\ \A i \in 1 .. (n - 1) : Tail(queue)[i] = queue[i + 1]
    BY <1>1, HeadTailProperties
<1>3. \A i \in 1 .. (n - 1) : Follows(queue[i], queue[i + 1])
    BY <1>1 DEF Linked
<1>4. ASSUME NEW i \in 1 .. (n - 2) PROVE Follows(Tail(queue)[i], Tail(queue)[i + 1])
    <2>1. i \in 1 .. (n - 1) /\ i + 1 \in 1 .. (n - 1)
        BY <1>4, <1>1
    <2>2. Follows(queue[i + 1], queue[i + 2])
        BY <1>3, <2>1
    <2> QED BY <1>2, <2>1, <2>2
<1>5. Linked(Tail(queue))
    BY <1>1, <1>2, <1>4 DEF Linked
<1>6. ASSUME Tail(queue) # <<>>
      PROVE  Follows(queue[1], Tail(queue)[1]) /\ Tail(queue)[n - 1] = queue[n]
    <2>1. n - 1 > 0
        BY <1>1, <1>2, <1>6, EmptySeq
    <2>2. 1 \in 1 .. (n - 1) /\ n - 1 \in 1 .. (n - 1)
        BY <1>1, <2>1
    <2> QED BY <1>1, <1>2, <1>3, <2>2
<1>7. ASSUME Tail(queue) = <<>> PROVE n = 1
    <2>1. Len(<<>>) = 0
        BY EmptySeq
    <2>2. n - 1 = 0
        BY <1>2, <1>7, <2>1, Zenon
    <2> QED BY <2>2
<1> QED BY <1>1, <1>2, <1>5, <1>6, <1>7

\* An event leaves between two answers.
LEMMA EventOut ==
    ASSUME Typed, LineInv, SameNumbers, UNCHANGED metaQueue,
           NEW kind \in EventKinds, Handle(kind)
    PROVE  LineInv'
<1>1. \A e, f : Follows(e, f) => Follows(e, f)'
    BY FollowsStays DEF SameNumbers
<1>2. /\ appQueue # <<>> /\ appQueue[1].kind = kind /\ appQueue' = Tail(appQueue)
      /\ appQueue \in Seq(Items)
    BY HandleTyped DEF Typed, QueuesTyped
<1>3. Linked(appQueue)
    BY DEF LineInv
<1>4. /\ Linked(appQueue')
      /\ appQueue' # <<>> => /\ Follows(appQueue[1], appQueue'[1])
                             /\ appQueue'[Len(appQueue')] = appQueue[Len(appQueue)]
    BY <1>2, <1>3, TailLinked
<1>5. kind \notin Attributes
    BY DEF EventKinds, Attributes, TextKinds
<1>6. metaQueue # <<>> => metaQueue[Len(metaQueue)].kind \notin TextKinds
    BY <1>2, <1>5 DEF LineInv, Follows, Attribute, Attributes, TextKinds
<1>7. ASSUME appQueue' # <<>> PROVE appQueue'[1].kind \in NewKinds
    BY <1>2, <1>4, <1>5, <1>7 DEF Follows, Attributes
<1>8. \A e : appQueue' # <<>> /\ e.kind \notin TextKinds => Follows(e, appQueue'[1])
    BY <1>7 DEF Follows, TextKinds
<1>9. appQueue' # <<>> => appQueue'[Len(appQueue')].kind \notin TextKinds
    BY <1>2, <1>4 DEF LineInv
<1>10. Linked(metaQueue)' /\ Linked(appQueue)'
    BY <1>1, <1>4 DEF LineInv, Linked
<1> QED BY <1>1, <1>6, <1>8, <1>9, <1>10 DEF LineInv

\* What goes from one queue to the other stays where it is in the line.
LEMMA AttributeMoves ==
    ASSUME Typed, LineInv, SameNumbers, appQueue # <<>>,
           metaQueue' = Append(metaQueue, Head(appQueue)), appQueue' = Tail(appQueue)
    PROVE  LineInv'
<1>1. \A e, f : Follows(e, f) => Follows(e, f)'
    BY FollowsStays DEF SameNumbers
<1>2. /\ appQueue \in Seq(Items) /\ metaQueue \in Seq(Items)
      /\ Head(appQueue) = appQueue[1] /\ Head(appQueue) \in Items
    BY ItemKinds, SeqMonotonic, HeadTailProperties DEF Typed, QueuesTyped
<1>3. Linked(appQueue)
    BY DEF LineInv
<1>4. /\ Linked(appQueue')
      /\ appQueue' # <<>> => /\ Follows(appQueue[1], appQueue'[1])
                             /\ appQueue'[Len(appQueue')] = appQueue[Len(appQueue)]
      /\ appQueue' = <<>> => Len(appQueue) = 1
    BY <1>2, <1>3, TailLinked
<1>5. PICK n \in Nat :
      /\ n = Len(metaQueue) /\ Len(metaQueue') = n + 1
      /\ \A i \in 1 .. n : metaQueue'[i] = metaQueue[i]
      /\ metaQueue'[n + 1] = appQueue[1]
      /\ n > 0 => metaQueue # <<>>
    BY <1>2, AppendProperties, LenProperties, EmptySeq
<1>6. Linked(metaQueue')
    <2> SUFFICES ASSUME NEW i \in 1 .. n PROVE Follows(metaQueue'[i], metaQueue'[i + 1])
        BY <1>5 DEF Linked
    <2>1. CASE i = n
        <3>1. metaQueue # <<>> /\ n \in 1 .. n
            BY <1>5, <2>1
        <3>2. Follows(metaQueue[n], appQueue[1])
            BY <1>5, <3>1 DEF LineInv
        <3> QED BY <1>5, <2>1, <3>1, <3>2
    <2>2. CASE i # n
        <3>1. i \in 1 .. (n - 1) /\ i + 1 \in 1 .. n
            BY <1>5, <2>2
        <3>2. Follows(metaQueue[i], metaQueue[i + 1])
            BY <1>5, <3>1 DEF LineInv, Linked
        <3> QED BY <1>5, <3>1, <3>2
    <2> QED BY <2>1, <2>2
<1>7. metaQueue'[Len(metaQueue')] = appQueue[1]
    BY <1>5
<1>8. appQueue' # <<>> => appQueue'[Len(appQueue')].kind \notin TextKinds
    BY <1>4 DEF LineInv
<1>9. appQueue' = <<>> => appQueue[1].kind \notin TextKinds
    BY <1>4 DEF LineInv
<1>10. Linked(metaQueue)' /\ Linked(appQueue)'
    BY <1>1, <1>4, <1>6 DEF Linked
<1> QED BY <1>1, <1>4, <1>7, <1>8, <1>9, <1>10 DEF LineInv

\* The metadata task takes the first of the line.
LEMMA AttributeOut ==
    ASSUME Typed, LineInv, SameNumbers, metaQueue # <<>>,
           metaQueue' = Tail(metaQueue), UNCHANGED appQueue
    PROVE  /\ LineInv'
           /\ metaQueue' # <<>> => Follows(metaQueue[1], metaQueue'[1])
           /\ metaQueue' = <<>> /\ appQueue # <<>> => Follows(metaQueue[1], appQueue[1])
           /\ metaQueue' = <<>> /\ appQueue = <<>> => metaQueue[1].kind \notin TextKinds
<1>1. \A e, f : Follows(e, f) => Follows(e, f)'
    BY FollowsStays DEF SameNumbers
<1>2. metaQueue \in Seq(AttributeItems) /\ Linked(metaQueue)
    BY DEF Typed, QueuesTyped, LineInv
<1>3. /\ Linked(metaQueue')
      /\ metaQueue' # <<>> => /\ Follows(metaQueue[1], metaQueue'[1])
                              /\ metaQueue'[Len(metaQueue')] = metaQueue[Len(metaQueue)]
      /\ metaQueue' = <<>> => Len(metaQueue) = 1
    BY <1>2, TailLinked
<1>4. Linked(metaQueue)' /\ Linked(appQueue)'
    BY <1>1, <1>3 DEF LineInv, Linked
<1>5. LineInv'
    BY <1>1, <1>3, <1>4 DEF LineInv
<1>6. metaQueue' = <<>> /\ appQueue # <<>> => Follows(metaQueue[1], appQueue[1])
    BY <1>3 DEF LineInv
<1>7. metaQueue' = <<>> /\ appQueue = <<>> => metaQueue[1].kind \notin TextKinds
    BY <1>3 DEF LineInv
<1> QED BY <1>3, <1>5, <1>6, <1>7

\* What a link or another one does not touch.
LEMMA NothingYet ==
    ASSUME NoPhoneYet, spent.links = 0
    PROVE  /\ appQueue = <<>> /\ metaQueue = <<>> /\ texts["title"] = None
           /\ applied.last = None /\ applied.before = None /\ ~link /\ ~fresh
BY DEF NoPhoneYet

\* The links are one more with each link, so that the second phone is not the first.
LEMMA NumbersChange ==
    ASSUME Typed, [MetaNext]_metaVars
    PROVE  SameNumbers \/ (PhoneConnects /\ spent.links = 0)
<1>1. spent.links \in Nat
    BY DEF Typed, PhoneTyped, Spent
<1> QED BY <1>1, LinksCount DEF SameNumbers

LEMMA LineStep ==
    ASSUME Typed, NoPhoneYet, LineInv, [MetaNext]_metaVars, ~dropped'
    PROVE  LineInv'
<1>q. QueuesTyped
    BY DEF Typed
<1>1. CASE PhoneConnects
    <2>1. appQueue' = Append(appQueue, Event("connected")) /\ UNCHANGED metaQueue
        BY <1>1 DEF PhoneConnects, taskVars
    <2>2. Event("connected") \in Items /\ Event("connected").kind \in EventKinds
        BY EventItems DEF EventKinds, Event
    <2>3. CASE spent.links = 0
        <3>1. appQueue' = <<Event("connected")>> /\ metaQueue' = <<>>
            BY <2>1, <2>3, NothingYet
        <3>2. "connected" \notin TextKinds
            BY DEF TextKinds
        <3> QED BY <3>1, <3>2 DEF LineInv, Linked, Event
    <2>4. CASE spent.links # 0
        <3>1. SameNumbers
            BY <2>4, NumbersChange
        <3> QED BY <2>1, <2>2, <3>1, EventIn
    <2> QED BY <2>3, <2>4
<1>2. CASE ~PhoneConnects
    <2>s. SameNumbers
        BY <1>2, NumbersChange
    <2>1. CASE PhoneLeaves
        <3>1. Event("disconnected") \in Items /\ Event("disconnected").kind \in EventKinds
            BY EventItems DEF EventKinds, Event
        <3> QED BY <2>1, <2>s, <3>1, EventIn DEF PhoneLeaves, taskVars
    <2>2. ASSUME NEW track \in Tracks, TrackChanges(track) PROVE LineInv'
        <3> DEFINE news == [kind |-> "change", track |-> track]
        <3>1. news \in Items /\ news.kind \in EventKinds
            BY EventItems DEF EventKinds
        <3>2. CASE registered
            BY <2>2, <2>s, <3>1, <3>2, EventIn DEF TrackChanges, taskVars
        <3>3. CASE ~registered
            BY <2>2, <2>s, <3>3, LineStays DEF TrackChanges, taskVars
        <3> QED BY <3>2, <3>3
    <2>3. CASE AnswersCapabilities
        <3>1. Event("capabilities") \in Items /\ Event("capabilities").kind \in EventKinds
            BY EventItems DEF EventKinds, Event
        <3> QED BY <2>3, <2>s, <3>1, EventIn DEF AnswersCapabilities, Taken, taskVars
    <2>4. CASE AnswersMetadata
        BY <2>4, AnswerIn
    <2>5. CASE Registers
        BY <2>5, <2>s, LineStays DEF Registers, Taken, taskVars
    <2>6. CASE HandleConnected
        BY <2>6, <2>s, EventOut DEF HandleConnected, EventKinds, taskVars
    <2>7. CASE HandleDisconnected
        BY <2>7, <2>s, EventOut DEF HandleDisconnected, EventKinds, taskVars
    <2>8. CASE HandleCapabilities
        BY <2>8, <2>s, EventOut DEF HandleCapabilities, EventKinds, taskVars
    <2>9. CASE HandleChange
        BY <2>9, <2>s, EventOut DEF HandleChange, EventKinds, taskVars
    <2>10. CASE HandleAttribute
        <3>1. ~Full
            BY <2>10 DEF HandleAttribute
        <3>2. metaQueue' = Append(metaQueue, Head(appQueue)) /\ appQueue' = Tail(appQueue)
              /\ appQueue # <<>>
            BY <2>10, <3>1 DEF HandleAttribute, Handle
        <3> QED BY <2>s, <3>2, AttributeMoves
    <2>11. CASE Collect
        BY <2>11, <2>s, AttributeOut DEF Collect
    <2>12. CASE SessionEnds \/ Settle \/ Apply \/ NoteUid \/ UNCHANGED metaVars
        BY <2>12, <2>s, LineStays DEF SessionEnds, Settle, Apply, NoteUid, metaVars, taskVars
    <2> QED
        BY <1>2, <2>1, <2>2, <2>3, <2>4, <2>5, <2>6, <2>7, <2>8, <2>9, <2>10, <2>11, <2>12
        DEF MetaNext, Phone, BtAppTask, MetadataTask
<1> QED BY <1>1, <1>2

\* What has been collected stays so for a step that collects nothing.
LEMMA BeforeStays ==
    ASSUME UNCHANGED <<texts, num>>, SameNumbers
    PROVE  (Complete => Complete') /\ \A e : Before(e) => Before(e)'
<1>1. SameTexts' = SameTexts
    BY DEF SameTexts
<1>2. OnePhone' => OnePhone /\ \A track : NumberOf(track)' = NumberOf(track)
    BY DEF SameNumbers, OnePhone, NumberOf
<1>3. Complete => Complete'
    BY <1>1, <1>2 DEF Complete
<1>4. \A e : Before(e) => Before(e)'
    BY <1>1, <1>2, <1>3 DEF Before
<1> QED BY <1>3, <1>4

\* What comes in behind the line is not the next one; in an empty line it starts anew.
LEMMA HeadComesIn ==
    ASSUME HeadInv, UNCHANGED <<texts, num, fresh, metaQueue>>, SameNumbers, appQueue' # <<>>,
           appQueue = <<>> => appQueue'[1].kind \in NewKinds,
           appQueue # <<>> => appQueue'[1] = appQueue[1]
    PROVE  HeadInv'
<1>1. (Complete => Complete') /\ \A e : Before(e) => Before(e)'
    BY BeforeStays
<1>2. \A e : e.kind \in NewKinds /\ Complete => Before(e)
    BY DEF Before, NewKinds, EventKinds
<1>3. metaQueue = <<>> => Before(appQueue'[1])
    BY <1>2 DEF HeadInv
<1> QED BY <1>1, <1>3 DEF HeadInv

\* With an event gone, what comes next starts anew too.
LEMMA HeadEventOut ==
    ASSUME Typed, LineInv, HeadInv, UNCHANGED <<texts, num, fresh, metaQueue>>, SameNumbers,
           NEW kind \in EventKinds, Handle(kind)
    PROVE  HeadInv'
<1>1. (Complete => Complete') /\ \A e : Before(e) => Before(e)'
    BY BeforeStays
<1>2. /\ appQueue # <<>> /\ appQueue[1].kind = kind /\ appQueue' = Tail(appQueue)
      /\ appQueue \in Seq(Items) /\ Linked(appQueue)
    BY HandleTyped DEF Typed, QueuesTyped, LineInv
<1>3. appQueue' # <<>> => Follows(appQueue[1], appQueue'[1])
    BY <1>2, TailLinked
<1>4. kind \in NewKinds /\ kind \notin TextKinds
    BY DEF EventKinds, NewKinds, TextKinds
<1>5. appQueue' # <<>> => appQueue'[1].kind \in NewKinds
    BY <1>2, <1>3, <1>4 DEF Follows
<1>6. metaQueue = <<>> => Complete
    BY <1>2, <1>4 DEF HeadInv, Before
<1>7. \A e : e.kind \in NewKinds /\ Complete => Before(e)
    BY DEF Before, NewKinds, EventKinds
<1> QED BY <1>1, <1>5, <1>6, <1>7 DEF HeadInv

\* Each attribute is collected over a text of the answer before, in the order of the line.
LEMMA HeadCollects ==
    ASSUME Typed, LineInv, HeadInv, Collect
    PROVE  HeadInv'
<1>1. /\ metaQueue # <<>> /\ metaQueue' = Tail(metaQueue) /\ UNCHANGED appQueue
      /\ Head(metaQueue) = metaQueue[1] /\ SameNumbers /\ texts \in [TextKinds -> TrackOrNone]
    BY DEF Collect, SameNumbers, phoneVars, Typed, TaskTyped, QueuesTyped
<1>2. metaQueue[1] \in AttributeItems
    BY <1>1, HeadTailProperties DEF Typed, QueuesTyped
<1> DEFINE item == metaQueue[1]
<1>3. item.kind \in Attributes /\ item.track \in Tracks /\ Before(item)
    BY <1>1, <1>2 DEF AttributeItems, HeadInv
<1>4. /\ metaQueue' # <<>> => Follows(item, metaQueue'[1])
      /\ metaQueue' = <<>> /\ appQueue # <<>> => Follows(item, appQueue[1])
      /\ metaQueue' = <<>> /\ appQueue = <<>> => item.kind \notin TextKinds
    BY <1>1, AttributeOut
<1>n. (OnePhone' <=> OnePhone) /\ \A track : NumberOf(track)' = NumberOf(track)
    BY DEF Collect, phoneVars, NumberOf, OnePhone
<1>5. ASSUME NEW e, Follows(item, e) PROVE Before(e)' /\ (texts["title"] # None)'
    <2>1. CASE item.kind = "title"
        <3>1. texts'["title"] = item.track /\ item.track # None
            BY <1>1, <1>3, <2>1 DEF Collect, TextKinds, Tracks, None
        <3>2. e.kind = "artist" /\ e.track = item.track
            BY <1>5, <2>1 DEF Follows, Attribute
        <3> QED BY <3>1, <3>2 DEF Before, NewKinds, EventKinds
    <2>2. CASE item.kind = "artist"
        <3>1. texts'["title"] = item.track /\ texts'["artist"] = item.track /\ item.track # None
            BY <1>1, <1>3, <2>2 DEF Collect, TextKinds, Tracks, None, Before
        <3>2. e.kind = "album" /\ e.track = item.track
            BY <1>5, <2>2 DEF Follows, Attribute
        <3> QED BY <3>1, <3>2 DEF Before, NewKinds, EventKinds
    <2>3. CASE item.kind = "album"
        <3>1. /\ texts'["title"] = item.track /\ texts'["artist"] = item.track
              /\ texts'["album"] = item.track /\ item.track # None
            BY <1>1, <1>3, <2>3 DEF Collect, TextKinds, Tracks, None, Before
        <3>2. e.kind = "num" /\ (OnePhone => e.track = NumberOf(item.track))
            BY <1>5, <2>3 DEF Follows
        <3>3. SameTexts'
            BY <3>1 DEF SameTexts, TextKinds
        <3>4. OnePhone' => e.track = NumberOf(texts["title"])'
            BY <3>1, <3>2, <1>n
        <3> QED BY <3>1, <3>2, <3>3, <3>4 DEF Before, NewKinds, EventKinds
    <2>4. CASE item.kind = "num"
        <3>1. UNCHANGED texts /\ num' = item.track
            BY <1>1, <2>4 DEF Collect
        <3>2. /\ SameTexts /\ texts["title"] # None
              /\ OnePhone => item.track = NumberOf(texts["title"])
            BY <1>3, <2>4 DEF Before
        <3>3. Complete'
            BY <3>1, <3>2, <1>n DEF Complete, SameTexts
        <3>4. e.kind \in NewKinds
            BY <1>5, <2>4 DEF Follows, TextKinds
        <3> QED BY <3>1, <3>2, <3>3, <3>4 DEF Before, NewKinds, EventKinds
    <2> QED BY <1>3, <2>1, <2>2, <2>3, <2>4 DEF Attributes, TextKinds
<1>6. ASSUME item.kind \notin TextKinds PROVE Complete' /\ (texts["title"] # None)'
    <2>1. item.kind = "num"
        BY <1>3, <1>6 DEF Attributes
    <2>2. UNCHANGED texts /\ num' = item.track
        BY <1>1, <2>1 DEF Collect
    <2>3. /\ SameTexts /\ texts["title"] # None
          /\ OnePhone => item.track = NumberOf(texts["title"])
        BY <1>3, <2>1 DEF Before
    <2> QED BY <2>2, <2>3, <1>n DEF Complete, SameTexts
<1> QED BY <1>1, <1>4, <1>5, <1>6 DEF HeadInv

LEMMA HeadStep ==
    ASSUME Typed, NoPhoneYet, LineInv, HeadInv, [MetaNext]_metaVars, ~dropped'
    PROVE  HeadInv'
<1>q. appQueue \in Seq(Items) /\ metaQueue \in Seq(AttributeItems)
    BY DEF Typed, QueuesTyped
<1>a. ASSUME UNCHANGED <<texts, num, metaQueue>>, SameNumbers, NEW item \in Items,
             item.kind \in EventKinds, appQueue' = Append(appQueue, item), UNCHANGED fresh
      PROVE  HeadInv'
    <2>1. appQueue' # <<>> /\ appQueue'[1] = IF appQueue = <<>> THEN item ELSE appQueue[1]
        BY <1>a, <1>q, AppendProperties, EmptySeq
    <2>2. item.kind \in NewKinds
        BY <1>a DEF NewKinds
    <2> QED BY <1>a, <2>1, <2>2, HeadComesIn
<1>b. ASSUME UNCHANGED <<texts, num, metaQueue, appQueue>>, SameNumbers, fresh' => fresh
      PROVE  HeadInv'
    BY <1>b, BeforeStays DEF HeadInv
<1>1. CASE PhoneConnects
    <2>1. appQueue' = Append(appQueue, Event("connected")) /\ UNCHANGED <<texts, num, fresh, metaQueue>>
        BY <1>1 DEF PhoneConnects, taskVars
    <2>2. Event("connected") \in Items /\ Event("connected").kind \in EventKinds
        BY EventItems DEF EventKinds, Event
    <2>3. CASE spent.links = 0
        <3>1. appQueue' = <<Event("connected")>> /\ metaQueue' = <<>> /\ texts'["title"] = None
              /\ SameTexts /\ ~fresh'
            BY <2>1, <2>3, NothingYet DEF HeadInv, Complete
        <3>2. Before(Event("connected"))'
            BY <3>1, <2>1, <2>2 DEF Before, Complete, SameTexts, Event
        <3> QED BY <3>1, <3>2 DEF HeadInv
    <2>4. CASE spent.links # 0
        BY <2>1, <2>2, <2>4, <1>a, NumbersChange
    <2> QED BY <2>3, <2>4
<1>2. CASE ~PhoneConnects
    <2>s. SameNumbers
        BY <1>2, NumbersChange
    <2>1. CASE PhoneLeaves
        <3>1. Event("disconnected") \in Items /\ Event("disconnected").kind \in EventKinds
            BY EventItems DEF EventKinds, Event
        <3> QED BY <2>1, <2>s, <3>1, <1>a DEF PhoneLeaves, taskVars
    <2>2. ASSUME NEW track \in Tracks, TrackChanges(track) PROVE HeadInv'
        <3> DEFINE news == [kind |-> "change", track |-> track]
        <3>1. news \in Items /\ news.kind \in EventKinds
            BY EventItems DEF EventKinds
        <3>2. CASE registered
            BY <2>2, <2>s, <3>1, <3>2, <1>a DEF TrackChanges, taskVars
        <3>3. CASE ~registered
            BY <2>2, <2>s, <3>3, <1>b DEF TrackChanges, taskVars
        <3> QED BY <3>2, <3>3
    <2>3. CASE AnswersCapabilities
        <3>1. Event("capabilities") \in Items /\ Event("capabilities").kind \in EventKinds
            BY EventItems DEF EventKinds, Event
        <3> QED BY <2>3, <2>s, <3>1, <1>a DEF AnswersCapabilities, Taken, taskVars
    <2>4. CASE AnswersMetadata
        <3>1. UNCHANGED <<texts, num, fresh, metaQueue>>
            BY <2>4 DEF AnswersMetadata, Taken, taskVars
        <3>2. PICK rest : appQueue' = appQueue \o rest /\ rest \in Seq(Items) /\ Len(rest) = 4
                          /\ rest[1] = Attribute("title", playing)
            <4> DEFINE answer == <<Attribute("title", playing), Attribute("artist", playing),
                                   Attribute("album", playing),
                                   Attribute("num", NumberOf(playing))>>
            <4>1. /\ playing \in Tracks /\ NumberOf(playing) \in Tracks
                  /\ {"title", "artist", "album", "num"} \subseteq Attributes
                BY NumberIsTrack DEF Typed, PhoneTyped, Attributes, TextKinds
            <4>2. /\ Attribute("title", playing) \in Items /\ Attribute("artist", playing) \in Items
                  /\ Attribute("album", playing) \in Items
                  /\ Attribute("num", NumberOf(playing)) \in Items
                BY <4>1, ItemKinds
            <4>3. answer \in Seq(Items) /\ Len(answer) = 4 /\ answer[1] = Attribute("title", playing)
                BY <4>2
            <4>4. appQueue' = appQueue \o answer
                BY <2>4 DEF AnswersMetadata
            <4> QED BY <4>3, <4>4
        <3>3. /\ Len(appQueue') = Len(appQueue) + 4 /\ Len(appQueue) \in Nat
              /\ appQueue'[1] = IF 1 <= Len(appQueue) THEN appQueue[1] ELSE rest[1 - Len(appQueue)]
            <4>1. PICK n \in Nat : n = Len(appQueue)
                BY <1>q, LenProperties
            <4>2. /\ Len(appQueue') = n + 4
                  /\ \A j \in 1 .. n + 4 : appQueue'[j] = IF j <= n THEN appQueue[j] ELSE rest[j - n]
                <5>1. /\ Len(appQueue \o rest) = Len(appQueue) + Len(rest)
                      /\ \A j \in 1 .. Len(appQueue) + Len(rest) :
                            (appQueue \o rest)[j] = IF j <= Len(appQueue) THEN appQueue[j]
                                                    ELSE rest[j - Len(appQueue)]
                    BY <1>q, <3>2, ConcatProperties, Zenon
                <5> QED BY <3>2, <4>1, <5>1
            <4> QED BY <4>1, <4>2
        <3>4. /\ appQueue = <<>> => Len(appQueue) = 0
              /\ appQueue # <<>> => Len(appQueue) > 0
              /\ appQueue' # <<>>
            BY <1>q, <3>3, EmptySeq
        <3>5. (appQueue = <<>> => appQueue'[1].kind \in NewKinds)
              /\ (appQueue # <<>> => appQueue'[1] = appQueue[1])
            BY <3>2, <3>3, <3>4 DEF Attribute, NewKinds
        <3> QED BY <2>s, <3>1, <3>4, <3>5, HeadComesIn
    <2>5. CASE Registers
        BY <2>5, <2>s, <1>b DEF Registers, Taken, taskVars
    <2>6. CASE HandleConnected
        BY <2>6, <2>s, HeadEventOut DEF HandleConnected, EventKinds, taskVars
    <2>7. CASE HandleDisconnected
        BY <2>7, <2>s, HeadEventOut DEF HandleDisconnected, EventKinds, taskVars
    <2>8. CASE HandleCapabilities
        BY <2>8, <2>s, HeadEventOut DEF HandleCapabilities, EventKinds, taskVars
    <2>9. CASE HandleChange
        BY <2>9, <2>s, HeadEventOut DEF HandleChange, EventKinds, taskVars
    <2>10. CASE HandleAttribute
        <3>1. /\ metaQueue' = Append(metaQueue, Head(appQueue)) /\ appQueue # <<>>
              /\ Head(appQueue) = appQueue[1] /\ UNCHANGED <<texts, num, fresh>>
              /\ Head(appQueue) \in AttributeItems
            <4>1. appQueue # <<>> /\ Head(appQueue).kind \in Attributes /\ ~Full
                  /\ UNCHANGED <<texts, num, fresh>>
                BY <2>10 DEF HandleAttribute
            <4>2. Head(appQueue) = appQueue[1] /\ Head(appQueue) \in Items
                BY <4>1, <1>q, HeadTailProperties
            <4>3. Head(appQueue) \in AttributeItems
                BY <4>1, <4>2, ItemKinds
            <4> QED BY <2>10, <4>1, <4>2, <4>3 DEF HandleAttribute
        <3>2. metaQueue' # <<>> /\ metaQueue'[1] = IF metaQueue = <<>> THEN appQueue[1] ELSE metaQueue[1]
            BY <3>1, <1>q, AppendProperties, EmptySeq
        <3>3. Before(metaQueue'[1])
            BY <3>1, <3>2 DEF HeadInv
        <3> QED BY <2>s, <3>1, <3>2, <3>3, BeforeStays DEF HeadInv
    <2>11. CASE Collect
        BY <2>11, HeadCollects
    <2>12. CASE SessionEnds \/ Settle \/ Apply \/ NoteUid \/ UNCHANGED metaVars
        BY <2>12, <2>s, <1>b DEF SessionEnds, Settle, Apply, NoteUid, metaVars, taskVars
    <2> QED
        BY <1>2, <2>1, <2>2, <2>3, <2>4, <2>5, <2>6, <2>7, <2>8, <2>9, <2>10, <2>11, <2>12
        DEF MetaNext, Phone, BtAppTask, MetadataTask
<1> QED BY <1>1, <1>2

\* Before the first link nothing comes in, and nothing that is there is worked off.
LEMMA NoPhoneStep ==
    ASSUME Typed, NoPhoneYet, [MetaNext]_metaVars
    PROVE  NoPhoneYet'
<1> SUFFICES ASSUME spent'.links = 0 PROVE NoPhoneYet'
    BY DEF NoPhoneYet
<1>1. spent.links = 0 /\ ~PhoneConnects
    <2>1. spent.links \in Nat
        BY DEF Typed, PhoneTyped, Spent
    <2>2. PhoneConnects => spent'.links = spent.links + 1
        BY DEF PhoneConnects, Typed, PhoneTyped, Spent
    <2> QED BY <2>1, <2>2, LinksCount
<1>2. /\ ~link /\ ~fresh /\ appQueue = <<>> /\ metaQueue = <<>> /\ toPhone = <<>>
      /\ texts["title"] = None /\ applied.last = None /\ applied.before = None
    BY <1>1 DEF NoPhoneYet
<1>3. CASE SessionEnds
    <2>1. applied'.last = None /\ applied'.before = None
        BY <1>2, <1>3 DEF SessionEnds, Typed, TaskTyped
    <2> QED BY <1>2, <1>3, <2>1 DEF SessionEnds, NoPhoneYet, phoneVars, taskVars
<1>4. CASE Apply \/ NoteUid \/ UNCHANGED metaVars
    BY <1>2, <1>4
    DEF Apply, NoteUid, NoPhoneYet, metaVars, phoneVars, taskVars, historyVars
<1> QED
    BY <1>1, <1>2, <1>3, <1>4
    DEF MetaNext, PhoneLeaves, TrackChanges, Phone, AnswersCapabilities, AnswersMetadata,
        Registers, Taken, BtAppTask, HandleConnected, HandleDisconnected, HandleCapabilities,
        HandleChange, HandleAttribute, Handle, MetadataTask, Collect, Settle, Silence

(***************************************************************************)
(* What is applied, its direction and what is stored.                      *)
(***************************************************************************)

\* The number of the last metadata is kept for the next.
NumInv == OnePhone /\ applied.last # None => prevNum = NumberOf(applied.last)

\* The UID of the last metadata is kept for the next, until a session ends.
UidInv == uidApplied # None => prevUid = uidApplied

ApplyInv ==
    metaPc = "apply" => SameTexts /\ texts["title"] # None /\ applied.last = texts["title"]

DirectionInv ==
    ( /\ metaPc = "apply" /\ OnePhone
      /\ applied.before \notin {None, applied.last}
      /\ numbered \/ (~hurried /\ uid = applied.last /\ uidApplied = applied.before) )
    => direction = (IF applied.last < applied.before THEN "prev" ELSE "next")

\* The texts of a track as they are stored; None is what there is at the start.
Shows(track) ==
    IF track \in Cyrillic
    THEN /\ stored["title"] = <<"latin", track>> /\ stored["artist"] = <<"title", track>>
         /\ stored["album"] = <<"artist", track>>
    ELSE \A kind \in TextKinds : stored[kind] = <<kind, track>>

\* What is stored is of the track applied last, or of the one before while the next is
\* about to be stored.
StoredInv ==
    /\ metaPc = "apply" =>
         \E track \in TrackOrNone : Shows(track) /\ applied.before \in {None, track}
    /\ metaPc # "apply" => Shows(applied.last)

\* What settles is a complete answer.
LEMMA SettleComplete ==
    ASSUME Typed, HeadInv, Settle
    PROVE  Complete /\ texts["title"] # None
<1>1. fresh /\ metaQueue = <<>> /\ ~Has(appQueue, Attributes)
    BY DEF Settle, Silence
<1>2. CASE appQueue = <<>>
    BY <1>1, <1>2 DEF HeadInv
<1>3. CASE appQueue # <<>>
    <2>1. 1 \in 1 .. Len(appQueue)
        BY <1>3, LenProperties, EmptySeq DEF Typed, QueuesTyped
    <2>2. appQueue[1] \in Items /\ appQueue[1].kind \notin Attributes
        BY <1>1, <2>1, ElementOfSeq DEF Has, Typed, QueuesTyped
    <2>3. appQueue[1].kind \in NewKinds
        BY <2>2, ItemKinds DEF NewKinds
    <2> QED BY <1>1, <1>3, <2>3 DEF HeadInv, Before
<1> QED BY <1>2, <1>3

\* Only the metadata task and the end of a session touch what has been applied.
LEMMA AppliedStays ==
    ASSUME Typed, [MetaNext]_metaVars, ~Collect, ~Settle, ~Apply, ~NoteUid
    PROVE  /\ UNCHANGED <<texts, num, prevNum, metaPc, direction, stored, announced>>
           /\ applied'.last = applied.last
           /\ ~SessionEnds => UNCHANGED <<applied, uidApplied>>
           /\ ~SessionEnds /\ ~HandleChange => UNCHANGED <<uid, prevUid, hurried>>
<1>1. CASE SessionEnds
    BY <1>1 DEF SessionEnds, taskVars, Typed, TaskTyped
<1>2. CASE HandleChange
    BY <1>2 DEF HandleChange, taskVars
<1>3. CASE HandleAttribute
    BY <1>3 DEF HandleAttribute
<1>4. CASE UNCHANGED <<taskVars, uid, prevUid, historyVars>>
    BY <1>4 DEF taskVars, historyVars
<1> QED
    BY <1>1, <1>2, <1>3, <1>4
    DEF MetaNext, BtAppTask, MetadataTask, PhoneConnects, PhoneLeaves, TrackChanges, Phone,
        AnswersCapabilities, AnswersMetadata, Registers, Taken, HandleConnected,
        HandleDisconnected, HandleCapabilities, metaVars

LEMMA NumStep ==
    ASSUME Typed, NoPhoneYet, HeadInv, NumInv, [MetaNext]_metaVars
    PROVE  NumInv'
<1>1. CASE Settle
    <2>1. Complete /\ texts["title"] # None
        BY <1>1, SettleComplete
    <2>2. prevNum' = num /\ applied'.last = texts["title"] /\ UNCHANGED <<numbered, spent>>
        BY <1>1 DEF Settle, phoneVars
    <2> QED BY <2>1, <2>2 DEF NumInv, Complete, OnePhone, NumberOf
<1>2. CASE Collect
    <2>1. UNCHANGED <<applied, numbered, spent>> /\ (prevNum # None => prevNum' = prevNum)
        BY <1>2 DEF Collect, phoneVars, historyVars
    <2>2. applied.last # None => NumberOf(applied.last) # None
        <3>1. applied.last \in Tracks \cup {None}
            BY DEF Typed, TaskTyped, TrackOrNone
        <3>2. \A track \in Tracks : NumberOf(track) # None
            BY NumberIsTrack DEF Tracks, None
        <3> QED BY <3>1, <3>2
    <2> QED BY <2>1, <2>2 DEF NumInv, OnePhone, NumberOf
<1>3. CASE ~Settle /\ ~Collect
    <2>1. prevNum' = prevNum /\ applied'.last = applied.last
        BY <1>3, AppliedStays DEF Apply, NoteUid
    <2>2. CASE SameNumbers
        BY <2>1, <2>2 DEF NumInv, OnePhone, NumberOf, SameNumbers
    <2>3. CASE spent.links = 0
        BY <2>1, <2>3, NothingYet DEF NumInv
    <2> QED BY <2>2, <2>3, NumbersChange
<1> QED BY <1>1, <1>2, <1>3

LEMMA UidStep ==
    ASSUME Typed, UidInv, [MetaNext]_metaVars
    PROVE  UidInv'
<1>1. CASE HandleChange
    BY <1>1 DEF HandleChange, UidInv
<1>2. CASE SessionEnds
    BY <1>2 DEF SessionEnds, UidInv
<1>3. CASE NoteUid
    BY <1>3 DEF NoteUid, UidInv
<1>4. CASE Collect \/ Settle \/ Apply
    BY <1>4 DEF Collect, Settle, Apply, UidInv, historyVars
<1> QED BY <1>1, <1>2, <1>3, <1>4, AppliedStays DEF UidInv

LEMMA ApplyStep ==
    ASSUME Typed, HeadInv, ApplyInv, [MetaNext]_metaVars
    PROVE  ApplyInv'
<1>1. CASE Settle
    <2>1. SameTexts /\ texts["title"] # None
        BY <1>1, SettleComplete DEF Complete
    <2> QED BY <1>1, <2>1 DEF Settle, ApplyInv, SameTexts
<1>2. CASE Collect \/ Apply \/ NoteUid
    BY <1>2 DEF Collect, Apply, NoteUid, ApplyInv
<1> QED BY <1>1, <1>2, AppliedStays DEF ApplyInv, SameTexts

LEMMA StoredStep ==
    ASSUME Typed, ApplyInv, StoredInv, [MetaNext]_metaVars
    PROVE  StoredInv'
<1>1. CASE Settle
    <2>1. metaPc = "idle" /\ metaPc' = "apply" /\ UNCHANGED stored /\ applied'.before = applied.last
        BY <1>1 DEF Settle
    <2>2. applied.last \in TrackOrNone /\ Shows(applied.last)
        BY <2>1 DEF StoredInv, Typed, TaskTyped
    <2>3. PICK track \in TrackOrNone : track = applied.last
        BY <2>2
    <2>4. Shows(track)' /\ applied'.before = track
        BY <2>1, <2>2, <2>3 DEF Shows
    <2> QED BY <2>1, <2>4 DEF StoredInv
<1>2. CASE Apply
    <2>1. /\ metaPc = "apply" /\ metaPc' = "note" /\ UNCHANGED applied
          /\ stored' = IF Changed THEN Kept ELSE stored
        BY <1>2 DEF Apply
    <2>2. PICK new \in TrackOrNone :
             new = applied.last /\ \A kind \in TextKinds : texts[kind] = new
        BY <2>1 DEF ApplyInv, SameTexts, Typed, TaskTyped
    <2>3. texts["title"] = new /\ texts["artist"] = new /\ texts["album"] = new
        BY <2>2 DEF TextKinds
    <2>4. CASE Changed
        <3>1. ASSUME new \in Cyrillic PROVE Shows(new)'
            BY <2>1, <2>3, <2>4, <3>1 DEF Kept, Shows
        <3>2. ASSUME new \notin Cyrillic PROVE Shows(new)'
            <4>1. stored' = [kind \in TextKinds |-> <<kind, texts[kind]>>]
                BY <2>1, <2>3, <2>4, <3>2 DEF Kept
            <4>2. \A kind \in TextKinds : stored'[kind] = <<kind, new>>
                BY <2>2, <4>1
            <4> QED BY <3>2, <4>2 DEF Shows
        <3> QED BY <2>1, <2>2, <3>1, <3>2 DEF StoredInv
    <2>5. CASE ~Changed
        <3>1. stored' = stored /\ \A kind \in TextKinds : stored[kind] = <<kind, new>>
            BY <2>1, <2>2, <2>5 DEF Changed
        <3>2. PICK old \in TrackOrNone : Shows(old)
            BY <2>1 DEF StoredInv
        <3>3. stored["title"] = <<"title", new>>
            BY <3>1 DEF TextKinds
        <3>4. new \notin Cyrillic
            <4>1. old \notin Cyrillic
                BY <3>2, <3>3 DEF Shows
            <4>2. stored["title"] = <<"title", old>>
                BY <3>2, <4>1 DEF Shows, TextKinds
            <4> QED BY <3>3, <4>1, <4>2
        <3>5. Shows(new)'
            BY <3>1, <3>4 DEF Shows
        <3> QED BY <2>1, <2>2, <3>5 DEF StoredInv
    <2> QED BY <2>4, <2>5
<1>3. CASE NoteUid
    <2>1. metaPc = "note" /\ metaPc' = "idle" /\ UNCHANGED <<stored, applied>>
        BY <1>3 DEF NoteUid
    <2> QED BY <2>1 DEF StoredInv, Shows
<1>4. CASE Collect
    <2>1. metaPc = "idle" /\ UNCHANGED <<metaPc, stored, applied>>
        BY <1>4 DEF Collect, historyVars
    <2> QED BY <2>1 DEF StoredInv, Shows
<1>5. CASE SessionEnds
    <2>1. UNCHANGED <<metaPc, stored>> /\ applied'.last = applied.last /\ applied'.before = None
        BY <1>5 DEF SessionEnds, taskVars, Typed, TaskTyped
    <2>2. \A track : Shows(track)' <=> Shows(track)
        BY <2>1 DEF Shows
    <2>3. metaPc' # "apply" => Shows(applied'.last)
        BY <2>1 DEF StoredInv
    <2>4. metaPc' = "apply" => \E track \in TrackOrNone : Shows(track)
        BY <2>1 DEF StoredInv
    <2> QED BY <2>1, <2>2, <2>3, <2>4 DEF StoredInv
<1>6. CASE ~Settle /\ ~Apply /\ ~NoteUid /\ ~Collect /\ ~SessionEnds
    <2>1. UNCHANGED <<metaPc, stored, applied>>
        BY <1>6, AppliedStays
    <2> QED BY <2>1 DEF StoredInv, Shows
<1> QED BY <1>1, <1>2, <1>3, <1>4, <1>5, <1>6

LEMMA DirectionStep ==
    ASSUME Typed, NoPhoneYet, HeadInv, NumInv, UidInv, DirectionInv, [MetaNext]_metaVars
    PROVE  DirectionInv'
<1>1. CASE Settle
    <2> SUFFICES ASSUME OnePhone', applied'.before \notin {None, applied'.last},
                        numbered' \/ (/\ ~hurried' /\ uid' = applied'.last
                                      /\ uidApplied' = applied'.before)
                 PROVE  direction' = IF applied'.last < applied'.before THEN "prev" ELSE "next"
        BY DEF DirectionInv
    <2>1. PICK new \in Tracks, old \in Tracks :
          /\ applied'.last = new /\ texts["title"] = new
          /\ applied'.before = old /\ applied.last = old /\ new # old
        <3>1. applied'.last = texts["title"] /\ applied'.before = applied.last
            BY <1>1 DEF Settle
        <3>2. texts["title"] \in TrackOrNone /\ applied.last \in TrackOrNone
            BY DEF Typed, TaskTyped, TextKinds
        <3>3. texts["title"] # None
            BY <1>1, SettleComplete
        <3> QED BY <3>1, <3>2, <3>3 DEF TrackOrNone
    <2>2. OnePhone /\ UNCHANGED <<numbered, uid, uidApplied>>
        BY <1>1 DEF Settle, OnePhone, phoneVars
    <2>3. new # None /\ old # None /\ new \in Nat /\ old \in Nat
        BY MetadataAssumption DEF Tracks, None
    <2>4. num = NumberOf(new) /\ prevNum = NumberOf(old)
        BY <1>1, <2>1, <2>2, <2>3, SettleComplete DEF Complete, NumInv
    <2>5. direction' = IF ByNumber = "none" /\ uid # None THEN ByUid ELSE ByNumber
        BY <1>1 DEF Settle
    <2>6. CASE numbered
        <3>1. num = new /\ prevNum = old
            BY <2>4, <2>6 DEF NumberOf
        <3>2. ByNumber = IF new < old THEN "prev" ELSE "next"
            BY <2>1, <2>3, <3>1 DEF ByNumber
        <3> QED BY <2>1, <2>5, <3>2
    <2>7. CASE ~numbered
        <3>1. num = 1 /\ prevNum = 1
            BY <2>4, <2>7 DEF NumberOf
        <3>2. ByNumber = "none"
            BY <3>1 DEF ByNumber
        <3>3. uid = new /\ prevUid = old
            BY <2>1, <2>2, <2>3, <2>7 DEF UidInv
        <3>4. ByUid = IF new < old THEN "prev" ELSE "next"
            BY <3>3 DEF ByUid
        <3> QED BY <2>1, <2>3, <2>5, <3>2, <3>3, <3>4
    <2> QED BY <2>6, <2>7
<1>2. CASE Collect \/ Apply \/ NoteUid
    BY <1>2 DEF Collect, Apply, NoteUid, DirectionInv
<1>3. CASE SessionEnds
    <2>1. applied'.before = None
        BY <1>3 DEF SessionEnds, Typed, TaskTyped
    <2> QED BY <2>1 DEF DirectionInv
<1>4. CASE HandleChange
    <2>1. UNCHANGED <<metaPc, direction, applied, numbered, spent>>
        BY <1>4 DEF HandleChange, Handle, phoneVars, taskVars
    <2>2. metaPc = "apply" => hurried'
        BY <1>4 DEF HandleChange, Collecting
    <2> QED BY <2>1, <2>2 DEF DirectionInv, OnePhone
<1>5. CASE ~Settle /\ ~Apply /\ ~NoteUid /\ ~Collect /\ ~SessionEnds /\ ~HandleChange
    <2>1. UNCHANGED <<metaPc, direction, applied, uid, uidApplied, hurried>>
        BY <1>5, AppliedStays
    <2>2. CASE SameNumbers
        BY <2>1, <2>2 DEF DirectionInv, OnePhone, SameNumbers
    <2>3. CASE spent.links = 0
        BY <2>1, <2>3, NothingYet DEF DirectionInv
    <2> QED BY <2>2, <2>3, NumbersChange
<1> QED BY <1>1, <1>2, <1>3, <1>4, <1>5

(***************************************************************************)
(* The invariant, and what follows from it.                                *)
(***************************************************************************)

\* The texts, unless an attribute has been dropped.
TextsInv == LineInv /\ HeadInv /\ NumInv /\ ApplyInv /\ StoredInv /\ DirectionInv

MetaInv == Typed /\ NoPhoneYet /\ UidInv /\ (~dropped => TextsInv)

LEMMA MetaInvInit == MetaInit => MetaInv
<1> SUFFICES ASSUME MetaInit PROVE MetaInv
    OBVIOUS
<1>1. Typed
    BY TypedInit
<1>2. NoPhoneYet /\ UidInv
    BY DEF MetaInit, NoPhoneYet, UidInv, TextKinds
<1>3. LineInv
    <2>1. Len(<<>>) = 0
        BY EmptySeq
    <2> QED BY <2>1 DEF MetaInit, LineInv, Linked
<1>4. SameTexts /\ texts["title"] = None
    BY DEF MetaInit, SameTexts, TextKinds
<1>5. HeadInv
    BY <1>4 DEF MetaInit, HeadInv, Complete
<1>6. NumInv /\ ApplyInv /\ DirectionInv
    BY DEF MetaInit, NumInv, ApplyInv, DirectionInv
<1>7. StoredInv
    <2>1. None \notin Cyrillic
        BY MetadataAssumption DEF None
    <2> QED BY <2>1 DEF MetaInit, StoredInv, Shows
<1> QED BY <1>1, <1>2, <1>3, <1>5, <1>6, <1>7 DEF MetaInv, TextsInv

LEMMA DroppedStays == [MetaNext]_metaVars /\ ~dropped' => ~dropped
BY DEF MetaNext, PhoneConnects, PhoneLeaves, TrackChanges, Phone, AnswersCapabilities,
       AnswersMetadata, Registers, Taken, BtAppTask, HandleConnected, HandleDisconnected,
       HandleCapabilities, HandleChange, HandleAttribute, SessionEnds, MetadataTask, Collect,
       Settle, Apply, NoteUid, metaVars, historyVars

LEMMA MetaInvStep == MetaInv /\ [MetaNext]_metaVars => MetaInv'
<1> SUFFICES ASSUME MetaInv, [MetaNext]_metaVars PROVE MetaInv'
    OBVIOUS
<1>1. Typed /\ NoPhoneYet /\ UidInv
    BY DEF MetaInv
<1>2. Typed' /\ NoPhoneYet' /\ UidInv'
    BY <1>1, TypedStep, NoPhoneStep, UidStep
<1>3. ASSUME ~dropped' PROVE TextsInv'
    <2>1. LineInv /\ HeadInv /\ NumInv /\ ApplyInv /\ StoredInv /\ DirectionInv
        BY <1>3, DroppedStays DEF MetaInv, TextsInv
    <2>2. LineInv' /\ HeadInv'
        BY <1>1, <1>3, <2>1, LineStep, HeadStep
    <2>3. NumInv' /\ ApplyInv' /\ StoredInv' /\ DirectionInv'
        BY <1>1, <2>1, NumStep, ApplyStep, StoredStep, DirectionStep
    <2> QED BY <2>2, <2>3 DEF TextsInv
<1> QED BY <1>2, <1>3 DEF MetaInv

\* The invariant that the theorems below are drawn from.
LEMMA MetaInvHolds == MetaSpec => []MetaInv
BY MetaInvInit, MetaInvStep, PTL DEF MetaSpec

\* The texts that are applied are one track's, for answers and events in any order and
\* however many changes of track are on their way, unless one was lost for want of room or memory.
THEOREM OneTrackApplied == MetaSpec => []OneTrackAtATime
<1>1. MetaInv => OneTrackAtATime
    BY DEF MetaInv, TextsInv, ApplyInv, SameTexts, OneTrackAtATime
<1> QED BY <1>1, MetaInvHolds, PTL

\* A change is announced in the direction it was made in, by the numbers of the tracks or
\* by their UIDs, until another phone is linked.
THEOREM DirectionIsRight == MetaSpec => []DirectionRight
<1>1. MetaInv => DirectionRight
    BY DEF MetaInv, TextsInv, DirectionInv, DirectionRight, OnePhone
<1> QED BY <1>1, MetaInvHolds, PTL

\* Metadata that comes again is no change of track, and that of another track is one.
THEOREM ChangesAreNew == MetaSpec => ChangeIsNew
<1> DEFINE New == IF announced' THEN applied.before # applied.last \/ applied.last \in Cyrillic
                                ELSE applied.before \in {None, applied.last}
<1>1. ASSUME MetaInv, [MetaNext]_metaVars, metaPc = "apply", metaPc' = "note", ~dropped
      PROVE  New
    <2>1. Typed /\ ApplyInv /\ StoredInv
        BY <1>1 DEF MetaInv, TextsInv
    <2>2. Apply
        BY <1>1, <2>1, AppliedStays DEF Collect, Settle, NoteUid
    <2>3. PICK old \in TrackOrNone : Shows(old) /\ applied.before \in {None, old}
        BY <1>1, <2>1 DEF StoredInv
    <2>4. PICK new \in TrackOrNone : /\ new = applied.last /\ new # None
                                     /\ \A kind \in TextKinds : texts[kind] = new
        BY <1>1, <2>1 DEF ApplyInv, SameTexts, Typed, TaskTyped
    <2>5. announced' <=> \E kind \in TextKinds : stored[kind] # <<kind, new>>
        BY <2>2, <2>4 DEF Apply, Changed
    <2>6. CASE announced'
        <3>1. old # new \/ new \in Cyrillic
            BY <2>3, <2>5, <2>6 DEF Shows
        <3> QED BY <2>3, <2>4, <2>6, <3>1
    <2>7. CASE ~announced'
        <3>1. stored["title"] = <<"title", new>>
            BY <2>5, <2>7 DEF TextKinds
        <3>2. old = new
            BY <2>3, <3>1 DEF Shows, TextKinds
        <3> QED BY <2>3, <2>4, <2>7, <3>2
    <2> QED BY <2>6, <2>7
<1>2. MetaInv /\ [MetaNext]_metaVars =>
      [metaPc = "apply" /\ metaPc' = "note" /\ ~dropped =>
         IF announced' THEN applied.before # applied.last \/ applied.last \in Cyrillic
                       ELSE applied.before \in {None, applied.last}]_metaVars
    BY <1>1
<1> QED BY <1>2, MetaInvHolds, PTL DEF MetaSpec, ChangeIsNew
=============================================================================
