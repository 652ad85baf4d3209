---------------------------- MODULE SinkReconnect ----------------------------
(***************************************************************************)
(* Automatic reconnection of the native A2DP sink                          *)
(* (src/src/NativeA2dpBluetoothSink.cpp) and the forgetting of a phone     *)
(* (NativeA2dpBluetoothSource::forgetConnection).                          *)
(*                                                                         *)
(* The Bluetooth stack reports link changes to a queue that the sink's     *)
(* application task works off; the reconnect timer posts its attempts to   *)
(* the same queue, and wait in the timer task while it is full.  A forget  *)
(* runs in the main loop, beside that task, and is split at each access to *)
(* what they share, as is the handling of a lost link.  The phone to       *)
(* reconnect to is kept twice: in NVS, which survives a power cycle        *)
(* and is written on every connect, and in RAM, which is read from NVS     *)
(* once, when the stack comes up.                                          *)
(*                                                                         *)
(* The stack is external: it opens one link at a time, for a phone or for  *)
(* the sink, and reports CONNECTING first.  Whom it is bonded with is left *)
(* out: a forget asks it to remove a bond, and whose is what matters here. *)
(* reconnect_status is left out: nothing reads it after start().           *)
(***************************************************************************)
EXTENDS Integers, Sequences, FiniteSets

CONSTANTS
    Peers,         \* phones
    NoPeer,        \* the zero address, or no blob in NVS
    MaxRetries,    \* try_reconnect_max_count
    AppQueueSize   \* length of app_task_queue (20)

ASSUME ReconnectAssumption ==
    /\ NoPeer \notin Peers
    /\ MaxRetries \in Nat \ {0}
    /\ AppQueueSize \in Nat \ {0}

VARIABLES
    radio,      \* stack: "down", "asked" (by the sink), "opening", "up" or "closing"
    radioPeer,  \* stack: the peer of that link
    appQueue,   \* app_task_queue
    conn,       \* connection_state
    peer,       \* peer_bd_addr
    nvsLast,    \* the blob "last_bda" in NVS
    ramLast,    \* last_connection
    retries,    \* connection_retry_count
    userDisc,   \* user_disconnect_requested
    timer,      \* reconnect_timer runs
    posting,    \* it has expired, and its callback is about to post or waits for room
    appPc,      \* where the application task stands in a DISCONNECTED event
    forgetPc,   \* where forgetConnection() stands
    allowed,    \* history: links the sink may still open; MaxRetries and the attempts
                \* that were due already when retries was last set to 0, less those since
    lost        \* history: the phone whose established link failed and of which nothing
                \* came yet, or NoPeer

stackVars == <<radio, radioPeer>>
sinkVars == <<conn, peer, nvsLast, ramLast, retries, userDisc, timer>>
taskVars == <<posting, appPc, forgetPc>>
historyVars == <<allowed, lost>>
reconnectVars == <<stackVars, appQueue, sinkVars, taskVars, historyVars>>

Event(st, p, abnormal) == [kind |-> "conn", st |-> st, peer |-> p, abnormal |-> abnormal]
Attempt == [kind |-> "attempt", st |-> "none", peer |-> NoPeer, abnormal |-> FALSE]
StackUp == [kind |-> "stackUp", st |-> "none", peer |-> NoPeer, abnormal |-> FALSE]

LinkStates == {"disconnected", "connecting", "connected", "disconnecting"}

\* Power-on with nothing paired: start() has queued the stack event.
ReconnectInit ==
    /\ radio = "down" /\ radioPeer = NoPeer
    /\ appQueue = <<StackUp>>
    /\ conn = "disconnected" /\ peer = NoPeer
    /\ nvsLast = NoPeer /\ ramLast = NoPeer
    /\ retries = 0
    /\ userDisc = FALSE
    /\ timer = FALSE /\ posting = FALSE
    /\ appPc = "idle" /\ forgetPc = "idle"
    /\ allowed = MaxRetries
    /\ lost = NoPeer

\* A power cycle at any moment: NVS stays.
PowerCycle ==
    /\ radio' = "down" /\ radioPeer' = NoPeer
    /\ appQueue' = <<StackUp>>
    /\ conn' = "disconnected" /\ peer' = NoPeer
    /\ ramLast' = NoPeer
    /\ retries' = 0
    /\ userDisc' = FALSE
    /\ timer' = FALSE /\ posting' = FALSE
    /\ appPc' = "idle" /\ forgetPc' = "idle"
    /\ allowed' = MaxRetries
    /\ lost' = NoPeer
    /\ UNCHANGED nvsLast

-----------------------------------------------------------------------------
(* The Bluetooth stack and the phones.  A callback waits while the queue   *)
(* is full.                                                                *)

Report(e) ==
    /\ Len(appQueue) < AppQueueSize
    /\ appQueue' = Append(appQueue, e)

\* The stack has come up when the first callback can arrive.
StackRuns == \A i \in 1..Len(appQueue) : appQueue[i].kind # "stackUp"

PhoneConnects(p) ==
    /\ StackRuns
    /\ radio = "down"
    /\ radio' = "opening" /\ radioPeer' = p
    /\ Report(Event("connecting", p, FALSE))
    /\ UNCHANGED <<sinkVars, taskVars, historyVars>>

\* The stack takes up a connect the sink asked for.
Opening ==
    /\ radio = "asked"
    /\ radio' = "opening"
    /\ Report(Event("connecting", radioPeer, FALSE))
    /\ UNCHANGED <<radioPeer, sinkVars, taskVars, historyVars>>

\* Nobody answers at the zero address.
Opened ==
    /\ radio = "opening" /\ radioPeer # NoPeer
    /\ radio' = "up"
    /\ Report(Event("connected", radioPeer, FALSE))
    /\ UNCHANGED <<radioPeer, sinkVars, taskVars, historyVars>>

\* The attempt failed, the phone hung up or was lost, or the sink's own disconnect is done.
Closed(abnormal) ==
    /\ radio \in {"opening", "up", "closing"}
    /\ radio = "closing" => ~abnormal
    /\ radio' = "down" /\ radioPeer' = NoPeer
    /\ Report(Event("disconnected", radioPeer, abnormal))
    /\ UNCHANGED <<sinkVars, taskVars, historyVars>>

-----------------------------------------------------------------------------
(* The application task.                                                   *)

QueuedAttempts == {i \in 1..Len(appQueue) : appQueue[i].kind = "attempt"}

One(b) == IF b THEN 1 ELSE 0

\* The attempts to come: in the queue, in the hands of the timer task, and the one the
\* timer will expire for.
Due == Cardinality(QueuedAttempts) + (One(posting) + One(timer))

Take(kind) ==
    /\ appPc = "idle"
    /\ appQueue # <<>> /\ Head(appQueue).kind = kind
    /\ appQueue' = Tail(appQueue)

ScheduleReconnect ==
    /\ retries' = retries + 1
    /\ timer' = TRUE

\* av_hdl_stack_evt(): the target is read from NVS here and nowhere else.
HandleStackUp ==
    /\ Take("stackUp")
    /\ IF nvsLast # NoPeer
       THEN /\ ramLast' = nvsLast
            /\ retries' = 1
            /\ timer' = TRUE
       ELSE UNCHANGED <<ramLast, retries, timer>>
    /\ UNCHANGED <<stackVars, conn, peer, nvsLast, userDisc, taskVars, historyVars>>

\* A wrong Retries: the failure of an attempt does not count as one.
RetriesUncounted(e) ==
    /\ ~userDisc
    /\ nvsLast # NoPeer
    /\ conn = "connecting" \/ e.abnormal
    /\ retries < MaxRetries \/ conn = "connecting"

\* A wrong Retries: only a failed attempt is followed by another.
RetriesAttemptsOnly(e) ==
    /\ ~userDisc
    /\ retries < MaxRetries
    /\ nvsLast # NoPeer
    /\ conn = "connecting"

\* Whether a DISCONNECTED event starts another attempt.
Retries(e) ==
    /\ ~userDisc
    /\ retries < MaxRetries
    /\ nvsLast # NoPeer
    /\ conn = "connecting" \/ e.abnormal

HandleDisconnected ==
    LET e == Head(appQueue) IN
    /\ Take("conn") /\ e.st = "disconnected"
    /\ conn' = "disconnected" /\ peer' = e.peer
    /\ appPc' = IF Retries(e) THEN "schedule" ELSE "done"
    /\ lost' = IF conn = "connected" /\ e.abnormal /\ nvsLast # NoPeer /\ ~userDisc
               THEN e.peer ELSE lost
    /\ UNCHANGED <<stackVars, nvsLast, ramLast, retries, userDisc, timer, posting, forgetPc,
                   allowed>>

\* The rest of the event: a forget may have run since has_last_connection().
FinishDisconnected ==
    /\ appPc \in {"schedule", "done"}
    /\ IF appPc = "schedule" THEN ScheduleReconnect ELSE UNCHANGED <<retries, timer>>
    /\ userDisc' = FALSE
    /\ appPc' = "idle"
    /\ UNCHANGED <<stackVars, appQueue, conn, peer, nvsLast, ramLast, posting, forgetPc,
                   historyVars>>

HandleConnected ==
    LET e == Head(appQueue) IN
    /\ Take("conn") /\ e.st = "connected"
    /\ conn' = "connected" /\ peer' = e.peer
    /\ nvsLast' = e.peer
    /\ retries' = 0
    /\ allowed' = MaxRetries + Due
    /\ lost' = NoPeer
    /\ UNCHANGED <<stackVars, ramLast, userDisc, timer, taskVars>>

HandleOther ==
    LET e == Head(appQueue) IN
    /\ Take("conn") /\ e.st \in {"connecting", "disconnecting"}
    /\ conn' = e.st
    /\ UNCHANGED <<stackVars, peer, nvsLast, ramLast, retries, userDisc, timer, taskVars,
                   historyVars>>

\* esp_a2d_sink_connect(last_connection); with a link in use the stack declines.
HandleAttempt ==
    /\ Take("attempt")
    /\ lost' = IF lost = ramLast THEN NoPeer ELSE lost
    /\ IF radio = "down"
       THEN /\ radio' = "asked" /\ radioPeer' = ramLast
            /\ allowed' = allowed - 1
       ELSE UNCHANGED <<radio, radioPeer, allowed>>
    /\ UNCHANGED <<sinkVars, taskVars>>

AppTask ==
    \/ HandleStackUp
    \/ HandleDisconnected
    \/ FinishDisconnected
    \/ HandleConnected
    \/ HandleOther
    \/ HandleAttempt

\* The timer is one-shot; from here on nothing stops the attempt.
TimerExpires ==
    /\ timer /\ ~posting
    /\ timer' = FALSE
    /\ posting' = TRUE
    /\ UNCHANGED <<stackVars, appQueue, conn, peer, nvsLast, ramLast, retries, userDisc,
                   appPc, forgetPc, historyVars>>

\* app_work_dispatch() waits for room for as long as it takes.
TimerPosts ==
    /\ posting
    /\ posting' = FALSE
    /\ Report(Attempt)
    /\ UNCHANGED <<stackVars, sinkVars, appPc, forgetPc, historyVars>>

-----------------------------------------------------------------------------
(* forgetConnection(), in the main loop.                                   *)

ForgetBegins ==
    /\ forgetPc = "idle" /\ StackRuns
    /\ forgetPc' = IF conn # "disconnected" THEN "disconnect" ELSE "bond"
    /\ UNCHANGED <<stackVars, appQueue, sinkVars, posting, appPc, historyVars>>

\* disconnect(): the stack closes the link if it is the one to peer_bd_addr.
ForgetDisconnects ==
    /\ forgetPc = "disconnect"
    /\ forgetPc' = "bond"
    /\ userDisc' = TRUE
    /\ IF radio \in {"opening", "up"} /\ radioPeer = peer
       THEN radio' = "closing" /\ Report(Event("disconnecting", peer, FALSE))
       ELSE UNCHANGED <<radio, appQueue>>
    /\ UNCHANGED <<radioPeer, conn, peer, nvsLast, ramLast, retries, timer,
                   posting, appPc, historyVars>>

\* The bond the stack is asked to remove is the one with ramLast, if it is not zero.
RemoveBond ==
    /\ forgetPc = "bond"
    /\ forgetPc' = "blob"
    /\ UNCHANGED <<stackVars, appQueue, sinkVars, posting, appPc,
                   historyVars>>

EraseBlob ==
    /\ forgetPc = "blob"
    /\ forgetPc' = "target"
    /\ nvsLast' = NoPeer
    /\ UNCHANGED <<stackVars, appQueue, conn, peer, ramLast, retries, userDisc, timer,
                   posting, appPc, historyVars>>

ForgetTarget ==
    /\ forgetPc = "target"
    /\ forgetPc' = "idle"
    /\ ramLast' = NoPeer
    /\ retries' = 0
    /\ timer' = FALSE
    /\ allowed' = MaxRetries + Cardinality(QueuedAttempts) + One(posting)
    /\ lost' = NoPeer
    /\ UNCHANGED <<stackVars, appQueue, conn, peer, nvsLast, userDisc, posting, appPc>>

MainLoop == ForgetDisconnects \/ RemoveBond \/ EraseBlob \/ ForgetTarget

-----------------------------------------------------------------------------

ReconnectNext ==
    \/ \E p \in Peers : PhoneConnects(p)
    \/ Opening
    \/ Opened
    \/ \E abnormal \in BOOLEAN : Closed(abnormal)
    \/ AppTask
    \/ TimerExpires
    \/ TimerPosts
    \/ ForgetBegins
    \/ MainLoop
    \/ PowerCycle

ReconnectSpec == ReconnectInit /\ [][ReconnectNext]_reconnectVars

\* The sink's task and timer and the main loop run, and the stack answers the sink.  The
\* timer's task outranks the stack's, so it is not kept out of a queue with room for ever.
ReconnectFairness ==
    /\ WF_reconnectVars(AppTask)
    /\ WF_reconnectVars(TimerExpires)
    /\ SF_reconnectVars(TimerPosts)
    /\ WF_reconnectVars(MainLoop)
    /\ WF_reconnectVars(Opening)

FairReconnectSpec == ReconnectSpec /\ ReconnectFairness

-----------------------------------------------------------------------------
(* Properties.                                                             *)

\* Every field keeps its type, and the count of retries its limit.
ReconnectTypeOK ==
    /\ radio \in {"down", "asked", "opening", "up", "closing"}
    /\ radioPeer \in Peers \cup {NoPeer}
    /\ appQueue \in Seq([kind : {"conn", "attempt", "stackUp"}, st : LinkStates \cup {"none"},
                         peer : Peers \cup {NoPeer}, abnormal : BOOLEAN])
    /\ Len(appQueue) <= AppQueueSize
    /\ conn \in LinkStates
    /\ peer \in Peers \cup {NoPeer}
    /\ nvsLast \in Peers \cup {NoPeer}
    /\ ramLast \in Peers \cup {NoPeer}
    /\ retries \in 0..MaxRetries
    /\ appPc = "schedule" => retries < MaxRetries
    /\ userDisc \in BOOLEAN
    /\ timer \in BOOLEAN /\ posting \in BOOLEAN
    /\ appPc \in {"idle", "schedule", "done"}
    /\ forgetPc \in {"idle", "disconnect", "bond", "blob", "target"}
    /\ allowed \in Int
    /\ lost \in Peers \cup {NoPeer}

\* The sink gives up on a phone that does not answer: between two successes it opens no
\* more links than it may, and those that were already due when the count was cleared.
RetryBounded == allowed >= 0

\* An established link that fails, with no disconnect requested since the last one ended,
\* is followed by a call to the phone that lost it, unless a phone connects or the sink
\* is told to forget before.  It is so for the phone whose address was read from NVS when
\* the stack came up: that is the only one the sink calls, although the comment at
\* NativeA2dpBluetoothSink.cpp:633-634 takes it for the last one that connected.
LostIsRetried == \A p \in Peers : lost = p /\ ramLast = p ~> lost # p

=============================================================================
