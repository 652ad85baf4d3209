------------------------------- MODULE RxFramer -------------------------------
(***************************************************************************)
(* esPod::_rxTask (src/src/esPod.cpp): from the bytes of the serial line   *)
(* to the payloads of the command queue, through loss, noise, pauses and   *)
(* sessions that end and begin.                                            *)
(*                                                                         *)
(* The task looks at the session once in each round of its loop: while it  *)
(* is Disabled it throws away what the line holds and leaves its own       *)
(* fields as they are, else it works off the bytes that are there, however *)
(* the session changes meanwhile, and then looks for a pause.              *)
(*                                                                         *)
(* The car sends frames, one after the other, with bytes lost and noise    *)
(* between them.  cursor is the length of buf.  Whether the queue had room *)
(* for a payload belongs to AckPipeline.                                   *)
(***************************************************************************)
EXTENDS Integers, Sequences

CONSTANTS
    Base, Sync1, Sync2,   \* see FrameParser
    Checksum(_),          \* esPod::_checksum, ByteChecksum below
    MaxPacketSize,        \* MAX_PACKET_SIZE (1024)
    Payloads              \* what the car may send

VARIABLES
    rxIncomplete,   \* _rxIncomplete
    expLength,      \* expLength
    buf,            \* buf, as far as cursor
    prevByte,       \* prevByte
    got,            \* the payload handed to the queue by the last byte, or <<>>
    draining,       \* the task is in its inner loop
    disabled,       \* isDisabled()
    todo,           \* the bytes the car has yet to send of its frame
    sent,           \* the payload of that frame
    intact          \* that frame met a framer at rest and nothing has disturbed it since

framerFields == <<rxIncomplete, expLength, buf, prevByte, got>>
carFields == <<todo, sent, intact>>
framerVars == <<framerFields, draining, disabled, carFields>>

Window ==
    CASE ~rxIncomplete -> IF prevByte = Sync1 THEN <<Sync1>> ELSE <<>>
      [] rxIncomplete /\ expLength = 0 -> <<Sync1, Sync2>>
      [] OTHER -> <<Sync1, Sync2, expLength>> \o buf

Parser == INSTANCE FrameParser WITH window <- Window

\* The buffer has room for every length a byte holds and the checksum after it.
ASSUME FramerAssumption ==
    /\ Base \in Nat
    /\ Sync1 \in 1..(Base - 1)
    /\ Sync2 \in 1..(Base - 1)
    /\ Sync1 # Sync2
    /\ MaxPacketSize \in Nat
    /\ Base <= MaxPacketSize
    /\ \A p \in Payloads : /\ p \in Seq(0..(Base - 1)) /\ Len(p) \in 1..(Base - 1)
                            /\ Checksum(p) \in 0..(Base - 1)

SumOf(p) ==
    LET sum[i \in 0..Len(p)] == IF i = 0 THEN 0 ELSE sum[i - 1] + p[i]
    IN  sum[Len(p)]

\* The two's complement of the sum of the length and the bytes, in one byte.
ByteChecksum(p) == (Base - ((Len(p) + SumOf(p)) % Base)) % Base

FramerInit ==
    /\ rxIncomplete = FALSE
    /\ expLength = 0
    /\ buf = <<>>
    /\ prevByte = 0
    /\ got = <<>>
    /\ draining = FALSE
    /\ disabled = TRUE
    /\ todo = <<>>
    /\ sent = <<>>
    /\ intact = FALSE

-----------------------------------------------------------------------------
(* One byte, in the inner loop.                                            *)

\* A wrong StartsPacket: a sync pair starts over in the midst of a packet.
StartsPacketAnywhere(b) == prevByte = Sync1 /\ b = Sync2

StartsPacket(b) == prevByte = Sync1 /\ b = Sync2 /\ ~rxIncomplete

\* A wrong StartPacket: the fields of the packet before are kept.
StartPacketStale ==
    /\ rxIncomplete' = TRUE
    /\ UNCHANGED <<expLength, buf, got>>

StartPacket ==
    /\ rxIncomplete' = TRUE
    /\ expLength' = 0
    /\ buf' = <<>>
    /\ got' = <<>>

BadLength(b) == b = 0 \/ b > MaxPacketSize

TakeLength(b) ==
    /\ expLength = 0 /\ buf = <<>>
    /\ expLength' = b
    /\ rxIncomplete' = ~BadLength(b)
    /\ got' = <<>>
    /\ UNCHANGED buf

\* A wrong TakeByte: the cursor is compared before it is moved on.
TakeByteLong(b) ==
    /\ expLength # 0 \/ buf # <<>>
    /\ buf' = Append(buf, b)
    /\ rxIncomplete' = (Len(buf) # expLength + 1)
    /\ got' = IF ~rxIncomplete' /\ Checksum(buf) = b THEN buf ELSE <<>>
    /\ UNCHANGED expLength

\* The last byte is the checksum of those before it.
TakeByte(b) ==
    /\ expLength # 0 \/ buf # <<>>
    /\ buf' = Append(buf, b)
    /\ rxIncomplete' = (Len(buf') # expLength + 1)
    /\ got' = IF ~rxIncomplete' /\ Checksum(buf) = b THEN buf ELSE <<>>
    /\ UNCHANGED expLength

Feed(b) ==
    /\ prevByte' = b
    /\ \/ /\ StartsPacket(b)
          /\ StartPacket
       \/ /\ ~StartsPacket(b) /\ rxIncomplete
          /\ TakeLength(b) \/ TakeByte(b)
       \/ /\ ~StartsPacket(b) /\ ~rxIncomplete
          /\ got' = <<>>
          /\ UNCHANGED <<rxIncomplete, expLength, buf>>

-----------------------------------------------------------------------------
(* The loop of the task.                                                   *)

BeginDrain ==
    /\ ~draining /\ ~disabled
    /\ draining' = TRUE
    /\ UNCHANGED <<framerFields, disabled, carFields>>

ReadFrameByte ==
    /\ draining /\ todo # <<>>
    /\ Feed(Head(todo))
    /\ todo' = Tail(todo)
    /\ UNCHANGED <<draining, disabled, sent, intact>>

ReadNoise ==
    /\ draining
    /\ \E b \in 0..(Base - 1) : Feed(b)
    /\ intact' = FALSE
    /\ UNCHANGED <<draining, disabled, todo, sent>>

\* A wrong Expired: a packet whose length has not come is waited for.
ExpiredAfterLength == rxIncomplete /\ expLength # 0

Expired == rxIncomplete

\* The line is empty; a packet whose last byte is old is given up.
EndDrain ==
    /\ draining
    /\ draining' = FALSE
    /\ \/ UNCHANGED <<framerFields, intact>>
       \/ /\ Expired
          /\ rxIncomplete' = FALSE
          /\ intact' = FALSE
          /\ UNCHANGED <<expLength, buf, prevByte, got>>
    /\ UNCHANGED <<disabled, todo, sent>>

GivesUp == EndDrain /\ rxIncomplete /\ ~rxIncomplete'

\* The line is flushed in every round of a session that is Disabled.
Flush ==
    /\ ~draining /\ disabled /\ todo # <<>>
    /\ todo' = <<>>
    /\ intact' = FALSE
    /\ UNCHANGED <<framerFields, draining, disabled, sent>>

-----------------------------------------------------------------------------
(* The session and the car.                                                *)

SessionChanges ==
    /\ disabled' = ~disabled
    /\ UNCHANGED <<framerFields, draining, carFields>>

\* The framer is at rest at any moment but within a packet.
CarSends(p) ==
    /\ todo = <<>>
    /\ todo' = Parser!Frame(p)
    /\ sent' = p
    /\ intact' = ~rxIncomplete
    /\ UNCHANGED <<framerFields, draining, disabled>>

ByteLost ==
    /\ todo # <<>>
    /\ todo' = Tail(todo)
    /\ intact' = FALSE
    /\ UNCHANGED <<framerFields, draining, disabled, sent>>

FramerNext ==
    \/ BeginDrain
    \/ ReadFrameByte
    \/ ReadNoise
    \/ EndDrain
    \/ Flush
    \/ SessionChanges
    \/ \E p \in Payloads : CarSends(p)
    \/ ByteLost

FramerSpec == FramerInit /\ [][FramerNext]_framerVars

\* The task takes its turns; a round that ends in the midst of a packet ever again finds
\* another byte or, at last, the pause.
FramerFairness ==
    /\ WF_framerVars(BeginDrain)
    /\ WF_framerVars(EndDrain)
    /\ SF_framerVars(ReadFrameByte \/ GivesUp)

FairFramerSpec == FramerSpec /\ FramerFairness

-----------------------------------------------------------------------------
(* Properties.                                                             *)

\* Every field keeps its type, and no byte of a packet is written past the buffer.
FramerTypeOK ==
    /\ rxIncomplete \in BOOLEAN
    /\ expLength \in 0..(Base - 1)
    /\ buf \in Seq(0..(Base - 1)) /\ Len(buf) <= MaxPacketSize
    /\ prevByte \in 0..(Base - 1)
    /\ got \in Seq(0..(Base - 1))
    /\ draining \in BOOLEAN
    /\ disabled \in BOOLEAN
    /\ todo \in Seq(0..(Base - 1))
    /\ sent \in Payloads \cup {<<>>}
    /\ intact \in BOOLEAN

\* The counters and flags of _rxTask implement the parser that keeps the longest suffix
\* which may become a frame: whatever the line carries, a payload is accepted exactly
\* when its frame, checksum included, ends the bytes read.
ImplementsParser == Parser!ParserSpec

\* A frame that reaches a framer at rest whole and without a pause is accepted, whatever
\* noise, lost bytes, abandoned packets or ended sessions came before it.
IntactIsReceived ==
    [][ReadFrameByte /\ Len(todo) = 1 /\ intact => got' = sent]_framerVars

\* Nothing is transmitted while _rxIncomplete is set, so it does not stay set: not even
\* when it was left over from a session that had ended within a packet.
GateOpens == rxIncomplete /\ ~disabled ~> ~rxIncomplete \/ disabled

=============================================================================
