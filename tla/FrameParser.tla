------------------------------ MODULE FrameParser ------------------------------
(***************************************************************************)
(* What the framing of the accessory protocol promises, with no buffer, no *)
(* counters and no state machine: a receiver keeps the longest suffix of   *)
(* the bytes it read that can still grow into a frame, and when that is a  *)
(* frame it has got its payload.  RxFramer implements this.                *)
(*                                                                         *)
(* The layout of a frame is that of esPod::_sendPacket (src/src/esPod.cpp).*)
(***************************************************************************)
EXTENDS Integers, Sequences

CONSTANTS
    Base,          \* number of values of a byte (256)
    Sync1,         \* 0xFF
    Sync2,         \* 0x55
    Checksum(_)    \* the checksum byte of a payload

VARIABLES
    window,   \* the suffix that may become a frame
    got       \* the payload the last byte completed, or <<>>

parserVars == <<window, got>>

Bytes == 0..(Base - 1)

\* The length byte holds the length modulo Base.
Frame(p) == <<Sync1, Sync2, Len(p) % Base>> \o p \o <<Checksum(p)>>

Payload(w) == SubSeq(w, 4, Len(w) - 1)

\* A suffix is kept while it is at most the sync bytes, or has a length byte that is not
\* zero and no more bytes than that length and a checksum ask for.
Begins(w) ==
    \/ w \in {<<>>, <<Sync1>>, <<Sync1, Sync2>>}
    \/ /\ Len(w) >= 3
       /\ w[1] = Sync1 /\ w[2] = Sync2
       /\ w[3] # 0
       /\ Len(w) < w[3] + 4

\* w is as long as its length byte says.
Complete(w) ==
    /\ Len(w) > 3
    /\ w[1] = Sync1 /\ w[2] = Sync2
    /\ Len(w) = w[3] + 4

\* What is left of a window after its last byte b did not extend it.
Restart(b) == IF b = Sync1 THEN <<b>> ELSE <<>>

ParserInit ==
    /\ window = <<>>
    /\ got = <<>>

Read(b) ==
    LET w == Append(window, b) IN
    \/ /\ Begins(w)
       /\ window' = w
       /\ got' = <<>>
    \/ /\ ~Begins(w)
       /\ window' = Restart(b)
       /\ got' = IF Complete(w) /\ w = Frame(Payload(w)) THEN Payload(w) ELSE <<>>

\* The sender paused for too long.
GiveUp ==
    /\ \E b \in Bytes : window' = Restart(b)
    /\ UNCHANGED got

ParserNext == GiveUp \/ \E b \in Bytes : Read(b)

ParserSpec == ParserInit /\ [][ParserNext]_parserVars

=============================================================================
