---------------------------- MODULE RxFramerProofs ----------------------------
(***************************************************************************)
(* Proofs about RxFramer, for every width of a byte, checksum function,    *)
(* buffer and set of payloads: the buffer is never overrun, and the flags  *)
(* and counters of _rxTask implement FrameParser.                          *)
(***************************************************************************)
EXTENDS RxFramer, SequenceTheorems, TLAPS

Octets == 0..(Base - 1)

\* The framer's own fields.  Beside the types: within a packet no more bytes than its
\* length, outside of one at most the checksum beside them, and none before the length.
FieldsInv ==
    /\ rxIncomplete \in BOOLEAN
    /\ expLength \in Octets
    /\ buf \in Seq(Octets) /\ Len(buf) <= Base
    /\ prevByte \in Octets
    /\ got \in Seq(Octets)
    /\ rxIncomplete /\ expLength = 0 => buf = <<>>
    /\ rxIncomplete => Len(buf) <= expLength

LineInv ==
    /\ draining \in BOOLEAN /\ disabled \in BOOLEAN /\ intact \in BOOLEAN
    /\ todo \in Seq(Octets)
    /\ sent \in Payloads \cup {<<>>}

FramerInv == FieldsInv /\ LineInv

\* A frame the car sends is made of bytes.
LEMMA FrameOfBytes ==
    ASSUME NEW p \in Payloads
    PROVE  Parser!Frame(p) \in Seq(Octets)
<1>1. p \in Seq(Octets) /\ Len(p) \in 1..(Base - 1) /\ Checksum(p) \in Octets
    BY FramerAssumption DEF Octets
<1>2. Len(p) % Base \in Octets
    BY <1>1, FramerAssumption DEF Octets
<1>3. <<Sync1, Sync2, Len(p) % Base>> \in Seq(Octets)
    BY <1>2, FramerAssumption DEF Octets
<1>4. <<Checksum(p)>> \in Seq(Octets)
    BY <1>1
<1> QED
    BY <1>1, <1>3, <1>4 DEF Parser!Frame

LEMMA FramerInvInit == FramerInit => FramerInv
<1> SUFFICES ASSUME FramerInit PROVE FramerInv
    OBVIOUS
<1>1. buf \in Seq(Octets) /\ Len(buf) = 0 /\ got \in Seq(Octets) /\ todo \in Seq(Octets)
    BY DEF FramerInit
<1>2. 0 \in Octets /\ 0 <= Base
    BY FramerAssumption DEF Octets
<1> QED
    BY <1>1, <1>2 DEF FramerInit, FramerInv, FieldsInv, LineInv

\* One byte keeps the framer's own fields within their bounds.
LEMMA FeedKeepsFields ==
    ASSUME FieldsInv, NEW b \in Octets, Feed(b)
    PROVE  FieldsInv'
<1> USE FramerAssumption DEF Octets
<1>1. CASE StartsPacket(b) /\ StartPacket
    BY <1>1 DEF FieldsInv, Feed, StartPacket
<1>2. CASE ~StartsPacket(b) /\ rxIncomplete /\ TakeLength(b)
    BY <1>2 DEF FieldsInv, Feed, TakeLength, BadLength
<1>3. CASE ~StartsPacket(b) /\ rxIncomplete /\ TakeByte(b)
    <2>1. buf \in Seq(Octets) /\ Len(buf) <= expLength /\ expLength # 0 /\ expLength \in Octets
        BY <1>3 DEF FieldsInv, TakeByte
    <2>2. buf' = Append(buf, b) /\ expLength' = expLength /\ prevByte' = b
        BY <1>3 DEF TakeByte, Feed
    <2>3. buf' \in Seq(Octets) /\ Len(buf') = Len(buf) + 1
        BY <2>1, <2>2
    <2>4. rxIncomplete' = (Len(buf') # expLength + 1)
        BY <1>3 DEF TakeByte
    <2>5. got' = buf \/ got' = <<>>
        BY <1>3 DEF TakeByte
    <2>6. got' \in Seq(Octets)
        <3>1. <<>> \in Seq(Octets)
            OBVIOUS
        <3> QED
            BY <2>1, <2>5, <3>1, Zenon
    <2>7. Len(buf') <= Base /\ (rxIncomplete' => Len(buf') <= expLength')
        <3>1. Len(buf) \in Nat
            BY <2>1
        <3>2. Len(buf) <= expLength /\ expLength \in 0..(Base - 1)
            BY <2>1
        <3>3. Len(buf') <= Base /\ Len(buf') <= expLength + 1
            BY <3>1, <3>2, <2>3
        <3>4. ASSUME rxIncomplete' PROVE Len(buf') # expLength + 1
            BY <3>4, <2>4, Zenon
        <3> QED
            BY <3>1, <3>2, <3>3, <3>4, <2>2, <2>3
    <2>8. rxIncomplete' \in BOOLEAN
        BY <2>4
    <2> QED
        BY <2>1, <2>2, <2>3, <2>6, <2>7, <2>8 DEF FieldsInv
<1>4. CASE /\ ~StartsPacket(b) /\ ~rxIncomplete
           /\ got' = <<>>
           /\ UNCHANGED <<rxIncomplete, expLength, buf>>
    BY <1>4 DEF FieldsInv, Feed
<1> QED
    BY <1>1, <1>2, <1>3, <1>4 DEF Feed

LEMMA FramerInvStep == FramerInv /\ [FramerNext]_framerVars => FramerInv'
<1> SUFFICES ASSUME FramerInv, [FramerNext]_framerVars PROVE FramerInv'
    OBVIOUS
<1>a. ASSUME UNCHANGED framerFields PROVE FieldsInv'
    BY <1>a DEF FramerInv, FieldsInv, framerFields
<1>b. todo \in Seq(Octets)
    BY DEF FramerInv, LineInv
<1>1. CASE BeginDrain
    BY <1>1, <1>a DEF BeginDrain, FramerInv, LineInv, carFields
<1>2. CASE ReadFrameByte
    <2>1. Head(todo) \in Octets /\ Tail(todo) \in Seq(Octets)
        BY <1>2, <1>b DEF ReadFrameByte
    <2> QED
        BY <1>2, <2>1, FeedKeepsFields DEF ReadFrameByte, FramerInv, LineInv
<1>3. CASE ReadNoise
    <2>1. PICK b \in Octets : Feed(b)
        BY <1>3 DEF ReadNoise, Octets
    <2> QED
        BY <1>3, <2>1, FeedKeepsFields DEF ReadNoise, FramerInv, LineInv
<1>4. CASE EndDrain
    <2>1. LineInv'
        BY <1>4 DEF EndDrain, FramerInv, LineInv
    <2>2. CASE UNCHANGED framerFields
        BY <2>1, <2>2, <1>a DEF FramerInv
    <2>3. CASE rxIncomplete' = FALSE /\ UNCHANGED <<expLength, buf, prevByte, got>>
        BY <2>1, <2>3 DEF FramerInv, FieldsInv
    <2> QED
        BY <1>4, <2>2, <2>3 DEF EndDrain
<1>5. CASE Flush
    <2>1. todo' \in Seq(Octets)
        BY <1>5 DEF Flush
    <2> QED
        BY <1>5, <1>a, <2>1 DEF Flush, FramerInv, LineInv
<1>6. CASE SessionChanges
    BY <1>6, <1>a DEF SessionChanges, FramerInv, LineInv, carFields
<1>7. ASSUME NEW p \in Payloads, CarSends(p) PROVE FramerInv'
    <2>1. todo' \in Seq(Octets)
        BY <1>7, FrameOfBytes DEF CarSends
    <2>2. rxIncomplete \in BOOLEAN
        BY DEF FramerInv, FieldsInv
    <2>3. intact' \in BOOLEAN /\ sent' \in Payloads \cup {<<>>}
        BY <1>7, <2>2 DEF CarSends
    <2> QED
        BY <1>7, <1>a, <2>1, <2>3 DEF CarSends, FramerInv, LineInv
<1>8. CASE ByteLost
    <2>1. todo' \in Seq(Octets)
        BY <1>8, <1>b DEF ByteLost
    <2> QED
        BY <1>8, <1>a, <2>1 DEF ByteLost, FramerInv, LineInv
<1>9. CASE UNCHANGED framerVars
    BY <1>9, <1>a DEF framerVars, FramerInv, LineInv, carFields
<1> QED
    BY <1>1, <1>2, <1>3, <1>4, <1>5, <1>6, <1>7, <1>8, <1>9 DEF FramerNext

\* The task stays within its buffer and its fields keep their types, for every byte
\* width, buffer no smaller than the widest length byte asks for, and any line noise.
THEOREM FramerTypeCorrect == FramerSpec => []FramerTypeOK
<1>1. FramerInv => FramerTypeOK
    BY FramerAssumption DEF FramerInv, FieldsInv, LineInv, FramerTypeOK, Octets
<1> QED
    BY FramerInvInit, FramerInvStep, <1>1, PTL DEF FramerSpec

-----------------------------------------------------------------------------
(* The refinement.                                                         *)

LEMMA SyncsAreOctets == Sync1 \in Octets /\ Sync2 \in Octets
    BY FramerAssumption DEF Octets

LEMMA AppendToTuple ==
    ASSUME NEW x \in Octets, NEW y \in Octets, NEW z \in Octets
    PROVE  /\ Append(<<x>>, y) = <<x, y>>
           /\ Append(<<x, y>>, z) = <<x, y, z>>
<1>1. <<x>> \in Seq(Octets) /\ Len(<<x>>) = 1 /\ <<x>>[1] = x
    OBVIOUS
<1>2. <<x, y>> \in Seq(Octets) /\ Len(<<x, y>>) = 2 /\ <<x, y>>[1] = x /\ <<x, y>>[2] = y
    OBVIOUS
<1>3. /\ <<x, y, z>> \in Seq(Octets) /\ Len(<<x, y, z>>) = 3
      /\ <<x, y, z>>[1] = x /\ <<x, y, z>>[2] = y /\ <<x, y, z>>[3] = z
    OBVIOUS
<1>4. Append(<<x>>, y) = <<x, y>>
    <2> DEFINE a == Append(<<x>>, y)
    <2>1. a \in Seq(Octets) /\ Len(a) = 2 /\ a[1] = x /\ a[2] = y
        BY <1>1, AppendProperties
    <2>2. a \in Seq(Octets) /\ <<x, y>> \in Seq(Octets) /\ Len(a) = Len(<<x, y>>)
        BY <2>1, <1>2
    <2>3. \A i \in 1..Len(a) : a[i] = <<x, y>>[i]
        BY <2>1, <1>2
    <2> QED
        BY <2>2, <2>3, SeqEqual, Zenon
<1>5. Append(<<x, y>>, z) = <<x, y, z>>
    <2> DEFINE a == Append(<<x, y>>, z)
    <2>1. a \in Seq(Octets) /\ Len(a) = 3 /\ a[1] = x /\ a[2] = y /\ a[3] = z
        BY <1>2, AppendProperties
    <2>2. a \in Seq(Octets) /\ <<x, y, z>> \in Seq(Octets) /\ Len(a) = Len(<<x, y, z>>)
        BY <2>1, <1>3
    <2>3. \A i \in 1..Len(a) : a[i] = <<x, y, z>>[i]
        BY <2>1, <1>3
    <2> QED
        BY <2>2, <2>3, SeqEqual, Zenon
<1> QED
    BY <1>4, <1>5

\* Outside of a packet the window is the first sync byte or nothing.
LEMMA WindowAtRest ==
    ~rxIncomplete => Window = Parser!Restart(prevByte)
    BY FramerAssumption DEF Window, Parser!Restart

\* A byte that begins a packet, or is none of one, moves the parser on.
LEMMA RestReads ==
    ASSUME FieldsInv, NEW b \in Octets, Feed(b), ~rxIncomplete
    PROVE  Parser!Read(b)
<1> USE FramerAssumption DEF Octets
<1>1. prevByte' = b /\ got' = <<>>
    BY DEF Feed, StartsPacket, StartPacket
<1>2. CASE prevByte = Sync1 /\ b = Sync2
    <2>1. rxIncomplete' /\ expLength' = 0
        BY <1>2 DEF Feed, StartsPacket, StartPacket
    <2>2. Window = <<Sync1>> /\ Window' = <<Sync1, Sync2>>
        BY <1>2, <2>1 DEF Window
    <2>3. Append(Window, b) = <<Sync1, Sync2>>
        <3>1. Append(<<Sync1>>, Sync2) = <<Sync1, Sync2>>
            BY SyncsAreOctets, AppendToTuple, Zenon
        <3> QED
            BY <1>2, <2>2, <3>1, Zenon
    <2>4. Parser!Begins(<<Sync1, Sync2>>)
        BY DEF Parser!Begins
    <2> QED
        BY <1>1, <2>2, <2>3, <2>4 DEF Parser!Read
<1>3. CASE ~(prevByte = Sync1 /\ b = Sync2)
    <2>1. ~rxIncomplete'
        BY <1>3 DEF Feed, StartsPacket
    <2>2. Window' = Parser!Restart(b)
        BY <1>1, <2>1 DEF Window, Parser!Restart
    <2>3. CASE prevByte = Sync1
        <3>1. Append(Window, b) = <<Sync1, b>>
            <4>1. Append(<<Sync1>>, b) = <<Sync1, b>>
                BY SyncsAreOctets, AppendToTuple, Zenon
            <4>2. Window = <<Sync1>>
                BY <2>3, Zenon DEF Window
            <4> QED
                BY <4>1, <4>2, Zenon
        <3>2. ~Parser!Begins(<<Sync1, b>>) /\ ~Parser!Complete(<<Sync1, b>>)
            BY <1>3, <2>3 DEF Parser!Begins, Parser!Complete
        <3> QED
            BY <1>1, <2>2, <3>1, <3>2 DEF Parser!Read
    <2>4. CASE prevByte # Sync1
        <3>1. Append(Window, b) = <<b>>
            <4>1. Append(<<>>, b) = <<b>>
                OBVIOUS
            <4>2. Window = <<>>
                BY <2>4, Zenon DEF Window
            <4> QED
                BY <4>1, <4>2, Zenon
        <3>2. CASE b = Sync1
            BY <1>1, <2>2, <3>1, <3>2 DEF Parser!Read, Parser!Begins, Parser!Restart
        <3>3. CASE b # Sync1
            <4>1. ~Parser!Begins(<<b>>) /\ ~Parser!Complete(<<b>>)
                BY <3>3 DEF Parser!Begins, Parser!Complete
            <4> QED
                BY <1>1, <2>2, <3>1, <4>1 DEF Parser!Read
        <3> QED
            BY <3>2, <3>3
    <2> QED
        BY <2>3, <2>4
<1> QED
    BY <1>2, <1>3

\* The length byte moves the parser on.
LEMMA LengthReads ==
    ASSUME FieldsInv, NEW b \in Octets, Feed(b), rxIncomplete, TakeLength(b)
    PROVE  Parser!Read(b)
<1> USE FramerAssumption DEF Octets
<1>1. prevByte' = b /\ got' = <<>> /\ expLength' = b /\ buf' = <<>>
    BY DEF Feed, TakeLength
<1>2. Window = <<Sync1, Sync2>>
    BY DEF Window, TakeLength
<1>3. Append(Window, b) = <<Sync1, Sync2, b>>
    <2>1. Append(<<Sync1, Sync2>>, b) = <<Sync1, Sync2, b>>
        BY SyncsAreOctets, AppendToTuple, Zenon
    <2> QED
        BY <1>2, <2>1, Zenon
<1>4. CASE b = 0
    <2>1. ~rxIncomplete'
        BY <1>4 DEF TakeLength, BadLength
    <2>2. Window' = Parser!Restart(b)
        BY <1>1, <2>1 DEF Window, Parser!Restart
    <2>3. ~Parser!Begins(<<Sync1, Sync2, b>>) /\ ~Parser!Complete(<<Sync1, Sync2, b>>)
        BY <1>4 DEF Parser!Begins, Parser!Complete
    <2> QED
        BY <1>1, <1>3, <2>2, <2>3 DEF Parser!Read
<1>5. CASE b # 0
    <2>1. rxIncomplete'
        <3>1. ~BadLength(b)
            BY <1>5 DEF BadLength
        <3> QED
            BY <3>1, Zenon DEF TakeLength
    <2>2. Window' = <<Sync1, Sync2, b>> \o <<>>
        BY <1>1, <1>5, <2>1 DEF Window
    <2>3. Window' = <<Sync1, Sync2, b>>
        BY <2>2
    <2>4. Parser!Begins(<<Sync1, Sync2, b>>)
        BY <1>5 DEF Parser!Begins
    <2> QED
        BY <1>1, <1>3, <2>3, <2>4 DEF Parser!Read
<1> QED
    BY <1>4, <1>5

\* A byte of the payload, or the checksum, moves the parser on.
LEMMA ByteReads ==
    ASSUME FieldsInv, NEW b \in Octets, Feed(b), rxIncomplete, TakeByte(b)
    PROVE  Parser!Read(b)
<1> DEFINE head == <<Sync1, Sync2, expLength>>
           w == Append(Window, b)
<1>1. /\ buf \in Seq(Octets) /\ Len(buf) \in Nat /\ Len(buf) <= expLength
      /\ expLength \in 1..(Base - 1)
    BY FramerAssumption DEF FieldsInv, TakeByte, Octets
<1>2. /\ buf' = Append(buf, b) /\ expLength' = expLength /\ prevByte' = b
      /\ Len(buf') = Len(buf) + 1
    BY <1>1 DEF TakeByte, Feed
<1>3. rxIncomplete' = (Len(buf) # expLength)
    BY <1>1, <1>2 DEF TakeByte
<1>4. head \in Seq(Octets) /\ Len(head) = 3
    BY <1>1, FramerAssumption DEF Octets
<1>5. Window = head \o buf
    BY <1>1 DEF Window
<1>6. Window \in Seq(Octets) /\ Len(Window) = Len(buf) + 3
    BY <1>1, <1>4, <1>5
<1>7. /\ w \in Seq(Octets) /\ Len(w) = Len(buf) + 4
      /\ w[1] = Sync1 /\ w[2] = Sync2 /\ w[3] = expLength
    BY <1>1, <1>4, <1>5, <1>6
<1>8. w = head \o Append(buf, b)
    BY <1>1, <1>4, <1>5
<1>9. CASE Len(buf) # expLength
    <2>1. rxIncomplete' /\ got' = <<>>
        BY <1>3, <1>9 DEF TakeByte
    <2>2. Window' = w
        BY <1>1, <1>2, <1>8, <2>1 DEF Window
    <2>3. Parser!Begins(w)
        BY <1>1, <1>7, <1>9 DEF Parser!Begins
    <2> QED
        BY <2>1, <2>2, <2>3 DEF Parser!Read
<1>10. CASE Len(buf) = expLength
    <2>1. ~rxIncomplete' /\ got' = IF Checksum(buf) = b THEN buf ELSE <<>>
        BY <1>3, <1>10 DEF TakeByte
    <2>2. Window' = Parser!Restart(b)
        BY <1>2, <2>1 DEF Window, Parser!Restart
    <2>3. ~Parser!Begins(w) /\ Parser!Complete(w)
        BY <1>1, <1>7, <1>10 DEF Parser!Begins, Parser!Complete
    <2>4. Parser!Payload(w) = buf
        BY <1>1, <1>4, <1>5, <1>6, <1>7 DEF Parser!Payload
    <2>5. Parser!Frame(buf) = head \o buf \o <<Checksum(buf)>>
        <3>1. expLength % Base = expLength
            BY <1>1, FramerAssumption
        <3> QED
            BY <1>10, <3>1, Zenon DEF Parser!Frame
    <2>6. w = head \o buf \o <<b>>
        BY <1>1, <1>4, <1>5, <1>6
    <2>7. w = Parser!Frame(buf) <=> Checksum(buf) = b
        <3>1. ASSUME w = Parser!Frame(buf) PROVE Checksum(buf) = b
            BY <3>1, <1>6, <2>5, <2>6, <1>5
        <3> QED
            BY <3>1, <2>5, <2>6
    <2>8. got' = IF Parser!Complete(w) /\ w = Parser!Frame(Parser!Payload(w))
                 THEN Parser!Payload(w) ELSE <<>>
        BY <2>1, <2>3, <2>4, <2>7
    <2> QED
        BY <2>2, <2>3, <2>8 DEF Parser!Read
<1> QED
    BY <1>9, <1>10

LEMMA FeedReads ==
    ASSUME FieldsInv, NEW b \in Octets, Feed(b)
    PROVE  Parser!ParserNext
<1>1. Parser!Read(b)
    BY RestReads, LengthReads, ByteReads DEF Feed, FieldsInv, StartsPacket
<1> QED
    BY <1>1 DEF Parser!ParserNext, Parser!Bytes, Octets

LEMMA StepParses ==
    FramerInv /\ [FramerNext]_framerVars => [Parser!ParserNext]_<<Window, got>>
<1> SUFFICES ASSUME FramerInv, [FramerNext]_framerVars
             PROVE  Parser!ParserNext \/ UNCHANGED <<Window, got>>
    BY Zenon
<1>a. ASSUME UNCHANGED framerFields PROVE UNCHANGED <<Window, got>>
    BY <1>a DEF framerFields, Window
<1>1. CASE ReadFrameByte
    <2>1. Head(todo) \in Octets
        BY <1>1 DEF ReadFrameByte, FramerInv, LineInv
    <2> QED
        BY <1>1, <2>1, FeedReads DEF ReadFrameByte, FramerInv
<1>2. CASE ReadNoise
    BY <1>2, FeedReads DEF ReadNoise, FramerInv, Octets
<1>3. CASE EndDrain
    <2>1. CASE UNCHANGED framerFields
        BY <2>1, <1>a
    <2>2. CASE rxIncomplete' = FALSE /\ UNCHANGED <<expLength, buf, prevByte, got>>
        <3>1. Window' = Parser!Restart(prevByte)
            BY <2>2 DEF Window, Parser!Restart
        <3>2. prevByte \in Parser!Bytes
            BY DEF FramerInv, FieldsInv, Octets, Parser!Bytes
        <3> QED
            BY <2>2, <3>1, <3>2 DEF Parser!ParserNext, Parser!GiveUp
    <2> QED
        BY <1>3, <2>1, <2>2 DEF EndDrain
<1>4. CASE BeginDrain \/ Flush \/ SessionChanges \/ ByteLost \/ UNCHANGED framerVars
    BY <1>4, <1>a DEF BeginDrain, Flush, SessionChanges, ByteLost, framerVars
<1>5. ASSUME NEW p \in Payloads, CarSends(p) PROVE UNCHANGED <<Window, got>>
    BY <1>5, <1>a DEF CarSends
<1> QED
    BY <1>1, <1>2, <1>3, <1>4, <1>5 DEF FramerNext

\* The receiver of esPod implements the framing it promises: a payload goes to the command
\* queue exactly when its frame ends the bytes read.
THEOREM FramerRefinesParser == FramerSpec => ImplementsParser
<1>1. FramerInit => Parser!ParserInit
    BY FramerAssumption DEF FramerInit, Parser!ParserInit, Window
<1> QED
    BY <1>1, FramerInvInit, FramerInvStep, StepParses, PTL
    DEF FramerSpec, ImplementsParser, Parser!ParserSpec, Parser!parserVars

-----------------------------------------------------------------------------
(* A frame that nothing disturbs.                                          *)

\* What the car has yet to send of its frame is all but the first k bytes.
Rest(k) ==
    /\ Len(todo) = Len(sent) + 4 - k
    /\ \A i \in 1..Len(todo) : todo[i] = Parser!Frame(sent)[k + i]

\* Where the framer stands behind the first k bytes of a frame.
Stands(k) ==
    /\ k < 2 => ~rxIncomplete
    /\ k = 1 => prevByte = Sync1
    /\ k >= 2 => rxIncomplete
    /\ k = 2 => expLength = 0 /\ buf = <<>>
    /\ k > 2 => /\ expLength = Len(sent) /\ Len(buf) = k - 3
                /\ \A j \in 1..(k - 3) : buf[j] = sent[j]

IntactInv ==
    intact /\ todo # <<>> =>
        /\ sent \in Payloads
        /\ \E k \in 0..(Len(sent) + 3) : Rest(k) /\ Stands(k)

\* The bytes of a frame.
LEMMA FrameBytes ==
    ASSUME NEW p \in Payloads
    PROVE  /\ p \in Seq(Octets) /\ Len(p) \in 1..(Base - 1) /\ Checksum(p) \in Octets
           /\ Len(Parser!Frame(p)) = Len(p) + 4
           /\ Parser!Frame(p)[1] = Sync1 /\ Parser!Frame(p)[2] = Sync2
           /\ Parser!Frame(p)[3] = Len(p)
           /\ \A i \in 1..Len(p) : Parser!Frame(p)[i + 3] = p[i]
           /\ Parser!Frame(p)[Len(p) + 4] = Checksum(p)
<1>1. p \in Seq(Octets) /\ Len(p) \in 1..(Base - 1) /\ Checksum(p) \in Octets
    BY FramerAssumption DEF Octets
<1>2. PICK n \in 1..(Base - 1) : n = Len(p) /\ Len(p) % Base = n
    BY <1>1, FramerAssumption
<1> DEFINE head == <<Sync1, Sync2, Len(p) % Base>>
           tail == <<Checksum(p)>>
<1>3. /\ head \in Seq(Octets) /\ Len(head) = 3
      /\ head[1] = Sync1 /\ head[2] = Sync2 /\ head[3] = n
    BY <1>2, FramerAssumption DEF Octets
<1>4. tail \in Seq(Octets) /\ Len(tail) = 1 /\ tail[1] = Checksum(p)
    BY <1>1
<1>5. Parser!Frame(p) = head \o p \o tail
    BY DEF Parser!Frame
<1> HIDE DEF head, tail
<1>6. /\ head \o p \in Seq(Octets) /\ Len(head \o p) = n + 3
      /\ \A i \in 1..(n + 3) : (head \o p)[i] = IF i <= 3 THEN head[i] ELSE p[i - 3]
    <2>1. /\ head \o p \in Seq(Octets) /\ Len(head \o p) = Len(head) + Len(p)
          /\ \A i \in 1 .. Len(head) + Len(p) :
                (head \o p)[i] = IF i <= Len(head) THEN head[i] ELSE p[i - Len(head)]
        BY <1>1, <1>3, ConcatProperties, Zenon
    <2>2. Len(head) + Len(p) = n + 3
        BY <1>2, <1>3
    <2> QED BY <1>2, <1>3, <2>1, <2>2
<1>7. /\ Len(Parser!Frame(p)) = n + 4
      /\ \A i \in 1..(n + 4) :
            Parser!Frame(p)[i] = IF i <= n + 3 THEN (head \o p)[i] ELSE tail[i - (n + 3)]
    <2> DEFINE front == head \o p
    <2>1. front \in Seq(Octets) /\ Len(front) = n + 3 /\ Parser!Frame(p) = front \o tail
        BY <1>5, <1>6
    <2> HIDE DEF front
    <2>2. /\ Len(front \o tail) = Len(front) + Len(tail)
          /\ \A i \in 1 .. Len(front) + Len(tail) :
                (front \o tail)[i] = IF i <= Len(front) THEN front[i] ELSE tail[i - Len(front)]
        BY <1>4, <2>1, ConcatProperties, Zenon
    <2>3. Len(front) + Len(tail) = n + 4
        BY <1>4, <2>1
    <2>4. \A i \in 1..(n + 4) : Parser!Frame(p)[i] = IF i <= n + 3 THEN front[i]
                                                      ELSE tail[i - (n + 3)]
        BY <2>1, <2>2, <2>3
    <2> QED BY <2>1, <2>2, <2>3, <2>4 DEF front
<1>8. \A i \in 1..3 : Parser!Frame(p)[i] = head[i]
    BY <1>6, <1>7
<1>9. ASSUME NEW i \in 1..n PROVE Parser!Frame(p)[i + 3] = p[i]
    <2>1. /\ i + 3 \in 1..(n + 3) /\ i + 3 \in 1..(n + 4) /\ i + 3 <= n + 3 /\ ~(i + 3 <= 3)
          /\ (i + 3) - 3 = i
        BY <1>2
    <2>2. Parser!Frame(p)[i + 3] = (head \o p)[i + 3]
        BY <1>7, <2>1
    <2>3. (head \o p)[i + 3] = p[(i + 3) - 3]
        BY <1>6, <2>1
    <2> QED BY <2>1, <2>2, <2>3
<1>10. Parser!Frame(p)[n + 4] = Checksum(p)
    BY <1>4, <1>7
<1> QED BY <1>1, <1>2, <1>3, <1>7, <1>8, <1>9, <1>10

\* Each byte of the frame takes the framer one place on, and the last one has it done.
LEMMA FrameByteRead ==
    ASSUME FramerInv, sent \in Payloads, NEW k \in 0..(Len(sent) + 3), Rest(k), Stands(k),
           NEW b \in Octets, b = Parser!Frame(sent)[k + 1], Feed(b), sent' = sent
    PROVE  /\ k < Len(sent) + 3 => Stands(k + 1)'
           /\ k = Len(sent) + 3 => got' = sent
<1>1. PICK n \in 1..(Base - 1) :
      /\ n = Len(sent) /\ sent \in Seq(Octets) /\ Checksum(sent) \in Octets
      /\ Parser!Frame(sent)[1] = Sync1 /\ Parser!Frame(sent)[2] = Sync2
      /\ Parser!Frame(sent)[3] = n /\ Parser!Frame(sent)[n + 4] = Checksum(sent)
      /\ \A i \in 1..n : Parser!Frame(sent)[i + 3] = sent[i]
    BY FrameBytes
<1>2. Base \in Nat /\ Sync1 # Sync2 /\ Base <= MaxPacketSize /\ MaxPacketSize \in Nat
    BY FramerAssumption
<1>3. k \in Nat /\ k <= n + 3 /\ prevByte' = b
    BY <1>1, <1>2 DEF Feed
<1>4. CASE k = 0
    <2>1. b = Sync1 /\ ~rxIncomplete
        BY <1>1, <1>4 DEF Stands
    <2>2. ~rxIncomplete'
        BY <1>2, <2>1 DEF Feed, StartsPacket
    <2> QED BY <1>1, <1>3, <1>4, <2>1, <2>2 DEF Stands
<1>5. CASE k = 1
    <2>1. b = Sync2 /\ ~rxIncomplete /\ prevByte = Sync1
        BY <1>1, <1>5 DEF Stands
    <2>2. rxIncomplete' /\ expLength' = 0 /\ buf' = <<>>
        BY <2>1 DEF Feed, StartsPacket, StartPacket
    <2> QED BY <1>1, <1>5, <2>2 DEF Stands
<1>6. CASE k = 2
    <2>1. b = n /\ rxIncomplete /\ expLength = 0 /\ buf = <<>>
        BY <1>1, <1>6 DEF Stands
    <2>2. TakeLength(b)
        BY <2>1 DEF Feed, StartsPacket, TakeByte
    <2>3. ~BadLength(b)
        BY <1>2, <2>1 DEF BadLength
    <2>4. rxIncomplete' /\ expLength' = n /\ buf' = <<>>
        BY <2>1, <2>2, <2>3, Zenon DEF TakeLength
    <2>5. Len(buf') = 0
        BY <2>4
    <2> QED BY <1>1, <1>6, <2>4, <2>5 DEF Stands
<1>7. CASE k > 2
    <2>1. /\ rxIncomplete /\ expLength = n /\ expLength # 0 /\ Len(buf) = k - 3
          /\ \A j \in 1..(k - 3) : buf[j] = sent[j]
          /\ buf \in Seq(Octets)
        BY <1>1, <1>3, <1>7 DEF Stands, FramerInv, FieldsInv
    <2>2. TakeByte(b)
        BY <2>1 DEF Feed, StartsPacket, TakeLength
    <2>3. /\ buf' = Append(buf, b) /\ expLength' = n /\ Len(buf') = k - 2
          /\ \A j \in 1..(k - 3) : buf'[j] = buf[j]
          /\ buf'[k - 2] = b
        BY <1>3, <1>7, <2>1, <2>2, AppendProperties DEF TakeByte
    <2>4. rxIncomplete' = (k - 2 # n + 1)
        BY <2>1, <2>2, <2>3, Zenon DEF TakeByte
    <2>5. CASE k < n + 3
        <3>1. rxIncomplete'
            <4>1. k - 2 # n + 1
                BY <1>3, <2>5
            <4> QED BY <2>4, <4>1, Zenon
        <3>2. b = sent[k - 2]
            <4>1. k - 2 \in 1..n /\ (k - 2) + 3 = k + 1
                BY <1>3, <1>7, <2>5
            <4> QED BY <1>1, <4>1
        <3>3. \A j \in 1..(k - 2) : buf'[j] = sent[j]
            BY <1>3, <1>7, <2>1, <2>3, <3>2
        <3> QED BY <1>1, <1>3, <1>7, <2>3, <2>5, <3>1, <3>3 DEF Stands
    <2>6. CASE k = n + 3
        <3>1. ~rxIncomplete'
            <4>1. k - 2 = n + 1
                BY <1>3, <2>6
            <4> QED BY <2>4, <4>1, Zenon
        <3>2. buf = sent
            <4>1. Len(buf) = Len(sent) /\ \A j \in 1..Len(buf) : buf[j] = sent[j]
                BY <1>1, <2>1, <2>6
            <4> QED BY <1>1, <2>1, <4>1, SeqEqual
        <3>3. Checksum(buf) = b
            BY <1>1, <2>6, <3>2
        <3>4. got' = buf
            BY <2>2, <3>1, <3>3, Zenon DEF TakeByte
        <3> QED BY <1>1, <2>6, <3>2, <3>4
    <2> QED BY <1>1, <1>3, <2>5, <2>6
<1> QED BY <1>3, <1>4, <1>5, <1>6, <1>7

\* The next byte of a frame that is whole so far.
LEMMA NextByte ==
    ASSUME FramerInv, IntactInv, ReadFrameByte, intact
    PROVE  /\ sent \in Payloads
           /\ \E k \in 0..(Len(sent) + 3) :
                 /\ Rest(k) /\ Stands(k)
                 /\ \E b \in Octets : b = Parser!Frame(sent)[k + 1] /\ Feed(b)
<1>1. todo # <<>> /\ todo \in Seq(Octets) /\ Feed(Head(todo))
    BY DEF ReadFrameByte, FramerInv, LineInv
<1>2. sent \in Payloads
    BY <1>1 DEF IntactInv
<1>3. PICK k \in 0..(Len(sent) + 3) : Rest(k) /\ Stands(k)
    BY <1>1 DEF IntactInv
<1>4. Head(todo) = todo[1] /\ Head(todo) \in Octets /\ 1 \in 1..Len(todo)
    BY <1>1
<1>5. Head(todo) = Parser!Frame(sent)[k + 1]
    BY <1>3, <1>4 DEF Rest
<1> QED BY <1>1, <1>2, <1>3, <1>4, <1>5

LEMMA IntactStep == FramerInv /\ IntactInv /\ [FramerNext]_framerVars => IntactInv'
<1> SUFFICES ASSUME FramerInv, IntactInv, [FramerNext]_framerVars PROVE IntactInv'
    OBVIOUS
<1>a. ASSUME UNCHANGED <<framerFields, carFields>> PROVE IntactInv'
    BY <1>a DEF IntactInv, framerFields, carFields, Rest, Stands
<1>1. CASE ReadFrameByte
    <2> SUFFICES ASSUME intact', todo' # <<>> PROVE IntactInv'
        BY DEF IntactInv
    <2>1. /\ intact /\ sent' = sent /\ todo' = Tail(todo)
          /\ todo # <<>> /\ todo \in Seq(Octets)
        BY <1>1 DEF ReadFrameByte, FramerInv, LineInv
    <2>2. sent \in Payloads
        BY <1>1, <2>1, NextByte
    <2>3. PICK k \in 0..(Len(sent) + 3) :
             /\ Rest(k) /\ Stands(k)
             /\ \E b \in Octets : b = Parser!Frame(sent)[k + 1] /\ Feed(b)
        BY <1>1, <2>1, NextByte
    <2>4. PICK n \in Nat : n = Len(sent)
        BY <2>2, FrameBytes
    <2>5. /\ Len(todo) = n + 4 - k /\ Len(todo') = Len(todo) - 1
          /\ \A i \in 1..(Len(todo) - 1) : todo'[i] = todo[i + 1]
        BY <2>1, <2>3, <2>4, HeadTailProperties DEF Rest
    <2>6. k < n + 3
        <3>1. todo' \in Seq(Octets) /\ Len(todo') # 0
            BY <2>1, HeadTailProperties, EmptySeq
        <3> QED BY <2>3, <2>4, <2>5, <3>1
    <2>7. Stands(k + 1)'
        BY <2>1, <2>2, <2>3, <2>4, <2>6, FrameByteRead
    <2>8. Rest(k + 1)'
        <3>1. \A i \in 1..Len(todo') : i + 1 \in 1..Len(todo)
            BY <2>3, <2>4, <2>5
        <3>2. \A i \in 1..Len(todo') : todo'[i] = Parser!Frame(sent)[k + (i + 1)]
            BY <2>3, <2>4, <2>5, <3>1 DEF Rest
        <3>3. \A i \in 1..Len(todo') : k + (i + 1) = (k + 1) + i
            BY <2>3, <2>4, <2>5
        <3>4. \A i \in 1..Len(todo') : todo'[i] = Parser!Frame(sent)[(k + 1) + i]
            BY <3>2, <3>3
        <3>5. Parser!Frame(sent)' = Parser!Frame(sent)
            BY <2>1 DEF Parser!Frame
        <3>6. Len(todo') = Len(sent') + 4 - (k + 1)
            BY <2>1, <2>3, <2>4, <2>5
        <3> QED BY <3>4, <3>5, <3>6 DEF Rest
    <2>9. k + 1 \in 0..(Len(sent') + 3)
        BY <2>1, <2>3, <2>4, <2>6
    <2>10. PICK m \in 0..(Len(sent') + 3) : Rest(m)' /\ Stands(m)'
        BY <2>7, <2>8, <2>9
    <2> QED BY <2>1, <2>2, <2>10 DEF IntactInv
<1>2. CASE ReadNoise \/ Flush \/ ByteLost
    BY <1>2 DEF ReadNoise, Flush, ByteLost, IntactInv
<1>3. CASE EndDrain
    <2>1. CASE UNCHANGED <<framerFields, intact>>
        BY <1>3, <1>a, <2>1 DEF EndDrain, carFields
    <2>2. CASE ~intact'
        BY <2>2 DEF IntactInv
    <2> QED BY <1>3, <2>1, <2>2 DEF EndDrain
<1>4. ASSUME NEW p \in Payloads, CarSends(p) PROVE IntactInv'
    <2> SUFFICES ASSUME intact' PROVE IntactInv'
        BY DEF IntactInv
    <2>1. ~rxIncomplete' /\ sent' = p /\ todo' = Parser!Frame(p)
        BY <1>4, Zenon DEF CarSends, framerFields
    <2>2. Len(todo') = Len(p) + 4 /\ Len(p) \in Nat
        BY <2>1, FrameBytes
    <2>3. Stands(0)'
        BY <2>1 DEF Stands
    <2>4. Rest(0)'
        <3>1. Parser!Frame(sent)' = Parser!Frame(p)
            BY <2>1 DEF Parser!Frame
        <3> QED BY <2>1, <2>2, <3>1 DEF Rest
    <2>5. 0 \in 0..(Len(sent') + 3)
        BY <2>1, <2>2
    <2>6. PICK m \in 0..(Len(sent') + 3) : Rest(m)' /\ Stands(m)'
        BY <2>3, <2>4, <2>5
    <2> QED BY <2>1, <2>6 DEF IntactInv
<1>5. CASE BeginDrain \/ SessionChanges \/ UNCHANGED framerVars
    BY <1>5, <1>a DEF BeginDrain, SessionChanges, framerVars
<1> QED BY <1>1, <1>2, <1>3, <1>4, <1>5 DEF FramerNext

\* A frame that meets a framer at rest and that nothing disturbs is accepted with its last
\* byte, for every payload and checksum, sync pairs within the payload included.
THEOREM IntactFramesReceived == FramerSpec => IntactIsReceived
<1>1. FramerInit => IntactInv
    BY DEF FramerInit, IntactInv
<1>2. ASSUME FramerInv, IntactInv, ReadFrameByte, Len(todo) = 1, intact
      PROVE  got' = sent
    <2>1. sent \in Payloads /\ sent' = sent
        BY <1>2, NextByte DEF ReadFrameByte
    <2>2. PICK k \in 0..(Len(sent) + 3) :
             /\ Rest(k) /\ Stands(k)
             /\ \E b \in Octets : b = Parser!Frame(sent)[k + 1] /\ Feed(b)
        BY <1>2, NextByte
    <2>3. k = Len(sent) + 3
        <3>1. PICK n \in Nat : n = Len(sent)
            BY <2>1, FrameBytes
        <3>2. 1 = n + 4 - k
            BY <1>2, <2>2, <3>1 DEF Rest
        <3> QED BY <2>2, <3>1, <3>2
    <2> QED BY <1>2, <2>1, <2>2, <2>3, FrameByteRead
<1>3. FramerInv /\ IntactInv =>
      [ReadFrameByte /\ Len(todo) = 1 /\ intact => got' = sent]_framerVars
    BY <1>2
<1> QED
    BY <1>1, <1>3, FramerInvInit, FramerInvStep, IntactStep, PTL
    DEF FramerSpec, IntactIsReceived

=============================================================================
