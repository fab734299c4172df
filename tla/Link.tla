-------------------------------- MODULE Link --------------------------------
(***************************************************************************)
(* A frame on its way from network_tx to network_rx: what can happen to its*)
(* half-bits on the line, the elements the receiver's handlers make of     *)
(* them, and what network_rx then returns.                                 *)
(*                                                                         *)
(* Frames of other nodes overlap it half-bit by half-bit on the open-drain *)
(* line.  Noise changes a half-bit or a bit.  A receiver whose handlers are*)
(* late misses a compare interrupt, or takes one too many: a half-bit is   *)
(* lost or doubled.  After that the receiver goes through the line, element*)
(* by element: what is left of a frame after a timeout is another element. *)
(***************************************************************************)
EXTENDS Codec, FiniteSets

CONSTANTS Frames,           \* the frames the nodes send
          MaxFaults         \* bound, for each frame: its faults and overlapping frames

ASSUME LinkAssumption ==
    /\ \A f \in Frames :
          /\ f.source \in 0 .. 255 /\ f.destination \in 0 .. 255
          /\ f.message \in Seq(0 .. 255) /\ Len(f.message) \in 1 .. 255
    /\ MaxFaults \in [Frames -> Nat]

VARIABLES
    sent,                   \* the frame
    halves,                 \* the half-bits on the line
    others,                 \* the frames that overlap it
    flips, shifts,          \* the values changed and half-bits lost or doubled
    heard,                  \* the half-bits the receiver has been through
    delivered               \* what network_rx has returned

faults == <<flips, shifts>>
received == <<heard, delivered>>
vars == <<sent, halves, others, faults, received>>

Init == /\ sent \in Frames
        /\ halves = EncodedFrame(sent)
        /\ others = {}
        /\ flips = 0
        /\ shifts = 0
        /\ heard = 0
        /\ delivered = << >>

Faulted == Cardinality(others) + flips + shifts

OnTheLine == heard = 0

-----------------------------------------------------------------------------
\* A line is high where a frame has ended.
LevelAt(seq, k) == IF k <= Len(seq) THEN seq[k] ELSE 1

\* Open drain: low where one of the nodes is low.
WiredAnd(a, b) ==
    [k \in 1 .. (IF Len(a) > Len(b) THEN Len(a) ELSE Len(b)) |->
        IF LevelAt(a, k) = 1 /\ LevelAt(b, k) = 1 THEN 1 ELSE 0]

Overlap == /\ OnTheLine
           /\ Faulted < MaxFaults[sent]
           /\ \E f \in Frames \ others :
                 /\ others' = others \cup {f}
                 /\ halves' = WiredAnd(halves, EncodedFrame(f))
           /\ UNCHANGED <<sent, faults, received>>

Damage(line) == /\ OnTheLine
                /\ Faulted < MaxFaults[sent]
                /\ halves' = line
                /\ UNCHANGED <<sent, others, received>>

Flip(line) == Damage(line) /\ flips' = flips + 1 /\ UNCHANGED shifts
Shift(line) == Damage(line) /\ shifts' = shifts + 1 /\ UNCHANGED flips

FlipHalfBit == \E k \in 1 .. Len(halves) : Flip([halves EXCEPT ![k] = 1 - @])

FlipBit == \E k \in 1 .. Len(halves) \div 2 :
               Flip([halves EXCEPT ![2 * k - 1] = 1 - @, ![2 * k] = 1 - @])

LoseHalfBit == \E k \in 1 .. Len(halves) :
                   Shift(SubSeq(halves, 1, k - 1) \o SubSeq(halves, k + 1, Len(halves)))

DoubleHalfBit == \E k \in 1 .. Len(halves) :
                     Shift(SubSeq(halves, 1, k) \o SubSeq(halves, k, Len(halves)))

-----------------------------------------------------------------------------
(* The receiver.  Each element begins with a bit pushed in advance; the     *)
(* next one is that of the first edge after the last timeout.  Three equal *)
(* half-bits are longer than the timeout: high, they end the element, after*)
(* the compare interrupt has pushed the second of them; low, they are a    *)
(* collision, and the element is discarded.                                *)

Idle == <<1, 1, 1>>

Line == halves \o Idle

\* The first edge after the half-bit at a: the line is high before a frame.
FirstEdge(line, a, e) ==
    LET level == IF a = 0 THEN 1 ELSE line[a] IN
    line[e] # level /\ \A j \in a + 1 .. e - 1 : line[j] = level

Still(line, k) == line[k] = line[k + 1] /\ line[k] = line[k + 2]

FirstStill(line, e, k) == Still(line, k) /\ \A j \in e .. k - 1 : ~Still(line, j)

\* MAX_FRAME_SIZE_MANCHESTER bytes, and the one half-bit more that the test of
\* network_rx_queue_push_bit lets through.
Capacity == 8 * 2 * (6 + 255 + 1) + 1

Element(line, e, k) ==
    LET room == e + Capacity - 2 IN
    <<1>> \o SubSeq(line, e, IF k + 1 <= room THEN k + 1 ELSE room)

\* network_rx_queue_push takes an element of 14 bytes or more, and network_rx
\* decodes it in place.  An element is a tail when a timeout has ended another
\* one before it.
Outcome(element, tail) ==
    IF Bytes(element) >= 14 /\ Accepts(element)
    THEN << [frame |-> Accepted(element), blind |-> Blind(element), tail |-> tail] >>
    ELSE << >>

\* The loop of network_rx takes every element.  On a line that does not fall (or,
\* after a collision, rise) any more no interrupt comes, and nothing is received.
Receive ==
    /\ LET line == Line IN
       \E e \in heard + 1 .. Len(line) :
          /\ FirstEdge(line, heard, e)
          /\ \E k \in e .. Len(line) - 2 :
                /\ FirstStill(line, e, k)
                /\ heard' = k + 2
                /\ delivered' = IF line[k] = 1
                                THEN delivered \o Outcome(Element(line, e, k), heard # 0)
                                ELSE delivered
    /\ UNCHANGED <<sent, halves, others, faults>>

Next == Overlap \/ FlipHalfBit \/ FlipBit \/ LoseHalfBit \/ DoubleHalfBit \/ Receive

Spec == Init /\ [][Next]_vars

-----------------------------------------------------------------------------
(* Properties.                                                             *)

AsSent == [source |-> sent.source, destination |-> sent.destination,
           message |-> BitsOf(sent.message)]

Deliveries == {delivered[i] : i \in 1 .. Len(delivered)}

\* The line carries half-bits, and what main is given are frames of bytes.
TypeOK ==
    /\ sent \in Frames /\ others \subseteq Frames
    /\ \A k \in 1 .. Len(halves) : halves[k] \in Bit
    /\ Faulted \in 0 .. MaxFaults[sent] /\ flips >= 0 /\ shifts >= 0
    /\ heard \in 0 .. Len(Line)
    /\ \A d \in Deliveries : /\ d.frame.source \in 0 .. 255
                             /\ d.frame.destination \in 0 .. 255
                             /\ Len(d.frame.message) \in {8 * n : n \in 0 .. 255}

\* A frame that nothing has happened to is delivered as it was sent, and nothing
\* else is.
DeliveredWhole ==
    heard > 0 /\ Faulted = 0 =>
        /\ Len(delivered) = 1
        /\ \A d \in Deliveries : d.frame = AsSent

\* Frames of two sources that overlap without being noticed as a collision, in
\* phase or for a whole frame, are never delivered: not as one of the two, and
\* not as a mixture, nor is what is left of them after a timeout.
OverlapRejected ==
    flips + shifts = 0 /\ (\E f \in others : f.source # sent.source)
        => delivered = << >>

\* The header is on the line as it was sent.
HeaderWhole == \A h \in 1 .. 2 * HeaderBits : LevelAt(halves, h) = EncodedFrame(sent)[h]

\* The bits of the message and the trailer that are not.
Altered == {k \in 1 .. 8 * Len(sent.message) + TrailerBits :
               LevelAt(halves, 2 * (HeaderBits + k)) # EncodedFrame(sent)[2 * (HeaderBits + k)]}

\* What gets past the CRC when every symbol could be read: an even number of
\* bits, not within a byte of each other, and never two that are less than
\* 127 apart.  It is the CRC of the whole frame: a tail has one of its own.
CrcNotices ==
    \A d \in Deliveries : ~d.tail /\ ~d.blind /\ HeaderWhole /\ Altered # {} =>
        /\ Cardinality(Altered) % 2 = 0
        /\ \E j, k \in Altered : k - j >= 8
        /\ \A j, k \in Altered : Altered = {j, k} => k - j >= 127 \/ j - k >= 127

\* So noise that changes values has to change four of them before a message of up
\* to 14 bytes is delivered other than it was sent, as long as the header arrives
\* and no half-bit is lost or doubled: unless some symbols could not be read, or
\* the line was high for long enough in a message of 6 bytes or more, which can
\* hold a whole frame that is then received as one.
WrongOnlyIfBlind ==
    \A d \in Deliveries : d.frame # AsSent =>
        \/ d.blind
        \/ ~HeaderWhole \/ shifts > 0 \/ others # {}
        \/ ~d.tail /\ (flips >= 4 \/ Len(sent.message) > 14)
        \/ d.tail /\ Len(sent.message) >= 6

-----------------------------------------------------------------------------
(* What the repository says and the code does not do.                      *)

\* network_rx returns "bool if a valid message was placed in messageBuf".
NothingBlind == \A d \in Deliveries : ~d.blind
=============================================================================
