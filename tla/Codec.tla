------------------------------- MODULE Codec --------------------------------
(***************************************************************************)
(* The frame codec of network.c: Manchester encoding, the CRC, and what    *)
(* network_rx accepts.  A frame in memory is a sequence of bytes, one on   *)
(* the line a sequence of half-bits; bits are sent from the highest of a   *)
(* byte to the lowest.                                                     *)
(***************************************************************************)
EXTENDS Integers, Sequences

Preamble    == 85           \* HEADER_PREAMBLE
Version     == 1            \* PROTOCOL_VERSION
CrcOn       == 1            \* CRC_FLAG_ON
CrcOff      == 0            \* CRC_FLAG_OFF
OffTrailer  == 170          \* CRC_OFF_TRAILER_VALUE
HeaderBits  == 48           \* sizeof(frame_header_t)
TrailerBits == 8            \* sizeof(frame_trailer_t)

Bit == {0, 1}

Weight == <<128, 64, 32, 16, 8, 4, 2, 1>>

BitsOf(bytes) ==
    [k \in 1 .. 8 * Len(bytes) |->
        (bytes[(k + 7) \div 8] \div Weight[((k - 1) % 8) + 1]) % 2]

\* The byte whose bits begin at position k.
ByteAt(bits, k) ==
    LET v[j \in 0 .. 8] == IF j = 0 THEN 0 ELSE 2 * v[j - 1] + bits[k + j - 1] IN v[8]

-----------------------------------------------------------------------------
(* Manchester: 1 is sent 0 1, and 0 is sent 1 0.                           *)

Encode(bits) ==
    [h \in 1 .. 2 * Len(bits) |->
        LET b == bits[(h + 1) \div 2] IN IF h % 2 = 1 THEN 1 - b ELSE b]

\* Slip (no part of the model, see README.md): 00 and 11 count as their second half.
ValidAlways(halves, k) == TRUE

Valid(halves, k) == halves[2 * k - 1] # halves[2 * k]

\* The symbols after the first `from` that are valid, up to the first one that
\* is not, and at most n.
Readable(halves, from, n) ==
    CHOOSE s \in 0 .. n : /\ s = n \/ ~Valid(halves, from + s + 1)
                          /\ \A k \in 1 .. s : Valid(halves, from + k)

Clean(halves, from, n) == \A k \in 1 .. n : Valid(halves, from + k)

\* Slip: the first half is the value.
DecodeInverted(halves, from, n) ==
    LET s == Readable(halves, from, n) IN
    [k \in 1 .. n |-> IF k <= s THEN halves[2 * (from + k) - 1] ELSE 0]

\* network_decode_manchester zeroes the buffer and stops at an invalid symbol.
Decode(halves, from, n) ==
    LET s == Readable(halves, from, n) IN
    [k \in 1 .. n |-> IF k <= s THEN halves[2 * (from + k)] ELSE 0]

-----------------------------------------------------------------------------
(* The CRC: the remainder of a division by x^8 + x^2 + x + 1.              *)

\* result ^= CRC_POLYNOMIAL
XorPolynomial(r) == (r - (r % 8)) + (7 - (r % 8))

CrcStep(r, b) ==
    LET shifted == (2 * r) % 256 IN
    IF r \div 128 # b THEN XorPolynomial(shifted) ELSE shifted

Crc8(bits, initial) ==
    LET r[k \in 0 .. Len(bits)] ==
            IF k = 0 THEN initial ELSE CrcStep(r[k - 1], bits[k])
    IN  r[Len(bits)]

-----------------------------------------------------------------------------
(* network_tx: what is queued for a message.                               *)

Header(frame) == <<Preamble, Version, frame.source, frame.destination,
                   Len(frame.message), CrcOn>>

EncodedFrame(frame) ==
    Encode(BitsOf(Header(frame) \o frame.message
                      \o <<Crc8(BitsOf(frame.message), 0)>>))

-----------------------------------------------------------------------------
(* network_rx: what is made of an element of the receive queue.            *)

HeaderClean(element) == Clean(element, 0, HeaderBits)

HeaderOf(element) ==
    LET bits == Decode(element, 0, HeaderBits) IN
    [preamble    |-> ByteAt(bits, 1),  version |-> ByteAt(bits, 9),
     source      |-> ByteAt(bits, 17), destination |-> ByteAt(bits, 25),
     length      |-> ByteAt(bits, 33), crcFlag |-> ByteAt(bits, 41)]

\* The buffer holds whole bytes, and element->size counts them.
Bytes(element) == Len(element) \div 8

HeaderValid(element, header) ==
    /\ header.preamble = Preamble
    /\ 6 + header.length + 1 = Bytes(element) \div 2
    /\ header.version = Version

\* Slip: the length counts bits.
MessageInBits(element, header) == Decode(element, HeaderBits, header.length)

MessageOf(element, header) == Decode(element, HeaderBits, 8 * header.length)

TrailerOf(element, header) ==
    Decode(element, HeaderBits + 8 * header.length, TrailerBits)

\* Slip: of the remainder only the last bit is tested.
CrcHoldsTruncated(element, header) ==
    LET message == MessageOf(element, header)
        trailer == TrailerOf(element, header) IN
    \/ header.crcFlag = CrcOn  /\ Crc8(trailer, Crc8(message, 0)) % 2 = 0
    \/ header.crcFlag = CrcOff /\ ByteAt(trailer, 1) = OffTrailer

CrcHolds(element, header) ==
    LET message == MessageOf(element, header)
        trailer == TrailerOf(element, header) IN
    \/ header.crcFlag = CrcOn  /\ Crc8(trailer, Crc8(message, 0)) = 0
    \/ header.crcFlag = CrcOff /\ ByteAt(trailer, 1) = OffTrailer

\* Errors in the message or the trailer are printed by
\* network_decode_manchester_frame_message_trailer, which then returns none.
Accepts(element) ==
    /\ HeaderClean(element)
    /\ LET header == HeaderOf(element) IN
       HeaderValid(element, header) /\ CrcHolds(element, header)

Accepted(element) ==
    LET header == HeaderOf(element) IN
    [source |-> header.source, destination |-> header.destination,
     message |-> MessageOf(element, header)]

\* The bits of the message or of the trailer are not all readable.
Blind(element) ==
    ~Clean(element, HeaderBits, 8 * HeaderOf(element).length + TrailerBits)
=============================================================================
