---------------------------- MODULE Link_proofs -----------------------------
(***************************************************************************)
(* Proofs about the codec and the link, for all frames: decoding inverts   *)
(* encoding, no frame that another node's overlaps is ever delivered, what *)
(* main is given is well formed, a frame to which nothing happens is       *)
(* delivered as it was sent, and one that noise has changed is not, but    *)
(* for the changes that the CRC cannot notice.                             *)
(***************************************************************************)
EXTENDS Link, SequenceTheorems, FiniteSetTheorems, WellFoundedInduction, TLAPS

(* Manchester.                                                             *)

\* The half-bits of the bit at position p.
LEMMA HalvesOf ==
    ASSUME NEW bits, Len(bits) \in Nat, NEW p \in 1 .. Len(bits)
    PROVE  /\ Encode(bits)[2 * p - 1] = 1 - bits[p]
           /\ Encode(bits)[2 * p] = bits[p]
  <1>1. /\ 2 * p - 1 \in 1 .. 2 * Len(bits) /\ ((2 * p - 1) + 1) \div 2 = p
        /\ (2 * p - 1) % 2 = 1
    OBVIOUS
  <1>2. /\ 2 * p \in 1 .. 2 * Len(bits) /\ (2 * p + 1) \div 2 = p
        /\ (2 * p) % 2 = 0
    OBVIOUS
  <1> QED BY <1>1, <1>2 DEF Encode

\* What network_encode_manchester makes of a bit is a valid symbol.
LEMMA EncodedValid ==
    ASSUME NEW bits \in Seq(Bit), NEW p \in 1 .. Len(bits)
    PROVE  Valid(Encode(bits), p)
  <1>1. bits[p] \in Bit /\ Len(bits) \in Nat
    OBVIOUS
  <1> QED BY <1>1, HalvesOf DEF Valid, Bit

\* All of n symbols are read when they are valid.
LEMMA AllReadable ==
    ASSUME NEW coded, NEW from \in Nat, NEW n \in Nat,
           Clean(coded, from, n)
    PROVE  Readable(coded, from, n) = n
  <1> DEFINE Reads(s) == /\ s = n \/ ~Valid(coded, from + s + 1)
                         /\ \A k \in 1 .. s : Valid(coded, from + k)
  <1>1. Reads(n)
    BY DEF Clean
  <1>2. ASSUME NEW s \in 0 .. n, Reads(s)
        PROVE  s = n
    <2>1. CASE s < n
      <3>1. s + 1 \in 1 .. n /\ from + (s + 1) = from + s + 1
        BY <2>1
      <3>2. Valid(coded, from + (s + 1))
        BY <3>1 DEF Clean
      <3> QED BY <1>2, <2>1, <3>1, <3>2
    <2> QED BY <2>1
  <1>3. n \in 0 .. n
    OBVIOUS
  <1> QED BY <1>1, <1>2, <1>3 DEF Readable

\* Any part of what network_encode_manchester has encoded, the header, the
\* message or the trailer, is decoded by network_decode_manchester to the bits
\* it was made of.
THEOREM RoundTrip ==
    ASSUME NEW bits \in Seq(Bit), NEW from \in Nat, NEW n \in Nat,
           from + n <= Len(bits)
    PROVE  /\ Clean(Encode(bits), from, n)
           /\ Decode(Encode(bits), from, n) = SubSeq(bits, from + 1, from + n)
  <1>1. Clean(Encode(bits), from, n)
    <2>1. \A k \in 1 .. n : from + k \in 1 .. Len(bits)
      OBVIOUS
    <2> QED BY <2>1, EncodedValid DEF Clean
  <1>2. Readable(Encode(bits), from, n) = n
    BY <1>1, AllReadable
  <1>3. Decode(Encode(bits), from, n) = [k \in 1 .. n |-> Encode(bits)[2 * (from + k)]]
    BY <1>2 DEF Decode
  <1>4. \A k \in 1 .. n : Encode(bits)[2 * (from + k)] = bits[from + k]
    BY HalvesOf
  <1>5. SubSeq(bits, from + 1, from + n) = [k \in 1 .. n |-> bits[from + k]]
    <2>1. /\ SubSeq(bits, from + 1, from + n) \in Seq(Bit)
          /\ Len(SubSeq(bits, from + 1, from + n)) = n
          /\ \A k \in 1 .. n : SubSeq(bits, from + 1, from + n)[k] = bits[from + k]
      BY SubSeqProperties
    <2> QED BY <2>1
  <1> QED BY <1>1, <1>3, <1>4, <1>5

-----------------------------------------------------------------------------
(* The header of a frame.                                                  *)

\* A byte is the sum of its bits.
LEMMA Binary ==
    ASSUME NEW x \in 0 .. 255
    PROVE  x =   128 * ((x \div 128) % 2) + 64 * ((x \div 64) % 2)
               + 32 * ((x \div 32) % 2) + 16 * ((x \div 16) % 2)
               + 8 * ((x \div 8) % 2) + 4 * ((x \div 4) % 2)
               + 2 * ((x \div 2) % 2) + ((x \div 1) % 2)
  OBVIOUS

\* Two bytes with the same bits are equal.
LEMMA SameBits ==
    ASSUME NEW x \in 0 .. 255, NEW y \in 0 .. 255,
           \A j \in 1 .. 8 : (x \div Weight[j]) % 2 = (y \div Weight[j]) % 2
    PROVE  x = y
  <1>1. /\ (x \div 128) % 2 = (y \div 128) % 2
        /\ (x \div 64) % 2 = (y \div 64) % 2
        /\ (x \div 32) % 2 = (y \div 32) % 2
        /\ (x \div 16) % 2 = (y \div 16) % 2
        /\ (x \div 8) % 2 = (y \div 8) % 2
        /\ (x \div 4) % 2 = (y \div 4) % 2
        /\ (x \div 2) % 2 = (y \div 2) % 2
        /\ (x \div 1) % 2 = (y \div 1) % 2
    BY DEF Weight
  <1> QED BY <1>1, Binary

\* The weight of a bit is a power of two.
LEMMA WeightIs ==
    ASSUME NEW j \in 1 .. 8
    PROVE  Weight[j] \in {1, 2, 4, 8, 16, 32, 64, 128}
  BY DEF Weight

\* A bit of a byte is 0 or 1.
LEMMA BitOf ==
    ASSUME NEW x \in Int, NEW j \in 1 .. 8
    PROVE  (x \div Weight[j]) % 2 \in Bit
  <1> DEFINE w == Weight[j]
  <1>1. w \in {1, 2, 4, 8, 16, 32, 64, 128}
    BY WeightIs
  <1> HIDE DEF w
  <1>2. x \div w \in Int
    BY <1>1
  <1> QED BY <1>1, <1>2 DEF Bit, w

\* A sequence of three parts begins with the first.
LEMMA FirstPart ==
    ASSUME NEW S, NEW a \in Seq(S), NEW b \in Seq(S), NEW c \in Seq(S)
    PROVE  /\ Len(a \o b \o c) = Len(a) + Len(b) + Len(c)
           /\ \A n \in 1 .. Len(a) : (a \o b \o c)[n] = a[n]
  <1>1. /\ a \o b \in Seq(S) /\ Len(a \o b) = Len(a) + Len(b)
        /\ Len(a) \in Nat /\ Len(b) \in Nat /\ Len(c) \in Nat
        /\ \A n \in 1 .. Len(a) : (a \o b)[n] = a[n]
    BY ConcatProperties, LenProperties
  <1>2. /\ Len((a \o b) \o c) = Len(a \o b) + Len(c)
        /\ \A n \in 1 .. Len(a \o b) : ((a \o b) \o c)[n] = (a \o b)[n]
    BY <1>1, ConcatProperties
  <1> QED BY <1>1, <1>2

\* A sequence of two parts ends with the second.
LEMMA LastPart ==
    ASSUME NEW S, NEW a \in Seq(S), NEW b \in Seq(S)
    PROVE  \A h \in 1 .. Len(b) : (a \o b)[Len(a) + h] = b[h]
  <1>1. Len(a) \in Nat /\ Len(b) \in Nat
    OBVIOUS
  <1>2. \A h \in 1 .. Len(b) : /\ Len(a) + h \in 1 .. Len(a) + Len(b)
                               /\ ~(Len(a) + h <= Len(a)) /\ (Len(a) + h) - Len(a) = h
    BY <1>1
  <1> QED BY <1>2, ConcatProperties

FrameBytes(f) == Header(f) \o f.message \o <<Crc8(BitsOf(f.message), 0)>>

\* What a frame consists of.
LEMMA FrameParts ==
    ASSUME NEW f \in Frames
    PROVE  /\ f.source \in 0 .. 255
           /\ Header(f) \in Seq(Int) /\ Len(Header(f)) = 6
           /\ Header(f)[1] = 85 /\ Header(f)[3] = f.source
           /\ f.message \in Seq(Int) /\ Len(f.message) \in Nat /\ Len(f.message) >= 1
  <1>1. f.source \in 0 .. 255 /\ f.destination \in 0 .. 255
    BY LinkAssumption
  <1>2. f.message \in Seq(0 .. 255) /\ Len(f.message) \in 1 .. 255
    BY LinkAssumption
  <1>3. f.source \in Int /\ f.destination \in Int
    BY <1>1
  <1>4. Len(f.message) \in Nat /\ Len(f.message) >= 1
    <2>1. \A n \in 1 .. 255 : n \in Nat /\ n >= 1
      OBVIOUS
    <2> QED BY <1>2, <2>1
  <1>5. f.message \in Seq(Int)
    <2>1. (0 .. 255) \subseteq Int
      OBVIOUS
    <2> QED BY <1>2, <2>1, SeqMonotonic
  <1>6. ASSUME NEW a \in Int, NEW b \in Int, NEW c \in Int
        PROVE  /\ <<85, 1, a, b, c, 1>> \in Seq(Int)
               /\ Len(<<85, 1, a, b, c, 1>>) = 6
               /\ <<85, 1, a, b, c, 1>>[1] = 85
               /\ <<85, 1, a, b, c, 1>>[3] = a
    OBVIOUS
  <1>7. Header(f) = <<85, 1, f.source, f.destination, Len(f.message), 1>>
    BY DEF Header, Preamble, Version, CrcOn
  <1> QED BY <1>1, <1>3, <1>4, <1>5, <1>6, <1>7

\* A frame begins with the six bytes of its header.
LEMMA HeaderBytes ==
    ASSUME NEW f \in Frames
    PROVE  /\ Len(FrameBytes(f)) \in Nat /\ Len(FrameBytes(f)) >= 8
           /\ \A n \in 1 .. 6 : FrameBytes(f)[n] \in Int
           /\ FrameBytes(f)[1] = 85 /\ FrameBytes(f)[3] = f.source
  <1>1. ASSUME NEW crc
        PROVE  /\ Len(Header(f) \o f.message \o <<crc>>) = 6 + Len(f.message) + 1
               /\ \A n \in 1 .. 6 : (Header(f) \o f.message \o <<crc>>)[n] = Header(f)[n]
    <2> DEFINE S == Int \cup {crc}
    <2>1. Int \subseteq S
      OBVIOUS
    <2>2. <<crc>> \in Seq(S) /\ Len(<<crc>>) = 1
      OBVIOUS
    <2> HIDE DEF S
    <2>3. Header(f) \in Seq(S) /\ f.message \in Seq(S)
      BY <2>1, FrameParts, SeqMonotonic
    <2>4. Len(Header(f)) = 6
      BY FrameParts
    <2>5. /\ Len(Header(f) \o f.message \o <<crc>>)
                 = Len(Header(f)) + Len(f.message) + Len(<<crc>>)
          /\ \A n \in 1 .. Len(Header(f)) :
                (Header(f) \o f.message \o <<crc>>)[n] = Header(f)[n]
      BY <2>2, <2>3, FirstPart
    <2> QED BY <2>2, <2>4, <2>5
  <1>2. \A n \in 1 .. 6 : Header(f)[n] \in Int
    BY FrameParts, ElementOfSeq
  <1>3. /\ Len(FrameBytes(f)) = 6 + Len(f.message) + 1
        /\ \A n \in 1 .. 6 : FrameBytes(f)[n] = Header(f)[n]
    BY <1>1 DEF FrameBytes
  <1>4. /\ FrameBytes(f)[1] = 85 /\ FrameBytes(f)[3] = f.source
        /\ \A n \in 1 .. 6 : FrameBytes(f)[n] \in Int
    <2>1. Header(f)[1] = 85 /\ Header(f)[3] = f.source
      BY FrameParts
    <2>2. 1 \in 1 .. 6 /\ 3 \in 1 .. 6
      OBVIOUS
    <2> QED BY <1>2, <1>3, <2>1, <2>2
  <1> QED BY <1>3, <1>4, FrameParts

HeadHalves == 1 .. 2 * HeaderBits

\* What the nodes have in common on the line: the symbols of the header are
\* half-bits, the first is 1 0, and those of the third byte are the source.
LEMMA EncodedHead ==
    ASSUME NEW f \in Frames
    PROVE  /\ Len(EncodedFrame(f)) \in Nat /\ Len(EncodedFrame(f)) >= 128
           /\ \A h \in HeadHalves : EncodedFrame(f)[h] \in Bit
           /\ EncodedFrame(f)[1] = 1 /\ EncodedFrame(f)[2] = 0
           /\ \A j \in 1 .. 8 :
                 /\ EncodedFrame(f)[2 * (16 + j)] = (f.source \div Weight[j]) % 2
                 /\ EncodedFrame(f)[2 * (16 + j) - 1] = 1 - ((f.source \div Weight[j]) % 2)
           /\ EncodedFrame(f) = [h \in 1 .. Len(EncodedFrame(f)) |-> EncodedFrame(f)[h]]
  <1> DEFINE bytes == FrameBytes(f)
             bits == BitsOf(bytes)
  <1>1. /\ Len(bytes) \in Nat /\ Len(bytes) >= 8
        /\ \A n \in 1 .. 6 : bytes[n] \in Int
        /\ bytes[1] = 85 /\ bytes[3] = f.source
    BY HeaderBytes
  <1>2. EncodedFrame(f) = Encode(bits)
    BY DEF EncodedFrame, FrameBytes
  <1> HIDE DEF bytes
  <1>3. /\ Len(bits) = 8 * Len(bytes)
        /\ \A k \in 1 .. 8 * Len(bytes) :
              bits[k] = (bytes[(k + 7) \div 8] \div Weight[((k - 1) % 8) + 1]) % 2
    <2>1. 8 * Len(bytes) \in Nat
      BY <1>1
    <2> QED BY <2>1 DEF BitsOf
  <1>4. \A k \in 1 .. 48 : bits[k] \in Bit
    <2> SUFFICES ASSUME NEW k \in 1 .. 48
                 PROVE  bits[k] \in Bit
      OBVIOUS
    <2>1. (k + 7) \div 8 \in 1 .. 6 /\ ((k - 1) % 8) + 1 \in 1 .. 8
      OBVIOUS
    <2>2. bytes[(k + 7) \div 8] \in Int
      BY <1>1, <2>1
    <2>3. (bytes[(k + 7) \div 8] \div Weight[((k - 1) % 8) + 1]) % 2 \in Bit
      BY <2>1, <2>2, BitOf
    <2>4. k \in 1 .. 8 * Len(bytes)
      BY <1>1
    <2> QED BY <1>3, <2>3, <2>4
  <1>5. bits[1] = 0
    <2>1. (1 + 7) \div 8 = 1 /\ ((1 - 1) % 8) + 1 = 1 /\ 1 \in 1 .. 8 * Len(bytes)
      BY <1>1
    <2>2. bits[1] = (bytes[1] \div Weight[1]) % 2
      BY <1>3, <2>1
    <2>3. Weight[1] = 128
      BY DEF Weight
    <2> QED BY <1>1, <2>2, <2>3
  <1>6. \A j \in 1 .. 8 : bits[16 + j] = (f.source \div Weight[j]) % 2
    <2> SUFFICES ASSUME NEW j \in 1 .. 8
                 PROVE  bits[16 + j] = (f.source \div Weight[j]) % 2
      OBVIOUS
    <2>1. /\ ((16 + j) + 7) \div 8 = 3 /\ (((16 + j) - 1) % 8) + 1 = j
          /\ 16 + j \in 1 .. 8 * Len(bytes)
      BY <1>1
    <2> QED BY <1>1, <1>3, <2>1
  <1> HIDE DEF bits
  <1>7. Len(bits) \in Nat /\ Len(bits) >= 64
    BY <1>1, <1>3
  <1>8. Len(Encode(bits)) = 2 * Len(bits)
    BY <1>7 DEF Encode
  <1>9. \A p \in 1 .. Len(bits) : /\ Encode(bits)[2 * p - 1] = 1 - bits[p]
                                  /\ Encode(bits)[2 * p] = bits[p]
    BY <1>7, HalvesOf
  <1>10. \A h \in HeadHalves : Encode(bits)[h] \in Bit
    <2> SUFFICES ASSUME NEW h \in HeadHalves
                 PROVE  Encode(bits)[h] \in Bit
      OBVIOUS
    <2>1. PICK p \in 1 .. 48 : h = 2 * p \/ h = 2 * p - 1
      <3>1. (h + 1) \div 2 \in 1 .. 48 /\ (h = 2 * ((h + 1) \div 2) \/ h = 2 * ((h + 1) \div 2) - 1)
        BY DEF HeadHalves, HeaderBits
      <3> QED BY <3>1
    <2>2. p \in 1 .. Len(bits)
      BY <1>7
    <2>3. bits[p] \in Bit
      BY <1>4
    <2>4. Encode(bits)[2 * p - 1] = 1 - bits[p] /\ Encode(bits)[2 * p] = bits[p]
      BY <1>9, <2>2
    <2> QED BY <2>1, <2>3, <2>4 DEF Bit
  <1>11. Encode(bits)[1] = 1 /\ Encode(bits)[2] = 0
    <2>1. 1 \in 1 .. Len(bits) /\ 2 * 1 - 1 = 1 /\ 2 * 1 = 2
      BY <1>7
    <2> QED BY <1>5, <1>9, <2>1
  <1>12. \A j \in 1 .. 8 : 16 + j \in 1 .. Len(bits)
    BY <1>7
  <1>13. Encode(bits) = [h \in 1 .. Len(Encode(bits)) |-> Encode(bits)[h]]
    BY <1>7, <1>8 DEF Encode
  <1>14. Len(Encode(bits)) \in Nat /\ Len(Encode(bits)) >= 128
    BY <1>7, <1>8
  <1>15. \A j \in 1 .. 8 :
            /\ Encode(bits)[2 * (16 + j)] = (f.source \div Weight[j]) % 2
            /\ Encode(bits)[2 * (16 + j) - 1] = 1 - ((f.source \div Weight[j]) % 2)
    <2> SUFFICES ASSUME NEW j \in 1 .. 8
                 PROVE  /\ Encode(bits)[2 * (16 + j)] = (f.source \div Weight[j]) % 2
                        /\ Encode(bits)[2 * (16 + j) - 1] = 1 - ((f.source \div Weight[j]) % 2)
      OBVIOUS
    <2>1. bits[16 + j] = (f.source \div Weight[j]) % 2
      BY <1>6
    <2>2. /\ Encode(bits)[2 * (16 + j) - 1] = 1 - bits[16 + j]
          /\ Encode(bits)[2 * (16 + j)] = bits[16 + j]
      BY <1>9, <1>12
    <2> QED BY <2>1, <2>2
  <1> QED BY <1>2, <1>10, <1>11, <1>13, <1>14, <1>15

-----------------------------------------------------------------------------
(* The receiver.                                                           *)

\* The line is high after a frame.
LEMMA IdleAfter ==
    ASSUME NEW seq \in Seq(Bit)
    PROVE  /\ seq \o Idle \in Seq(Bit) /\ Len(seq \o Idle) = Len(seq) + 3
           /\ \A h \in 1 .. Len(seq) + 3 : /\ (seq \o Idle)[h] = LevelAt(seq, h)
                                           /\ LevelAt(seq, h) \in Bit
  <1>1. Len(seq) \in Nat /\ \A h \in 1 .. Len(seq) : seq[h] \in Bit
    OBVIOUS
  <1>2. Idle \in Seq(Bit) /\ Len(Idle) = 3 /\ \A h \in 1 .. 3 : Idle[h] = 1
    BY DEF Idle, Bit
  <1>3. /\ seq \o Idle \in Seq(Bit) /\ Len(seq \o Idle) = Len(seq) + 3
        /\ \A h \in 1 .. Len(seq) + 3 :
              (seq \o Idle)[h] = IF h <= Len(seq) THEN seq[h] ELSE Idle[h - Len(seq)]
    <2>1. /\ seq \o Idle \in Seq(Bit) /\ Len(seq \o Idle) = Len(seq) + Len(Idle)
          /\ \A h \in 1 .. Len(seq) + Len(Idle) :
                (seq \o Idle)[h] = IF h <= Len(seq) THEN seq[h] ELSE Idle[h - Len(seq)]
      BY <1>2, ConcatProperties
    <2> QED BY <1>2, <2>1
  <1>4. ASSUME NEW h \in 1 .. Len(seq) + 3
        PROVE  (seq \o Idle)[h] = LevelAt(seq, h) /\ LevelAt(seq, h) \in Bit
    <2>1. CASE h <= Len(seq)
      BY <1>1, <1>3, <2>1 DEF LevelAt
    <2>2. CASE ~(h <= Len(seq))
      <3>1. h - Len(seq) \in 1 .. 3
        BY <1>1, <2>2
      <3> QED BY <1>2, <1>3, <2>2, <3>1 DEF LevelAt, Bit
    <2> QED BY <2>1, <2>2
  <1> QED BY <1>3, <1>4

\* What the handlers push: a 1, and the line from an edge on, as far as the buffer
\* takes it.
LEMMA ElementIs ==
    ASSUME NEW line \in Seq(Bit), NEW e \in 1 .. Len(line), NEW k \in e .. Len(line) - 2
    PROVE  /\ Element(line, e, k) \in Seq(Bit)
           /\ Len(Element(line, e, k)) = IF k + 3 - e <= Capacity THEN k + 3 - e ELSE Capacity
           /\ Element(line, e, k)[1] = 1
           /\ \A h \in 2 .. Len(Element(line, e, k)) : Element(line, e, k)[h] = line[e + h - 2]
  <1> DEFINE last == IF k + 1 <= e + Capacity - 2 THEN k + 1 ELSE e + Capacity - 2
             rest == SubSeq(line, e, last)
             one == <<1>>
             element == one \o rest
  <1>1. Len(line) \in Nat /\ \A h \in 1 .. Len(line) : line[h] \in Bit
    OBVIOUS
  <1>2. Element(line, e, k) = element
    BY DEF Element
  <1>3. Capacity = 4193
    BY DEF Capacity
  <1>4. /\ e \in Nat /\ e >= 1 /\ k \in Nat /\ k >= e /\ k + 2 <= Len(line)
        /\ last \in Nat /\ last >= e /\ last <= Len(line)
        /\ last - e + 2 = IF k + 3 - e <= Capacity THEN k + 3 - e ELSE Capacity
    BY <1>1, <1>3
  <1> HIDE DEF last
  <1>5. /\ rest \in Seq(Bit) /\ Len(rest) = last - e + 1
        /\ \A h \in 1 .. last - e + 1 : rest[h] = line[e + h - 1]
    <2>1. \A h \in e .. last : line[h] \in Bit
      BY <1>1, <1>4
    <2>2. e \in Int /\ last \in Int
      BY <1>4
    <2>3. /\ rest \in Seq(Bit) /\ Len(rest) = IF e <= last THEN last - e + 1 ELSE 0
          /\ \A h \in 1 .. last - e + 1 : rest[h] = line[e + h - 1]
      BY <2>1, <2>2, SubSeqProperties
    <2> QED BY <1>4, <2>3
  <1>6. one \in Seq(Bit) /\ Len(one) = 1 /\ one[1] = 1
    BY DEF Bit
  <1> HIDE DEF rest, one
  <1>7. /\ element \in Seq(Bit) /\ Len(element) = last - e + 2
        /\ \A h \in 1 .. last - e + 2 :
              element[h] = IF h <= 1 THEN one[h] ELSE rest[h - 1]
    <2>1. /\ element \in Seq(Bit) /\ Len(element) = Len(one) + Len(rest)
          /\ \A h \in 1 .. Len(one) + Len(rest) :
                element[h] = IF h <= Len(one) THEN one[h] ELSE rest[h - Len(one)]
      BY <1>5, <1>6, ConcatProperties
    <2>2. Len(one) + Len(rest) = last - e + 2
      BY <1>4, <1>5, <1>6
    <2> QED BY <1>6, <2>1, <2>2
  <1> HIDE DEF element
  <1>8. element[1] = 1
    <2>1. 1 \in 1 .. last - e + 2 /\ 1 <= 1
      BY <1>4
    <2> QED BY <1>6, <1>7, <2>1
  <1>9. ASSUME NEW h \in 2 .. last - e + 2
        PROVE  element[h] = line[e + h - 2]
    <2>1. /\ h \in 1 .. last - e + 2 /\ ~(h <= 1) /\ h - 1 \in 1 .. last - e + 1
          /\ e + (h - 1) - 1 = e + h - 2
      BY <1>4
    <2> QED BY <1>5, <1>7, <2>1
  <1> QED BY <1>2, <1>4, <1>7, <1>8, <1>9

\* On a line that falls with its second half-bit the first element is the line from
\* its first.
LEMMA FirstElement ==
    ASSUME NEW seq \in Seq(Bit), Len(seq) >= 2, seq[1] = 1, seq[2] = 0,
           NEW e \in 1 .. Len(seq) + 3, FirstEdge(seq \o Idle, 0, e),
           NEW k \in e .. Len(seq) + 1
    PROVE  /\ e = 2 /\ Element(seq \o Idle, e, k) \in Seq(Bit)
           /\ Len(Element(seq \o Idle, e, k)) = IF k + 1 <= Capacity THEN k + 1 ELSE Capacity
           /\ \A h \in 1 .. Len(Element(seq \o Idle, e, k)) :
                 Element(seq \o Idle, e, k)[h] = LevelAt(seq, h)
  <1> DEFINE line == seq \o Idle
             element == Element(line, e, k)
  <1>1. /\ line \in Seq(Bit) /\ Len(line) = Len(seq) + 3
        /\ \A h \in 1 .. Len(seq) + 3 : line[h] = LevelAt(seq, h)
    BY IdleAfter
  <1>2. Len(seq) \in Nat
    OBVIOUS
  <1>3. line[1] = 1 /\ line[2] = 0
    <2>1. 1 \in 1 .. Len(seq) + 3 /\ 2 \in 1 .. Len(seq) + 3 /\ 1 <= Len(seq)
      BY <1>2
    <2> QED BY <1>1, <2>1 DEF LevelAt
  <1>4. line[e] # 1 /\ \A j \in 1 .. e - 1 : line[j] = 1
    BY DEF FirstEdge
  <1> HIDE DEF line
  <1>5. e = 2
    <2>1. e # 1
      BY <1>3, <1>4
    <2>2. CASE e > 2
      <3>1. 2 \in 1 .. e - 1
        BY <2>2
      <3> QED BY <1>3, <1>4, <3>1
    <2> QED BY <1>2, <2>1, <2>2
  <1>6. /\ e \in 1 .. Len(line) /\ k \in e .. Len(line) - 2 /\ k + 3 - e = k + 1
        /\ k \in Nat
    BY <1>1, <1>2, <1>5
  <1>7. /\ element \in Seq(Bit)
        /\ Len(element) = IF k + 3 - e <= Capacity THEN k + 3 - e ELSE Capacity
        /\ element[1] = 1
        /\ \A h \in 2 .. Len(element) : element[h] = line[e + h - 2]
    BY <1>1, <1>6, ElementIs
  <1> HIDE DEF element
  <1>8. Len(element) \in Nat /\ Len(element) <= k + 1
    <2>1. Capacity \in Nat
      BY DEF Capacity
    <2> QED BY <1>6, <1>7, <2>1
  <1>9. ASSUME NEW h \in 1 .. Len(element)
        PROVE  element[h] = LevelAt(seq, h)
    <2>1. h \in 1 .. Len(seq) + 3
      BY <1>1, <1>6, <1>8
    <2>2. CASE h = 1
      BY <1>1, <1>3, <1>7, <2>1, <2>2
    <2>3. CASE h > 1
      <3>1. h \in 2 .. Len(element) /\ e + h - 2 = h
        BY <1>5, <1>8, <2>3
      <3> QED BY <1>1, <1>7, <2>1, <3>1
    <2> QED BY <2>2, <2>3
  <1> QED BY <1>5, <1>6, <1>7, <1>9 DEF line, element

\* After the frame there is no edge any more.
LEMMA NothingAfter ==
    ASSUME NEW seq \in Seq(Bit), NEW a \in 1 .. Len(seq) + 3, a > Len(seq),
           NEW e \in a + 1 .. Len(seq) + 3
    PROVE  ~FirstEdge(seq \o Idle, a, e)
  <1>1. Len(seq) \in Nat
    OBVIOUS
  <1>2. /\ a \in 1 .. Len(seq) + 3 /\ e \in 1 .. Len(seq) + 3 /\ ~(a <= Len(seq))
        /\ ~(e <= Len(seq)) /\ a # 0
    BY <1>1
  <1>3. (seq \o Idle)[a] = 1 /\ (seq \o Idle)[e] = 1
    BY <1>2, IdleAfter DEF LevelAt
  <1> QED BY <1>2, <1>3 DEF FirstEdge

-----------------------------------------------------------------------------
(* Recursive functions.                                                    *)

\* Induction over the naturals, for a set.
LEMMA SetInduction ==
    ASSUME NEW S, 0 \in S, \A n \in Nat : n \in S => n + 1 \in S
    PROVE  Nat \subseteq S
  <1> DEFINE R == OpToRel(<, Nat)
  <1>1. \A i, j \in Nat : i < j => <<i, j>> \in R
    BY DEF OpToRel
  <1>2. IsWellFoundedOn(R, Nat)
    BY NatLessThanWellFounded
  <1> HIDE DEF R
  <1> SUFFICES ASSUME Nat \ S # {}
               PROVE  FALSE
    OBVIOUS
  <1>3. PICK x \in Nat \ S : \A y \in Nat \ S : ~ (<<y, x>> \in R)
    BY <1>2, WFMin
  <1>4. x \in Nat /\ x # 0
    OBVIOUS
  <1>5. x - 1 \in Nat /\ x - 1 < x /\ (x - 1) + 1 = x
    BY <1>4
  <1>6. x - 1 \notin S
    BY <1>3, <1>5
  <1> QED BY <1>1, <1>3, <1>4, <1>5, <1>6

\* A step makes a value of a value and the number of the step.
StepsIn(V, n, step) == step \in [V \X (1 .. n) -> V]

Runs(g, V, v0, n, step) == /\ g \in [0 .. n -> V] /\ g[0] = v0
                           /\ \A k \in 1 .. n : g[k] = step[<<g[k - 1], k>>]

\* Values computed each from the one before exist.
LEMMA Recursion ==
    ASSUME NEW V, NEW v0 \in V, NEW n \in Nat, NEW step, StepsIn(V, n, step)
    PROVE  \E g : Runs(g, V, v0, n, step)
  <1> DEFINE To(g, m) == g[0] = v0 /\ \A k \in 1 .. m : g[k] = step[<<g[k - 1], k>>]
             S == {m \in Nat : m <= n => \E g \in [0 .. m -> V] : To(g, m)}
  <1>0. step \in [V \X (1 .. n) -> V]
    BY DEF StepsIn
  <1>1. 0 \in S
    <2>1. [k \in 0 .. 0 |-> v0] \in [0 .. 0 -> V] /\ To([k \in 0 .. 0 |-> v0], 0)
      OBVIOUS
    <2> QED BY <2>1
  <1>2. ASSUME NEW m \in Nat, m \in S
        PROVE  m + 1 \in S
    <2> SUFFICES ASSUME m + 1 <= n
                 PROVE  \E g \in [0 .. m + 1 -> V] : To(g, m + 1)
      OBVIOUS
    <2>1. PICK g \in [0 .. m -> V] : To(g, m)
      BY <1>2
    <2> DEFINE h == [k \in 0 .. m + 1 |-> IF k = m + 1 THEN step[<<g[m], m + 1>>] ELSE g[k]]
    <2>2. g[m] \in V /\ m + 1 \in 1 .. n
      OBVIOUS
    <2>3. step[<<g[m], m + 1>>] \in V
      BY <1>0, <2>2
    <2>4. h \in [0 .. m + 1 -> V]
      BY <2>3
    <2>5. h[0] = v0
      <3>1. 0 \in 0 .. m + 1 /\ 0 # m + 1
        OBVIOUS
      <3>2. h[0] = g[0]
        BY <3>1
      <3> HIDE DEF h
      <3> QED BY <2>1, <3>2
    <2>6. \A k \in 1 .. m + 1 : h[k] = step[<<h[k - 1], k>>]
      <3> SUFFICES ASSUME NEW k \in 1 .. m + 1
                   PROVE  h[k] = step[<<h[k - 1], k>>]
        OBVIOUS
      <3>1. CASE k = m + 1
        <4>1. m + 1 \in 0 .. m + 1 /\ m \in 0 .. m + 1 /\ m # m + 1
          OBVIOUS
        <4>2. h[m + 1] = step[<<g[m], m + 1>>] /\ h[m] = g[m]
          BY <4>1
        <4>3. (m + 1) - 1 = m
          OBVIOUS
        <4> HIDE DEF h
        <4> QED BY <3>1, <4>2, <4>3
      <3>2. CASE k # m + 1
        <4>1. k \in 1 .. m /\ k - 1 \in 0 .. m
          BY <3>2
        <4>2. h[k] = g[k] /\ h[k - 1] = g[k - 1]
          BY <4>1
        <4> QED BY <2>1, <4>1, <4>2
      <3> QED BY <3>1, <3>2
    <2> QED BY <2>4, <2>5, <2>6
  <1> HIDE DEF S
  <1>3. n \in S
    BY <1>1, <1>2, SetInduction
  <1> QED BY <1>3 DEF S, Runs

\* A step of the CRC makes a byte of a byte.
LEMMA CrcStepIs ==
    ASSUME NEW r \in 0 .. 255, NEW b \in Bit
    PROVE  /\ CrcStep(r, b) \in 0 .. 255
           /\ r \div 128 = b => CrcStep(r, b) = (2 * r) % 256
  <1> DEFINE s == (2 * r) % 256
  <1>1. s \in 0 .. 255
    OBVIOUS
  <1>2. CrcStep(r, b) = IF r \div 128 # b THEN XorPolynomial(s) ELSE s
    BY DEF CrcStep
  <1> HIDE DEF s
  <1>3. XorPolynomial(s) \in 0 .. 255
    BY <1>1 DEF XorPolynomial
  <1> QED BY <1>1, <1>2, <1>3 DEF s

\* The CRC is computed bit by bit, and is a byte.
LEMMA CrcIs ==
    ASSUME NEW bits \in Seq(Bit), NEW initial \in 0 .. 255
    PROVE  \E r : /\ r[0] = initial
                  /\ \A k \in 1 .. Len(bits) : r[k] = CrcStep(r[k - 1], bits[k])
                  /\ \A k \in 0 .. Len(bits) : r[k] \in 0 .. 255
                  /\ Crc8(bits, initial) = r[Len(bits)]
  <1> DEFINE n == Len(bits)
             V == 0 .. 255
             step == [p \in V \X (1 .. n) |-> CrcStep(p[1], bits[p[2]])]
             Rec(g) == g = [k \in 0 .. n |-> IF k = 0 THEN initial ELSE CrcStep(g[k - 1], bits[k])]
             r == CHOOSE g : Rec(g)
  <1>1. n \in Nat /\ \A k \in 1 .. n : bits[k] \in Bit
    OBVIOUS
  <1>2. Crc8(bits, initial) = r[n]
    BY DEF Crc8
  <1> HIDE DEF n
  <1>3. \A v \in V, k \in 1 .. n : CrcStep(v, bits[k]) \in V
    BY <1>1, CrcStepIs
  <1>4. StepsIn(V, n, step)
    BY <1>3 DEF StepsIn
  <1>5. \A v \in V, k \in 1 .. n : step[<<v, k>>] = CrcStep(v, bits[k])
    <2> SUFFICES ASSUME NEW v \in V, NEW k \in 1 .. n
                 PROVE  step[<<v, k>>] = CrcStep(v, bits[k])
      OBVIOUS
    <2>1. <<v, k>> \in V \X (1 .. n) /\ <<v, k>>[1] = v /\ <<v, k>>[2] = k
      OBVIOUS
    <2>2. step[<<v, k>>] = CrcStep(<<v, k>>[1], bits[<<v, k>>[2]])
      BY <2>1, Zenon
    <2> QED BY <2>1, <2>2, Zenon
  <1> HIDE DEF step
  <1>6. PICK g : Runs(g, V, initial, n, step)
    <2>1. initial \in V
      OBVIOUS
    <2> HIDE DEF V, Rec, r
    <2> QED BY <1>1, <1>4, <2>1, Recursion
  <1>7. \A k \in 1 .. n : g[k] = CrcStep(g[k - 1], bits[k])
    <2> SUFFICES ASSUME NEW k \in 1 .. n
                 PROVE  g[k] = CrcStep(g[k - 1], bits[k])
      OBVIOUS
    <2>1. k - 1 \in 0 .. n
      BY <1>1
    <2>2. g[k - 1] \in V
      BY <1>6, <2>1 DEF Runs
    <2> QED BY <1>5, <1>6, <2>2 DEF Runs
  <1>8. Rec(g)
    <2>1. \A k \in 0 .. n : k = 0 \/ k \in 1 .. n
      BY <1>1
    <2>2. g = [k \in 0 .. n |-> g[k]] /\ g[0] = initial
      BY <1>6 DEF Runs
    <2> QED BY <1>7, <2>1, <2>2
  <1>9. Rec(r)
    <2> HIDE DEF Rec
    <2> QED BY <1>8
  <1> HIDE DEF r
  <1>10. r[0] = initial /\ \A k \in 1 .. n : r[k] = CrcStep(r[k - 1], bits[k])
    <2>1. 0 \in 0 .. n /\ \A k \in 1 .. n : k \in 0 .. n /\ k # 0
      BY <1>1
    <2> QED BY <1>9, <2>1
  <1>11. \A k \in 0 .. n : r[k] \in 0 .. 255
    <2> DEFINE S == {k \in Nat : k <= n => r[k] \in V}
    <2>1. 0 \in S
      BY <1>10
    <2>2. \A k \in Nat : k \in S => k + 1 \in S
      <3> SUFFICES ASSUME NEW k \in Nat, k \in S, k + 1 <= n
                   PROVE  r[k + 1] \in V
        OBVIOUS
      <3>1. k + 1 \in 1 .. n /\ (k + 1) - 1 = k /\ r[k] \in V
        BY <1>1
      <3> QED BY <1>3, <1>10, <3>1
    <2> HIDE DEF S
    <2>3. Nat \subseteq S
      BY <2>1, <2>2, SetInduction
    <2> QED BY <1>1, <2>3 DEF S
  <1> QED BY <1>2, <1>10, <1>11 DEF n

-----------------------------------------------------------------------------
(* Bits and bytes, and the CRC of a byte.                                  *)

\* The bits of a sequence of bytes.
LEMMA BitsAre ==
    ASSUME NEW bytes \in Seq(Int)
    PROVE  /\ BitsOf(bytes) \in Seq(Bit) /\ Len(BitsOf(bytes)) = 8 * Len(bytes)
           /\ \A i \in 1 .. Len(bytes), j \in 1 .. 8 :
                 BitsOf(bytes)[8 * (i - 1) + j] = (bytes[i] \div Weight[j]) % 2
  <1> DEFINE n == Len(bytes)
             bit(k) == (bytes[(k + 7) \div 8] \div Weight[((k - 1) % 8) + 1]) % 2
  <1>1. n \in Nat /\ \A i \in 1 .. n : bytes[i] \in Int
    OBVIOUS
  <1>2. BitsOf(bytes) = [k \in 1 .. 8 * n |-> bit(k)]
    BY DEF BitsOf
  <1> HIDE DEF n
  <1>3. \A k \in 1 .. 8 * n : bit(k) \in Bit
    <2> SUFFICES ASSUME NEW k \in 1 .. 8 * n
                 PROVE  bit(k) \in Bit
      OBVIOUS
    <2>1. (k + 7) \div 8 \in 1 .. n /\ ((k - 1) % 8) + 1 \in 1 .. 8
      BY <1>1
    <2> QED BY <1>1, <2>1, BitOf
  <1>4. \A i \in 1 .. n, j \in 1 .. 8 :
            /\ 8 * (i - 1) + j \in 1 .. 8 * n
            /\ ((8 * (i - 1) + j) + 7) \div 8 = i
            /\ (((8 * (i - 1) + j) - 1) % 8) + 1 = j
    BY <1>1
  <1>5. \A i \in 1 .. n, j \in 1 .. 8 :
            bit(8 * (i - 1) + j) = (bytes[i] \div Weight[j]) % 2
    BY <1>4
  <1>6. 8 * n \in Nat
    BY <1>1
  <1> HIDE DEF bit
  <1>7. BitsOf(bytes) \in Seq(Bit) /\ Len(BitsOf(bytes)) = 8 * n
    BY <1>2, <1>3, <1>6
  <1>8. \A i \in 1 .. n, j \in 1 .. 8 :
            BitsOf(bytes)[8 * (i - 1) + j] = (bytes[i] \div Weight[j]) % 2
    BY <1>2, <1>4, <1>5
  <1> QED BY <1>7, <1>8 DEF n

\* ByteAt adds the bits up.
LEMMA ByteAtIs ==
    ASSUME NEW bits, NEW k \in Nat,
           NEW a, NEW b, NEW c, NEW d, NEW e, NEW f, NEW g, NEW h,
           {a, b, c, d, e, f, g, h} \subseteq Bit,
           bits[k] = a, bits[k + 1] = b, bits[k + 2] = c, bits[k + 3] = d,
           bits[k + 4] = e, bits[k + 5] = f, bits[k + 6] = g, bits[k + 7] = h
    PROVE  ByteAt(bits, k) =
               128 * a + 64 * b + 32 * c + 16 * d + 8 * e + 4 * f + 2 * g + h
  <1> DEFINE V == Nat
             step == [p \in V \X (1 .. 8) |-> 2 * p[1] + bits[k + p[2] - 1]]
             Rec(w) == w = [j \in 0 .. 8 |-> IF j = 0 THEN 0
                                             ELSE 2 * w[j - 1] + bits[k + j - 1]]
             v == CHOOSE w : Rec(w)
  <1>1. ByteAt(bits, k) = v[8]
    BY DEF ByteAt
  <1>2. \A j \in 1 .. 8 : bits[k + j - 1] \in Bit
    <2>1. /\ k + 1 - 1 = k /\ k + 2 - 1 = k + 1 /\ k + 3 - 1 = k + 2 /\ k + 4 - 1 = k + 3
          /\ k + 5 - 1 = k + 4 /\ k + 6 - 1 = k + 5 /\ k + 7 - 1 = k + 6 /\ k + 8 - 1 = k + 7
      OBVIOUS
    <2>2. \A j \in 1 .. 8 : j \in {1, 2, 3, 4, 5, 6, 7, 8}
      OBVIOUS
    <2> QED BY <2>1, <2>2
  <1>3. StepsIn(V, 8, step)
    <2>1. \A u \in V, j \in 1 .. 8 : 2 * u + bits[k + j - 1] \in V
      BY <1>2 DEF Bit
    <2>2. \A p \in V \X (1 .. 8) : p[1] \in V /\ p[2] \in 1 .. 8
      OBVIOUS
    <2>3. \A p \in V \X (1 .. 8) : 2 * p[1] + bits[k + p[2] - 1] \in V
      BY <2>1, <2>2, Zenon
    <2> QED BY <2>3 DEF StepsIn
  <1>4. \A u \in V, j \in 1 .. 8 : step[<<u, j>>] = 2 * u + bits[k + j - 1]
    <2> SUFFICES ASSUME NEW u \in V, NEW j \in 1 .. 8
                 PROVE  step[<<u, j>>] = 2 * u + bits[k + j - 1]
      OBVIOUS
    <2>1. <<u, j>> \in V \X (1 .. 8) /\ <<u, j>>[1] = u /\ <<u, j>>[2] = j
      OBVIOUS
    <2>2. step[<<u, j>>] = 2 * <<u, j>>[1] + bits[k + <<u, j>>[2] - 1]
      BY <2>1, Zenon
    <2> QED BY <2>1, <2>2, Zenon
  <1> HIDE DEF step
  <1>5. PICK w : Runs(w, V, 0, 8, step)
    <2>1. 0 \in V /\ 8 \in Nat
      OBVIOUS
    <2> HIDE DEF V, Rec, v
    <2> QED BY <1>3, <2>1, Recursion
  <1>6. \A j \in 1 .. 8 : w[j] = 2 * w[j - 1] + bits[k + j - 1]
    <2> SUFFICES ASSUME NEW j \in 1 .. 8
                 PROVE  w[j] = 2 * w[j - 1] + bits[k + j - 1]
      OBVIOUS
    <2>1. w[j - 1] \in V
      BY <1>5 DEF Runs
    <2> QED BY <1>4, <1>5, <2>1 DEF Runs
  <1>7. Rec(w)
    <2>1. \A j \in 0 .. 8 : j = 0 \/ j \in 1 .. 8
      OBVIOUS
    <2>2. w = [j \in 0 .. 8 |-> w[j]] /\ w[0] = 0
      BY <1>5 DEF Runs
    <2> QED BY <1>6, <2>1, <2>2
  <1>8. Rec(v)
    <2> HIDE DEF Rec
    <2> QED BY <1>7
  <1> HIDE DEF v
  <1>9. v[0] = 0 /\ \A j \in 1 .. 8 : v[j] = 2 * v[j - 1] + bits[k + j - 1]
    <2>1. 0 \in 0 .. 8 /\ \A j \in 1 .. 8 : j \in 0 .. 8 /\ j # 0
      OBVIOUS
    <2> QED BY <1>8, <2>1
  <1> HIDE DEF Rec, step, V
  <1>10. /\ v[1] = 2 * v[0] + a /\ v[2] = 2 * v[1] + b /\ v[3] = 2 * v[2] + c
         /\ v[4] = 2 * v[3] + d /\ v[5] = 2 * v[4] + e /\ v[6] = 2 * v[5] + f
         /\ v[7] = 2 * v[6] + g /\ v[8] = 2 * v[7] + h
    <2>1. /\ k + 1 - 1 = k /\ k + 2 - 1 = k + 1 /\ k + 3 - 1 = k + 2 /\ k + 4 - 1 = k + 3
          /\ k + 5 - 1 = k + 4 /\ k + 6 - 1 = k + 5 /\ k + 7 - 1 = k + 6 /\ k + 8 - 1 = k + 7
      OBVIOUS
    <2>2. /\ v[1] = 2 * v[1 - 1] + bits[k + 1 - 1] /\ v[2] = 2 * v[2 - 1] + bits[k + 2 - 1]
          /\ v[3] = 2 * v[3 - 1] + bits[k + 3 - 1] /\ v[4] = 2 * v[4 - 1] + bits[k + 4 - 1]
          /\ v[5] = 2 * v[5 - 1] + bits[k + 5 - 1] /\ v[6] = 2 * v[6 - 1] + bits[k + 6 - 1]
          /\ v[7] = 2 * v[7 - 1] + bits[k + 7 - 1] /\ v[8] = 2 * v[8 - 1] + bits[k + 8 - 1]
      BY <1>9
    <2>3. /\ 1 - 1 = 0 /\ 2 - 1 = 1 /\ 3 - 1 = 2 /\ 4 - 1 = 3
          /\ 5 - 1 = 4 /\ 6 - 1 = 5 /\ 7 - 1 = 6 /\ 8 - 1 = 7
      OBVIOUS
    <2> QED BY <2>1, <2>2, <2>3
  <1>11. a \in Int /\ b \in Int /\ c \in Int /\ d \in Int /\ e \in Int /\ f \in Int
         /\ g \in Int /\ h \in Int
    BY DEF Bit
  <1>12. v[1] = a /\ v[2] = 2 * a + b /\ v[3] = 4 * a + 2 * b + c
    BY <1>9, <1>10, <1>11
  <1>13. v[4] = 8 * a + 4 * b + 2 * c + d /\ v[5] = 16 * a + 8 * b + 4 * c + 2 * d + e
    BY <1>10, <1>11, <1>12
  <1>14. v[6] = 32 * a + 16 * b + 8 * c + 4 * d + 2 * e + f
    BY <1>10, <1>11, <1>13
  <1>15. v[7] = 64 * a + 32 * b + 16 * c + 8 * d + 4 * e + 2 * f + g
    BY <1>10, <1>11, <1>14
  <1> QED BY <1>1, <1>10, <1>11, <1>15

\* What ByteAt makes of bits is a byte.
LEMMA ByteAtByte ==
    ASSUME NEW bits, NEW k \in Nat, \A j \in 0 .. 7 : bits[k + j] \in Bit
    PROVE  ByteAt(bits, k) \in 0 .. 255
  <1>1. /\ bits[k] \in Bit /\ bits[k + 1] \in Bit /\ bits[k + 2] \in Bit /\ bits[k + 3] \in Bit
        /\ bits[k + 4] \in Bit /\ bits[k + 5] \in Bit /\ bits[k + 6] \in Bit /\ bits[k + 7] \in Bit
    <2>1. bits[k + 0] \in Bit /\ k + 0 = k
      OBVIOUS
    <2> QED BY <2>1
  <1>2. PICK a \in Bit, b \in Bit, c \in Bit, d \in Bit,
             e \in Bit, f \in Bit, g \in Bit, h \in Bit :
                 /\ bits[k] = a /\ bits[k + 1] = b /\ bits[k + 2] = c /\ bits[k + 3] = d
                 /\ bits[k + 4] = e /\ bits[k + 5] = f /\ bits[k + 6] = g /\ bits[k + 7] = h
    BY <1>1, Zenon
  <1>3. {a, b, c, d, e, f, g, h} \subseteq Bit
    OBVIOUS
  <1>4. ByteAt(bits, k) = 128 * a + 64 * b + 32 * c + 16 * d + 8 * e + 4 * f + 2 * g + h
    BY <1>2, <1>3, ByteAtIs
  <1>5. /\ a \in 0 .. 1 /\ b \in 0 .. 1 /\ c \in 0 .. 1 /\ d \in 0 .. 1
        /\ e \in 0 .. 1 /\ f \in 0 .. 1 /\ g \in 0 .. 1 /\ h \in 0 .. 1
    BY DEF Bit
  <1> QED BY <1>4, <1>5

\* ByteAt of the bits of a byte is the byte.
LEMMA ByteBack ==
    ASSUME NEW bits, NEW k \in Nat, NEW x \in 0 .. 255,
           \A j \in 1 .. 8 : bits[k + j] = (x \div Weight[j]) % 2
    PROVE  ByteAt(bits, k + 1) = x
  <1> DEFINE y(j) == (x \div Weight[j]) % 2
  <1>1. \A j \in 1 .. 8 : y(j) \in Bit
    BY BitOf
  <1>2. /\ y(1) = (x \div 128) % 2 /\ y(2) = (x \div 64) % 2 /\ y(3) = (x \div 32) % 2
        /\ y(4) = (x \div 16) % 2 /\ y(5) = (x \div 8) % 2 /\ y(6) = (x \div 4) % 2
        /\ y(7) = (x \div 2) % 2 /\ y(8) = (x \div 1) % 2
    BY DEF Weight
  <1>3. x = 128 * y(1) + 64 * y(2) + 32 * y(3) + 16 * y(4) + 8 * y(5) + 4 * y(6)
              + 2 * y(7) + y(8)
    BY <1>2, Binary
  <1> HIDE DEF y
  <1>4. \A j \in 1 .. 8 : bits[k + j] = y(j)
    BY DEF y
  <1>5. /\ bits[k + 1] = y(1) /\ bits[(k + 1) + 1] = y(2) /\ bits[(k + 1) + 2] = y(3)
        /\ bits[(k + 1) + 3] = y(4) /\ bits[(k + 1) + 4] = y(5) /\ bits[(k + 1) + 5] = y(6)
        /\ bits[(k + 1) + 6] = y(7) /\ bits[(k + 1) + 7] = y(8)
    <2>1. /\ (k + 1) + 1 = k + 2 /\ (k + 1) + 2 = k + 3 /\ (k + 1) + 3 = k + 4
          /\ (k + 1) + 4 = k + 5 /\ (k + 1) + 5 = k + 6 /\ (k + 1) + 6 = k + 7
          /\ (k + 1) + 7 = k + 8
      OBVIOUS
    <2> QED BY <1>4, <2>1
  <1>6. {y(1), y(2), y(3), y(4), y(5), y(6), y(7), y(8)} \subseteq Bit /\ k + 1 \in Nat
    BY <1>1
  <1>7. ByteAt(bits, k + 1) = 128 * y(1) + 64 * y(2) + 32 * y(3) + 16 * y(4) + 8 * y(5)
                                + 4 * y(6) + 2 * y(7) + y(8)
    BY <1>5, <1>6, ByteAtIs
  <1> QED BY <1>3, <1>7

\* As long as the bits fed are those that leave the register, it shifts.
LEMMA CrcShifts ==
    ASSUME NEW r \in Int, NEW b \in Bit, r - 128 * b \in 0 .. 127
    PROVE  CrcStep(r, b) = 2 * (r - 128 * b)
  <1>1. b \in 0 .. 1
    BY DEF Bit
  <1>2. r \in 0 .. 255 /\ r \div 128 = b /\ (2 * r) % 256 = 2 * (r - 128 * b)
    BY <1>1
  <1> QED BY <1>2, CrcStepIs

\* The CRC of a byte, begun with the byte itself, is zero: this is how network_rx
\* checks the trailer.
THEOREM CrcOfItself ==
    ASSUME NEW x \in 0 .. 255
    PROVE  Crc8(BitsOf(<<x>>), x) = 0
  <1> DEFINE bytes == <<x>>
             bits == BitsOf(bytes)
             y(j) == (x \div Weight[j]) % 2
  <1>1. bytes \in Seq(Int) /\ Len(bytes) = 1 /\ bytes[1] = x
    OBVIOUS
  <1> HIDE DEF bytes
  <1>2. bits \in Seq(Bit) /\ Len(bits) = 8
    <2>1. bits \in Seq(Bit) /\ Len(bits) = 8 * Len(bytes)
      BY <1>1, BitsAre, Zenon
    <2> QED BY <1>1, <2>1
  <1>3. \A j \in 1 .. 8 : bits[j] = y(j)
    <2> SUFFICES ASSUME NEW j \in 1 .. 8
                 PROVE  bits[j] = y(j)
      OBVIOUS
    <2>1. 1 \in 1 .. Len(bytes) /\ 8 * (1 - 1) + j = j
      BY <1>1
    <2>2. bits[8 * (1 - 1) + j] = (bytes[1] \div Weight[j]) % 2
      BY <1>1, <2>1, BitsAre
    <2> QED BY <1>1, <2>1, <2>2
  <1>4. \A j \in 1 .. 8 : y(j) \in Bit
    BY BitOf
  <1>5. /\ y(1) = (x \div 128) % 2 /\ y(2) = (x \div 64) % 2 /\ y(3) = (x \div 32) % 2
        /\ y(4) = (x \div 16) % 2 /\ y(5) = (x \div 8) % 2 /\ y(6) = (x \div 4) % 2
        /\ y(7) = (x \div 2) % 2 /\ y(8) = (x \div 1) % 2
    BY DEF Weight
  <1>6. x = 128 * y(1) + 64 * y(2) + 32 * y(3) + 16 * y(4) + 8 * y(5) + 4 * y(6)
              + 2 * y(7) + y(8)
    BY <1>5, Binary
  <1> HIDE DEF bits, y
  <1>7. PICK r : /\ r[0] = x
                 /\ \A k \in 1 .. Len(bits) : r[k] = CrcStep(r[k - 1], bits[k])
                 /\ \A k \in 0 .. Len(bits) : r[k] \in 0 .. 255
                 /\ Crc8(bits, x) = r[Len(bits)]
    BY <1>2, CrcIs, Zenon
  <1>8. \A k \in 1 .. 8 : r[k] = CrcStep(r[k - 1], y(k))
    BY <1>2, <1>3, <1>7
  <1>9. \A k \in 1 .. 8 : r[k - 1] - 128 * y(k) \in 0 .. 127
            => r[k] = 2 * (r[k - 1] - 128 * y(k))
    <2> SUFFICES ASSUME NEW k \in 1 .. 8, r[k - 1] - 128 * y(k) \in 0 .. 127
                 PROVE  r[k] = 2 * (r[k - 1] - 128 * y(k))
      OBVIOUS
    <2>1. r[k - 1] \in Int /\ y(k) \in Bit
      <3>1. k - 1 \in 0 .. Len(bits) /\ \A v \in 0 .. 255 : v \in Int
        BY <1>2
      <3>2. r[k - 1] \in 0 .. 255
        BY <1>7, <3>1
      <3> QED BY <1>4, <3>1, <3>2
    <2>2. CrcStep(r[k - 1], y(k)) = 2 * (r[k - 1] - 128 * y(k))
      BY <2>1, CrcShifts
    <2> QED BY <1>8, <2>2
  <1>10. /\ r[0] - 128 * y(1) \in 0 .. 127 => r[1] = 2 * (r[0] - 128 * y(1))
         /\ r[1] - 128 * y(2) \in 0 .. 127 => r[2] = 2 * (r[1] - 128 * y(2))
         /\ r[2] - 128 * y(3) \in 0 .. 127 => r[3] = 2 * (r[2] - 128 * y(3))
         /\ r[3] - 128 * y(4) \in 0 .. 127 => r[4] = 2 * (r[3] - 128 * y(4))
         /\ r[4] - 128 * y(5) \in 0 .. 127 => r[5] = 2 * (r[4] - 128 * y(5))
         /\ r[5] - 128 * y(6) \in 0 .. 127 => r[6] = 2 * (r[5] - 128 * y(6))
         /\ r[6] - 128 * y(7) \in 0 .. 127 => r[7] = 2 * (r[6] - 128 * y(7))
         /\ r[7] - 128 * y(8) \in 0 .. 127 => r[8] = 2 * (r[7] - 128 * y(8))
    <2>1. /\ 1 - 1 = 0 /\ 2 - 1 = 1 /\ 3 - 1 = 2 /\ 4 - 1 = 3
          /\ 5 - 1 = 4 /\ 6 - 1 = 5 /\ 7 - 1 = 6 /\ 8 - 1 = 7
      OBVIOUS
    <2>2. \A k \in {1, 2, 3, 4, 5, 6, 7, 8} : k \in 1 .. 8
      OBVIOUS
    <2> QED BY <1>9, <2>1, <2>2
  <1>11. /\ y(1) \in 0 .. 1 /\ y(2) \in 0 .. 1 /\ y(3) \in 0 .. 1 /\ y(4) \in 0 .. 1
         /\ y(5) \in 0 .. 1 /\ y(6) \in 0 .. 1 /\ y(7) \in 0 .. 1 /\ y(8) \in 0 .. 1
    BY <1>4 DEF Bit
  <1>12. r[0] = 128 * y(1) + 64 * y(2) + 32 * y(3) + 16 * y(4) + 8 * y(5) + 4 * y(6)
                  + 2 * y(7) + y(8)
    BY <1>6, <1>7
  <1>13. r[1] = 128 * y(2) + 64 * y(3) + 32 * y(4) + 16 * y(5) + 8 * y(6) + 4 * y(7)
                  + 2 * y(8)
    BY <1>10, <1>11, <1>12
  <1>14. r[2] = 128 * y(3) + 64 * y(4) + 32 * y(5) + 16 * y(6) + 8 * y(7) + 4 * y(8)
    BY <1>10, <1>11, <1>13
  <1>15. r[3] = 128 * y(4) + 64 * y(5) + 32 * y(6) + 16 * y(7) + 8 * y(8)
    BY <1>10, <1>11, <1>14
  <1>16. r[4] = 128 * y(5) + 64 * y(6) + 32 * y(7) + 16 * y(8)
    BY <1>10, <1>11, <1>15
  <1>17. r[5] = 128 * y(6) + 64 * y(7) + 32 * y(8)
    BY <1>10, <1>11, <1>16
  <1>18. r[6] = 128 * y(7) + 64 * y(8)
    BY <1>10, <1>11, <1>17
  <1>19. r[7] = 128 * y(8) /\ r[8] = 0
    BY <1>10, <1>11, <1>18
  <1> QED BY <1>2, <1>7, <1>19 DEF bits, bytes

-----------------------------------------------------------------------------
(* A whole frame, on the line and in the element.                          *)

\* A sequence, another one and a last element.
LEMMA Framed ==
    ASSUME NEW a \in Seq(Int), NEW b \in Seq(Int), NEW x \in Int
    PROVE  /\ a \o b \o <<x>> \in Seq(Int)
           /\ Len(a \o b \o <<x>>) = Len(a) + Len(b) + 1
           /\ \A i \in 1 .. Len(a) : (a \o b \o <<x>>)[i] = a[i]
           /\ \A i \in 1 .. Len(b) : (a \o b \o <<x>>)[Len(a) + i] = b[i]
           /\ (a \o b \o <<x>>)[Len(a) + Len(b) + 1] = x
  <1> DEFINE both == a \o b
             tail == <<x>>
  <1>1. Len(a) \in Nat /\ Len(b) \in Nat
    OBVIOUS
  <1>2. tail \in Seq(Int) /\ Len(tail) = 1 /\ tail[1] = x
    OBVIOUS
  <1>3. both \in Seq(Int) /\ Len(both) = Len(a) + Len(b)
    BY ConcatProperties
  <1>4. \A i \in 1 .. Len(a) : both[i] = a[i]
    BY <1>1, ConcatProperties
  <1>5. \A i \in 1 .. Len(b) : both[Len(a) + i] = b[i]
    BY LastPart
  <1> HIDE DEF both, tail
  <1>6. both \o tail \in Seq(Int) /\ Len(both \o tail) = Len(both) + 1
    <2>1. both \in Seq(Int) /\ tail \in Seq(Int)
      BY <1>2, <1>3
    <2>2. both \o tail \in Seq(Int) /\ Len(both \o tail) = Len(both) + Len(tail)
      BY <2>1, ConcatProperties, Zenon
    <2> QED BY <1>2, <2>2
  <1>7. \A i \in 1 .. Len(both) : (both \o tail)[i] = both[i]
    BY <1>2, <1>3
  <1>8. (both \o tail)[Len(both) + 1] = x
    <2>1. both \in Seq(Int) /\ tail \in Seq(Int)
      BY <1>2, <1>3
    <2>2. \A i \in 1 .. Len(tail) : (both \o tail)[Len(both) + i] = tail[i]
      BY <2>1, LastPart, Zenon
    <2>3. 1 \in 1 .. Len(tail) /\ tail[1] = x
      BY <1>2
    <2> QED BY <2>2, <2>3, Zenon
  <1>9. \A i \in 1 .. Len(a) : (both \o tail)[i] = a[i]
    <2>1. \A i \in 1 .. Len(a) : i \in 1 .. Len(both)
      BY <1>1, <1>3
    <2> QED BY <1>4, <1>7, <2>1
  <1>10. \A i \in 1 .. Len(b) : (both \o tail)[Len(a) + i] = b[i]
    <2>1. \A i \in 1 .. Len(b) : Len(a) + i \in 1 .. Len(both)
      BY <1>1, <1>3
    <2> QED BY <1>5, <1>7, <2>1
  <1> QED BY <1>3, <1>6, <1>8, <1>9, <1>10 DEF both, tail

\* What a frame is, byte by byte.
LEMMA FrameBytesAre ==
    ASSUME NEW f \in Frames
    PROVE  /\ Len(f.message) \in 1 .. 255 /\ f.message \in Seq(Int)
           /\ Crc8(BitsOf(f.message), 0) \in 0 .. 255
           /\ FrameBytes(f) \in Seq(Int) /\ Len(FrameBytes(f)) = 7 + Len(f.message)
           /\ FrameBytes(f)[1] = Preamble /\ FrameBytes(f)[2] = Version
           /\ FrameBytes(f)[3] = f.source /\ FrameBytes(f)[4] = f.destination
           /\ FrameBytes(f)[5] = Len(f.message) /\ FrameBytes(f)[6] = CrcOn
           /\ \A i \in 1 .. Len(f.message) : FrameBytes(f)[6 + i] = f.message[i]
           /\ FrameBytes(f)[7 + Len(f.message)] = Crc8(BitsOf(f.message), 0)
  <1> DEFINE m == Len(f.message)
             crc == Crc8(BitsOf(f.message), 0)
             head == Header(f)
  <1>1. f.source \in 0 .. 255 /\ f.destination \in 0 .. 255 /\ m \in 1 .. 255
    BY LinkAssumption
  <1>2. f.message \in Seq(Int) /\ Len(f.message) = m
    BY FrameParts
  <1>3. crc \in 0 .. 255
    <2> DEFINE bits == BitsOf(f.message)
    <2>1. bits \in Seq(Bit)
      BY <1>2, BitsAre, Zenon
    <2> HIDE DEF bits
    <2>2. PICK r : /\ r[0] = 0
                   /\ \A k \in 1 .. Len(bits) : r[k] = CrcStep(r[k - 1], bits[k])
                   /\ \A k \in 0 .. Len(bits) : r[k] \in 0 .. 255
                   /\ Crc8(bits, 0) = r[Len(bits)]
      <3>1. 0 \in 0 .. 255
        OBVIOUS
      <3> QED BY <2>1, <3>1, CrcIs, Zenon
    <2>3. Len(bits) \in 0 .. Len(bits)
      BY <2>1
    <2> QED BY <2>2, <2>3 DEF bits
  <1>4. head = <<85, 1, f.source, f.destination, m, 1>>
    BY DEF Header, Preamble, Version, CrcOn
  <1> HIDE DEF crc, head, m
  <1>5. /\ head \in Seq(Int) /\ Len(head) = 6
        /\ head[1] = 85 /\ head[2] = 1 /\ head[3] = f.source /\ head[4] = f.destination
        /\ head[5] = m /\ head[6] = 1
    <2>1. ASSUME NEW a \in Int, NEW b \in Int, NEW c \in Int
          PROVE  /\ <<85, 1, a, b, c, 1>> \in Seq(Int) /\ Len(<<85, 1, a, b, c, 1>>) = 6
                 /\ <<85, 1, a, b, c, 1>>[1] = 85 /\ <<85, 1, a, b, c, 1>>[2] = 1
                 /\ <<85, 1, a, b, c, 1>>[3] = a /\ <<85, 1, a, b, c, 1>>[4] = b
                 /\ <<85, 1, a, b, c, 1>>[5] = c /\ <<85, 1, a, b, c, 1>>[6] = 1
      OBVIOUS
    <2>2. f.source \in Int /\ f.destination \in Int /\ m \in Int
      BY <1>1
    <2> QED BY <1>4, <2>1, <2>2
  <1>6. FrameBytes(f) = head \o f.message \o <<crc>>
    BY DEF FrameBytes, crc, head
  <1>7. /\ FrameBytes(f) \in Seq(Int) /\ Len(FrameBytes(f)) = Len(head) + Len(f.message) + 1
        /\ \A i \in 1 .. Len(head) : FrameBytes(f)[i] = head[i]
        /\ \A i \in 1 .. Len(f.message) : FrameBytes(f)[Len(head) + i] = f.message[i]
        /\ FrameBytes(f)[Len(head) + Len(f.message) + 1] = crc
    <2>1. head \in Seq(Int) /\ f.message \in Seq(Int) /\ crc \in Int
      BY <1>2, <1>3, <1>5
    <2> DEFINE g == head \o f.message \o <<crc>>
    <2>2. /\ g \in Seq(Int) /\ Len(g) = Len(head) + Len(f.message) + 1
          /\ \A i \in 1 .. Len(head) : g[i] = head[i]
          /\ \A i \in 1 .. Len(f.message) : g[Len(head) + i] = f.message[i]
          /\ g[Len(head) + Len(f.message) + 1] = crc
      BY <2>1, Framed, Zenon
    <2>3. FrameBytes(f) = g
      BY <1>6
    <2> HIDE DEF g
    <2> QED BY <2>2, <2>3, Zenon
  <1>8. 6 + m + 1 = 7 + m
    BY <1>1
  <1>9. /\ FrameBytes(f)[1] = 85 /\ FrameBytes(f)[2] = 1 /\ FrameBytes(f)[3] = f.source
        /\ FrameBytes(f)[4] = f.destination /\ FrameBytes(f)[5] = m /\ FrameBytes(f)[6] = 1
    <2>1. \A i \in {1, 2, 3, 4, 5, 6} : i \in 1 .. Len(head)
      BY <1>5
    <2> QED BY <1>5, <1>7, <2>1
  <1>10. /\ Len(FrameBytes(f)) = 7 + m /\ FrameBytes(f)[7 + m] = crc
         /\ \A i \in 1 .. m : FrameBytes(f)[6 + i] = f.message[i]
    BY <1>2, <1>5, <1>7, <1>8
  <1> QED BY <1>1, <1>2, <1>3, <1>7, <1>9, <1>10 DEF m, crc, Preamble, Version, CrcOn

\* The half-bits of a sequence of bits.
LEMMA EncodeIs ==
    ASSUME NEW bits \in Seq(Bit)
    PROVE  Encode(bits) \in Seq(Bit) /\ Len(Encode(bits)) = 2 * Len(bits)
  <1>1. Len(bits) \in Nat /\ \A k \in 1 .. Len(bits) : bits[k] \in Bit
    OBVIOUS
  <1>2. 2 * Len(bits) \in Nat
    BY <1>1
  <1>3. \A h \in 1 .. 2 * Len(bits) :
            (IF h % 2 = 1 THEN 1 - bits[(h + 1) \div 2] ELSE bits[(h + 1) \div 2]) \in Bit
    <2> SUFFICES ASSUME NEW h \in 1 .. 2 * Len(bits)
                 PROVE  (IF h % 2 = 1 THEN 1 - bits[(h + 1) \div 2]
                                      ELSE bits[(h + 1) \div 2]) \in Bit
      OBVIOUS
    <2>1. (h + 1) \div 2 \in 1 .. Len(bits)
      BY <1>1
    <2>2. bits[(h + 1) \div 2] \in Bit
      BY <1>1, <2>1
    <2> QED BY <2>2 DEF Bit
  <1>4. Encode(bits) = [h \in 1 .. 2 * Len(bits) |->
            IF h % 2 = 1 THEN 1 - bits[(h + 1) \div 2] ELSE bits[(h + 1) \div 2]]
    BY DEF Encode
  <1> QED BY <1>2, <1>3, <1>4

\* In what network_encode_manchester makes no three half-bits are equal: the timer
\* runs out only after the frame.
LEMMA NeverStill ==
    ASSUME NEW bits \in Seq(Bit), NEW k \in 1 .. 2 * Len(bits) - 1
    PROVE  /\ Encode(bits)[k] # Encode(bits)[k + 1]
                 \/ k % 2 = 0
           /\ k + 2 <= 2 * Len(bits) => ~Still(Encode(bits), k)
  <1>1. Len(bits) \in Nat
    OBVIOUS
  <1>2. \A p \in 1 .. Len(bits) : Encode(bits)[2 * p - 1] # Encode(bits)[2 * p]
    BY EncodedValid DEF Valid
  <1>3. CASE k % 2 = 1
    <2>1. (k + 1) \div 2 \in 1 .. Len(bits) /\ 2 * ((k + 1) \div 2) = k + 1
          /\ 2 * ((k + 1) \div 2) - 1 = k
      BY <1>1, <1>3
    <2>2. Encode(bits)[k] # Encode(bits)[k + 1]
      BY <1>2, <2>1
    <2> QED BY <2>2 DEF Still
  <1>4. CASE k % 2 = 0
    <2>1. k + 2 <= 2 * Len(bits) =>
              /\ (k + 2) \div 2 \in 1 .. Len(bits) /\ 2 * ((k + 2) \div 2) = k + 2
              /\ 2 * ((k + 2) \div 2) - 1 = k + 1
      BY <1>1, <1>4
    <2>2. k + 2 <= 2 * Len(bits) => Encode(bits)[k + 1] # Encode(bits)[k + 2]
      BY <1>2, <2>1
    <2> QED BY <1>4, <2>2 DEF Still
  <1>5. k % 2 = 0 \/ k % 2 = 1
    BY <1>1
  <1> QED BY <1>3, <1>4, <1>5

\* The element made of an undamaged frame holds its half-bits, and one or two more.
LEMMA WholeElement ==
    ASSUME NEW bits \in Seq(Bit), Len(bits) >= 1, bits[1] = 0, 2 * Len(bits) < Capacity,
           NEW e \in 1 .. 2 * Len(bits) + 3, FirstEdge(Encode(bits) \o Idle, 0, e),
           NEW k \in e .. 2 * Len(bits) + 1, FirstStill(Encode(bits) \o Idle, e, k)
    PROVE  /\ (Encode(bits) \o Idle)[k] = 1
           /\ k \in {2 * Len(bits), 2 * Len(bits) + 1}
           /\ Len(Element(Encode(bits) \o Idle, e, k)) \in {2 * Len(bits) + 1, 2 * Len(bits) + 2}
           /\ \A h \in 1 .. 2 * Len(bits) :
                 Element(Encode(bits) \o Idle, e, k)[h] = Encode(bits)[h]
  <1> DEFINE coded == Encode(bits)
             n == 2 * Len(bits)
             line == coded \o Idle
             element == Element(line, e, k)
  <1>1. Len(bits) \in Nat /\ n \in Nat /\ n >= 2
    OBVIOUS
  <1>2. coded \in Seq(Bit) /\ Len(coded) = n
    BY EncodeIs
  <1>3. coded[1] = 1 /\ coded[2] = 0
    <2>1. 1 \in 1 .. Len(bits) /\ 2 * 1 - 1 = 1 /\ 2 * 1 = 2
      BY <1>1
    <2> QED BY <1>1, <2>1, HalvesOf
  <1>4. \A h \in 1 .. n - 2 : ~Still(coded, h)
    <2>1. \A h \in 1 .. n - 2 : h \in 1 .. 2 * Len(bits) - 1 /\ h + 2 <= 2 * Len(bits)
      BY <1>1
    <2> QED BY <2>1, NeverStill
  <1>5. coded[n - 1] # coded[n]
    <2>1. Len(bits) \in 1 .. Len(bits)
      BY <1>1
    <2> QED BY <2>1, EncodedValid DEF Valid
  <1>6. FirstEdge(line, 0, e) /\ FirstStill(line, e, k) /\ n < Capacity
    OBVIOUS
  <1> HIDE DEF coded, n
  <1>7. /\ \A h \in 1 .. n : line[h] = coded[h]
        /\ \A h \in n + 1 .. n + 3 : line[h] = 1
    <2>1. \A h \in 1 .. n + 3 : line[h] = LevelAt(coded, h)
      BY <1>2, IdleAfter
    <2>2. /\ \A h \in 1 .. n : h \in 1 .. n + 3 /\ h <= n
          /\ \A h \in n + 1 .. n + 3 : h \in 1 .. n + 3 /\ ~(h <= n)
      BY <1>1
    <2> QED BY <1>2, <2>1, <2>2 DEF LevelAt
  <1>8. /\ e = 2
        /\ Len(element) = IF k + 1 <= Capacity THEN k + 1 ELSE Capacity
        /\ \A h \in 1 .. Len(element) : element[h] = LevelAt(coded, h)
    <2>1. /\ e \in 1 .. Len(coded) + 3 /\ k \in e .. Len(coded) + 1 /\ Len(coded) >= 2
      BY <1>1, <1>2 DEF n
    <2> QED BY <1>2, <1>3, <1>6, <2>1, FirstElement DEF line
  <1>9. e \in 1 .. n + 3 /\ k \in e .. n + 1
    BY DEF n
  <1> HIDE DEF line, element
  <1>10. k \in 2 .. n + 1
    BY <1>1, <1>8, <1>9
  <1>11. Still(line, k)
    BY <1>6 DEF FirstStill
  <1>12. k \in {n, n + 1}
    <2>1. CASE k \in 1 .. n - 2
      <3>1. k \in 1 .. n /\ k + 1 \in 1 .. n /\ k + 2 \in 1 .. n
        BY <1>1, <2>1
      <3>2. line[k] = coded[k] /\ line[k + 1] = coded[k + 1] /\ line[k + 2] = coded[k + 2]
        BY <1>7, <3>1
      <3> QED BY <1>4, <1>11, <2>1, <3>2 DEF Still
    <2>2. CASE k = n - 1
      <3>1. n - 1 \in 1 .. n /\ n \in 1 .. n /\ (n - 1) + 1 = n
        BY <1>1
      <3>2. line[n - 1] # line[(n - 1) + 1]
        BY <1>5, <1>7, <3>1
      <3> QED BY <1>11, <2>2, <3>2 DEF Still
    <2>3. k \in 1 .. n - 2 \/ k = n - 1 \/ k \in {n, n + 1}
      BY <1>1, <1>10
    <2> QED BY <2>1, <2>2, <2>3
  <1>13. line[k] = 1
    <2>1. k + 1 \in n + 1 .. n + 3
      BY <1>1, <1>12
    <2>2. line[k] = line[k + 1]
      BY <1>11 DEF Still
    <2> QED BY <1>7, <2>1, <2>2
  <1>14. Len(element) \in {n + 1, n + 2}
    <2>1. Capacity \in Nat
      BY DEF Capacity
    <2> QED BY <1>1, <1>6, <1>8, <1>12, <2>1
  <1>15. ASSUME NEW h \in 1 .. n
         PROVE  element[h] = coded[h]
    <2>1. h \in 1 .. Len(element)
      BY <1>1, <1>14
    <2>2. LevelAt(coded, h) = coded[h]
      BY <1>1, <1>2 DEF LevelAt
    <2> QED BY <1>8, <2>1, <2>2
  <1> QED BY <1>12, <1>13, <1>14, <1>15 DEF line, element, coded, n

\* Valid symbols are decoded to their second halves.
LEMMA DecodeClean ==
    ASSUME NEW coded, NEW from \in Nat, NEW n \in Nat, Clean(coded, from, n)
    PROVE  Decode(coded, from, n) = [k \in 1 .. n |-> coded[2 * (from + k)]]
  BY AllReadable DEF Decode

\* What is decoded of an element that holds what was encoded.
LEMMA DecodeWhole ==
    ASSUME NEW bits \in Seq(Bit), NEW element, NEW from \in Nat, NEW n \in Nat,
           from + n <= Len(bits),
           \A h \in 1 .. 2 * Len(bits) : element[h] = Encode(bits)[h]
    PROVE  /\ Clean(element, from, n)
           /\ Decode(element, from, n) = SubSeq(bits, from + 1, from + n)
  <1> DEFINE coded == Encode(bits)
  <1>1. Clean(coded, from, n) /\ Decode(coded, from, n) = SubSeq(bits, from + 1, from + n)
    BY RoundTrip
  <1>2. \A k \in 1 .. n : /\ element[2 * (from + k)] = coded[2 * (from + k)]
                          /\ element[2 * (from + k) - 1] = coded[2 * (from + k) - 1]
    <2> SUFFICES ASSUME NEW k \in 1 .. n
                 PROVE  /\ element[2 * (from + k)] = coded[2 * (from + k)]
                        /\ element[2 * (from + k) - 1] = coded[2 * (from + k) - 1]
      OBVIOUS
    <2>1. /\ 2 * (from + k) \in 1 .. 2 * Len(bits)
          /\ 2 * (from + k) - 1 \in 1 .. 2 * Len(bits)
      OBVIOUS
    <2> QED BY <2>1
  <1> HIDE DEF coded
  <1>3. Clean(element, from, n)
    BY <1>1, <1>2 DEF Clean, Valid
  <1>4. Decode(element, from, n) = [k \in 1 .. n |-> element[2 * (from + k)]]
    BY <1>3, DecodeClean
  <1>5. Decode(coded, from, n) = [k \in 1 .. n |-> coded[2 * (from + k)]]
    BY <1>1, DecodeClean
  <1>6. Decode(element, from, n) = Decode(coded, from, n)
    BY <1>2, <1>4, <1>5
  <1> QED BY <1>1, <1>3, <1>6

\* A part of a sequence.
LEMMA Part ==
    ASSUME NEW S, NEW s \in Seq(S), NEW from \in Nat, NEW n \in Nat, from + n <= Len(s)
    PROVE  /\ SubSeq(s, from + 1, from + n) \in Seq(S)
           /\ Len(SubSeq(s, from + 1, from + n)) = n
           /\ \A k \in 1 .. n : SubSeq(s, from + 1, from + n)[k] = s[from + k]
           /\ SubSeq(s, from + 1, from + n) = [k \in 1 .. n |-> s[from + k]]
  <1>1. \A h \in from + 1 .. from + n : h \in 1 .. Len(s) /\ s[h] \in S
    OBVIOUS
  <1>2. /\ from + 1 \in Int /\ from + n \in Int /\ from + n - (from + 1) + 1 = n
        /\ (IF from + 1 <= from + n THEN from + n - (from + 1) + 1 ELSE 0) = n
        /\ \A k \in 1 .. n : from + 1 + k - 1 = from + k
    OBVIOUS
  <1> DEFINE sub == SubSeq(s, from + 1, from + n)
  <1>3. sub \in Seq(S) /\ Len(sub) = n
    BY <1>1, <1>2, SubSeqProperties
  <1>4. \A k \in 1 .. n : sub[k] = s[from + k]
    BY <1>1, <1>2, SubSeqProperties
  <1> HIDE DEF sub
  <1>5. sub = [k \in 1 .. n |-> sub[k]]
    BY <1>3
  <1> QED BY <1>3, <1>4, <1>5 DEF sub

\* Bytes from the middle of others have their bits in the middle.
LEMMA BitsWithin ==
    ASSUME NEW bytes \in Seq(Int), NEW from \in Nat, NEW part \in Seq(Int),
           from + Len(part) <= Len(bytes),
           \A i \in 1 .. Len(part) : bytes[from + i] = part[i]
    PROVE  SubSeq(BitsOf(bytes), 8 * from + 1, 8 * from + 8 * Len(part)) = BitsOf(part)
  <1> DEFINE bits == BitsOf(bytes)
             m == Len(part)
             n == Len(bytes)
             sub == SubSeq(bits, 8 * from + 1, 8 * from + 8 * m)
  <1>1. m \in Nat /\ n \in Nat /\ from + m <= n
    OBVIOUS
  <1>2. /\ bits \in Seq(Bit) /\ Len(bits) = 8 * n
        /\ \A i \in 1 .. n, j \in 1 .. 8 :
              bits[8 * (i - 1) + j] = (bytes[i] \div Weight[j]) % 2
    BY BitsAre
  <1>3. /\ BitsOf(part) \in Seq(Bit) /\ Len(BitsOf(part)) = 8 * m
        /\ \A i \in 1 .. m, j \in 1 .. 8 :
              BitsOf(part)[8 * (i - 1) + j] = (part[i] \div Weight[j]) % 2
    BY BitsAre
  <1>4. \A i \in 1 .. m : bytes[from + i] = part[i] /\ from + i \in 1 .. n
    OBVIOUS
  <1> HIDE DEF m, n, bits
  <1>5. \A k \in 1 .. 8 * m : bits[8 * from + k] = BitsOf(part)[k]
    <2> SUFFICES ASSUME NEW k \in 1 .. 8 * m
                 PROVE  bits[8 * from + k] = BitsOf(part)[k]
      OBVIOUS
    <2> DEFINE i == (k + 7) \div 8
               j == k - 8 * (i - 1)
    <2>1. i \in 1 .. m /\ j \in 1 .. 8 /\ k = 8 * (i - 1) + j
      BY <1>1
    <2> HIDE DEF i, j
    <2>2. 8 * from + k = 8 * ((from + i) - 1) + j
      BY <1>1, <2>1
    <2>3. bits[8 * ((from + i) - 1) + j] = (bytes[from + i] \div Weight[j]) % 2
      BY <1>2, <1>4, <2>1
    <2>4. BitsOf(part)[8 * (i - 1) + j] = (part[i] \div Weight[j]) % 2
      BY <1>3, <2>1
    <2> QED BY <1>4, <2>1, <2>2, <2>3, <2>4
  <1>6. sub = [k \in 1 .. 8 * m |-> bits[8 * from + k]]
    <2>1. 8 * from \in Nat /\ 8 * m \in Nat /\ 8 * from + 8 * m <= Len(bits)
      BY <1>1, <1>2
    <2>2. bits \in Seq(Bit)
      BY <1>2
    <2> QED BY <2>1, <2>2, Part
  <1>7. BitsOf(part) = [k \in 1 .. 8 * m |-> BitsOf(part)[k]]
    BY <1>1, <1>3
  <1> QED BY <1>5, <1>6, <1>7 DEF m, bits

\* The byte of which a part is made, at its place in it.
LEMMA ByteWithin ==
    ASSUME NEW bytes \in Seq(Int), NEW n \in Nat, n <= Len(bytes),
           NEW i \in 1 .. n, bytes[i] \in 0 .. 255
    PROVE  ByteAt(SubSeq(BitsOf(bytes), 1, 8 * n), 8 * (i - 1) + 1) = bytes[i]
  <1> DEFINE bits == BitsOf(bytes)
             sub == SubSeq(bits, 1, 8 * n)
             k == 8 * (i - 1)
  <1>1. /\ bits \in Seq(Bit) /\ Len(bits) = 8 * Len(bytes) /\ Len(bytes) \in Nat
        /\ i \in 1 .. Len(bytes)
    <2>1. bits \in Seq(Bit) /\ Len(bits) = 8 * Len(bytes)
      BY BitsAre
    <2> QED BY <2>1
  <1>2. \A j \in 1 .. 8 : bits[k + j] = (bytes[i] \div Weight[j]) % 2
    BY <1>1, BitsAre
  <1> HIDE DEF bits
  <1>3. \A h \in 1 .. 8 * n : sub[h] = bits[h]
    <2>1. 0 \in Nat /\ 8 * n \in Nat /\ 0 + 8 * n <= Len(bits)
      BY <1>1
    <2>2. \A h \in 1 .. 8 * n : SubSeq(bits, 0 + 1, 0 + 8 * n)[h] = bits[0 + h]
      BY <1>1, <2>1, Part
    <2>3. 0 + 1 = 1 /\ 0 + 8 * n = 8 * n /\ \A h \in 1 .. 8 * n : 0 + h = h
      OBVIOUS
    <2> QED BY <2>2, <2>3
  <1>4. \A j \in 1 .. 8 : k + j \in 1 .. 8 * n
    OBVIOUS
  <1>5. k \in Nat /\ \A j \in 1 .. 8 : sub[k + j] = (bytes[i] \div Weight[j]) % 2
    BY <1>2, <1>3, <1>4
  <1> HIDE DEF k, sub
  <1>6. ByteAt(sub, k + 1) = bytes[i]
    BY <1>5, ByteBack
  <1> QED BY <1>6 DEF sub, k, bits

\* The frame on the line, as bits and half-bits.
LEMMA FrameOnLine ==
    ASSUME NEW f \in Frames
    PROVE  /\ BitsOf(FrameBytes(f)) \in Seq(Bit)
           /\ Len(BitsOf(FrameBytes(f))) = 8 * (7 + Len(f.message))
           /\ EncodedFrame(f) = Encode(BitsOf(FrameBytes(f)))
           /\ EncodedFrame(f) \in Seq(Bit)
  <1> DEFINE bytes == FrameBytes(f)
             bits == BitsOf(bytes)
  <1>1. bytes \in Seq(Int) /\ Len(bytes) = 7 + Len(f.message)
    BY FrameBytesAre
  <1>2. EncodedFrame(f) = Encode(bits)
    BY DEF EncodedFrame, FrameBytes
  <1> HIDE DEF bytes
  <1>3. bits \in Seq(Bit) /\ Len(bits) = 8 * Len(bytes)
    BY <1>1, BitsAre
  <1> HIDE DEF bits
  <1>4. Encode(bits) \in Seq(Bit)
    BY <1>3, EncodeIs
  <1> QED BY <1>1, <1>2, <1>3, <1>4 DEF bits, bytes

\* The first n half-bits are those of a frame.
Begins(element, f, n) == \A h \in 1 .. n : element[h] = EncodedFrame(f)[h]

\* The header of an element that begins with the half-bits of a frame's.
LEMMA HeaderSent ==
    ASSUME NEW f \in Frames, NEW element, Begins(element, f, 96)
    PROVE  /\ HeaderClean(element)
           /\ HeaderOf(element) = [preamble |-> 85, version |-> 1, source |-> f.source,
                                   destination |-> f.destination,
                                   length |-> Len(f.message), crcFlag |-> 1]
  <1> DEFINE bytes == FrameBytes(f)
             bits == BitsOf(bytes)
             m == Len(f.message)
             head == SubSeq(bits, 1, 48)
  <1>1. /\ m \in 1 .. 255 /\ bytes \in Seq(Int) /\ Len(bytes) = 7 + m
        /\ bytes[1] = 85 /\ bytes[2] = 1 /\ bytes[3] = f.source /\ bytes[4] = f.destination
        /\ bytes[5] = m /\ bytes[6] = 1
    BY FrameBytesAre DEF Preamble, Version, CrcOn
  <1>2. f.source \in 0 .. 255 /\ f.destination \in 0 .. 255
    BY LinkAssumption
  <1>3. bits \in Seq(Bit) /\ Len(bits) = 8 * (7 + m) /\ EncodedFrame(f) = Encode(bits)
    BY FrameOnLine
  <1> HIDE DEF bytes, bits, m
  <1>11. m \in Nat /\ m >= 1
    <2>1. m \in 1 .. 255
      BY <1>1
    <2> QED BY <2>1
  <1>12. /\ bytes \in Seq(Int) /\ Len(bytes) = 7 + m
         /\ bits \in Seq(Bit) /\ Len(bits) = 8 * (7 + m)
    BY <1>1, <1>3
  <1>13. Len(bytes) \in Nat /\ Len(bytes) >= 8 /\ Len(bits) \in Nat /\ Len(bits) >= 64
    BY <1>11, <1>12
  <1>4. \A k \in 1 .. 48 : /\ Encode(bits)[2 * k - 1] # Encode(bits)[2 * k]
                           /\ Encode(bits)[2 * k] = bits[k]
    <2> SUFFICES ASSUME NEW k \in 1 .. 48
                 PROVE  /\ Encode(bits)[2 * k - 1] # Encode(bits)[2 * k]
                        /\ Encode(bits)[2 * k] = bits[k]
      OBVIOUS
    <2>1. k \in 1 .. Len(bits) /\ Len(bits) \in Nat
      BY <1>13
    <2> QED BY <1>3, <2>1, EncodedValid, HalvesOf DEF Valid
  <1>5. \A k \in 1 .. 48 : /\ element[2 * k - 1] = Encode(bits)[2 * k - 1]
                           /\ element[2 * k] = Encode(bits)[2 * k]
    <2>1. \A k \in 1 .. 48 : 2 * k - 1 \in 1 .. 96 /\ 2 * k \in 1 .. 96
      OBVIOUS
    <2> QED BY <1>3, <2>1 DEF Begins
  <1>6. Clean(element, 0, 48)
    <2>1. \A k \in 1 .. 48 : 0 + k = k
      OBVIOUS
    <2> QED BY <1>4, <1>5, <2>1 DEF Clean, Valid
  <1>7. Decode(element, 0, 48) = head
    <2>1. 0 \in Nat /\ 48 \in Nat /\ 0 + 48 <= Len(bits) /\ 0 + 1 = 1 /\ 0 + 48 = 48
          /\ \A k \in 1 .. 48 : 0 + k = k
      BY <1>13
    <2>2. Decode(element, 0, 48) = [k \in 1 .. 48 |-> element[2 * (0 + k)]]
      <3>1. \A from, n \in Nat : Clean(element, from, n) =>
                Decode(element, from, n) = [k \in 1 .. n |-> element[2 * (from + k)]]
        BY DecodeClean
      <3> QED BY <1>6, <2>1, <3>1
    <2>3. SubSeq(bits, 0 + 1, 0 + 48) = [k \in 1 .. 48 |-> bits[0 + k]]
      BY <1>12, <2>1, Part
    <2>4. \A k \in 1 .. 48 : element[2 * (0 + k)] = bits[0 + k]
      BY <1>4, <1>5, <2>1
    <2>5. [k \in 1 .. 48 |-> element[2 * (0 + k)]] = [k \in 1 .. 48 |-> bits[0 + k]]
      BY <2>4
    <2> QED BY <2>1, <2>2, <2>3, <2>5
  <1>8. \A i \in 1 .. 6 : bytes[i] \in 0 .. 255 => ByteAt(head, 8 * (i - 1) + 1) = bytes[i]
    <2> SUFFICES ASSUME NEW i \in 1 .. 6, bytes[i] \in 0 .. 255
                 PROVE  ByteAt(head, 8 * (i - 1) + 1) = bytes[i]
      OBVIOUS
    <2>1. 6 \in Nat /\ 6 <= Len(bytes) /\ 8 * 6 = 48
      BY <1>13
    <2>2. ByteAt(SubSeq(BitsOf(bytes), 1, 8 * 6), 8 * (i - 1) + 1) = bytes[i]
      BY <1>12, <2>1, ByteWithin
    <2> QED BY <2>1, <2>2 DEF bits
  <1> HIDE DEF head
  <1>9. /\ ByteAt(head, 1) = 85 /\ ByteAt(head, 9) = 1
        /\ ByteAt(head, 17) = f.source /\ ByteAt(head, 25) = f.destination
        /\ ByteAt(head, 33) = m /\ ByteAt(head, 41) = 1
    <2>1. /\ bytes[1] \in 0 .. 255 /\ bytes[2] \in 0 .. 255 /\ bytes[3] \in 0 .. 255
          /\ bytes[4] \in 0 .. 255 /\ bytes[5] \in 0 .. 255 /\ bytes[6] \in 0 .. 255
      BY <1>1, <1>2
    <2>2. /\ 1 \in 1 .. 6 /\ 2 \in 1 .. 6 /\ 3 \in 1 .. 6 /\ 4 \in 1 .. 6 /\ 5 \in 1 .. 6
          /\ 6 \in 1 .. 6
          /\ 8 * (1 - 1) + 1 = 1 /\ 8 * (2 - 1) + 1 = 9 /\ 8 * (3 - 1) + 1 = 17
          /\ 8 * (4 - 1) + 1 = 25 /\ 8 * (5 - 1) + 1 = 33 /\ 8 * (6 - 1) + 1 = 41
      OBVIOUS
    <2>3. /\ ByteAt(head, 8 * (1 - 1) + 1) = bytes[1]
          /\ ByteAt(head, 8 * (2 - 1) + 1) = bytes[2]
          /\ ByteAt(head, 8 * (3 - 1) + 1) = bytes[3]
          /\ ByteAt(head, 8 * (4 - 1) + 1) = bytes[4]
          /\ ByteAt(head, 8 * (5 - 1) + 1) = bytes[5]
          /\ ByteAt(head, 8 * (6 - 1) + 1) = bytes[6]
      BY <1>8, <2>1, <2>2
    <2> QED BY <1>1, <2>2, <2>3
  <1>10. HeaderOf(element) = [preamble |-> 85, version |-> 1, source |-> f.source,
                              destination |-> f.destination, length |-> m, crcFlag |-> 1]
    BY <1>7, <1>9 DEF HeaderOf, HeaderBits
  <1> QED BY <1>6, <1>10 DEF HeaderClean, HeaderBits, m

\* An element that holds the half-bits of a frame, and one or two more, is taken by
\* network_rx_queue_push and accepted by network_rx as the frame that was sent.
LEMMA FrameDelivered ==
    ASSUME NEW f \in Frames, NEW element,
           \A h \in 1 .. 2 * Len(BitsOf(FrameBytes(f))) :
               element[h] = Encode(BitsOf(FrameBytes(f)))[h],
           Len(element) \in {2 * Len(BitsOf(FrameBytes(f))) + 1,
                             2 * Len(BitsOf(FrameBytes(f))) + 2}
    PROVE  /\ Bytes(element) >= 14 /\ Accepts(element)
           /\ Accepted(element) = [source |-> f.source, destination |-> f.destination,
                                   message |-> BitsOf(f.message)]
  <1> DEFINE bytes == FrameBytes(f)
             bits == BitsOf(bytes)
             m == Len(f.message)
             crc == Crc8(BitsOf(f.message), 0)
             header == HeaderOf(element)
  <1>1. /\ m \in 1 .. 255 /\ f.message \in Seq(Int) /\ crc \in 0 .. 255
        /\ bytes \in Seq(Int) /\ Len(bytes) = 7 + m
        /\ bytes[1] = 85 /\ bytes[2] = 1 /\ bytes[3] = f.source /\ bytes[4] = f.destination
        /\ bytes[5] = m /\ bytes[6] = 1
        /\ \A i \in 1 .. m : bytes[6 + i] = f.message[i]
        /\ bytes[7 + m] = crc
    BY FrameBytesAre DEF Preamble, Version, CrcOn
  <1>2. f.source \in 0 .. 255 /\ f.destination \in 0 .. 255
    BY LinkAssumption
  <1>3. bits \in Seq(Bit) /\ Len(bits) = 8 * (7 + m)
    BY FrameOnLine
  <1>4. /\ \A h \in 1 .. 2 * Len(bits) : element[h] = Encode(bits)[h]
        /\ Len(element) \in {2 * Len(bits) + 1, 2 * Len(bits) + 2}
    OBVIOUS
  <1> HIDE DEF bytes, bits, m, crc
  <1>5. m \in Nat /\ m >= 1
    BY <1>1
  <1>6. bytes \in Seq(Int) /\ Len(bytes) = 7 + m
    BY <1>1
  <1>7. Bytes(element) = 2 * (7 + m)
    <2>1. Len(element) = 16 * (7 + m) + 1 \/ Len(element) = 16 * (7 + m) + 2
      BY <1>3, <1>4, <1>5
    <2> QED BY <1>5, <2>1 DEF Bytes
  <1>8. \A from, n \in Nat : from + n <= 8 * (7 + m) =>
            /\ Clean(element, from, n)
            /\ Decode(element, from, n) = SubSeq(bits, from + 1, from + n)
    BY <1>3, <1>4, DecodeWhole
  <1>9. Begins(element, f, 96)
    <2>1. \A h \in 1 .. 96 : h \in 1 .. 2 * Len(bits)
      BY <1>3, <1>5
    <2> QED BY <1>3, <1>4, <2>1, FrameOnLine DEF Begins, bits, bytes
  <1>10. /\ HeaderClean(element)
         /\ header = [preamble |-> 85, version |-> 1, source |-> f.source,
                      destination |-> f.destination, length |-> m, crcFlag |-> 1]
    BY <1>9, HeaderSent DEF m
  <1> HIDE DEF header
  <1>11. /\ header.preamble = 85 /\ header.version = 1 /\ header.source = f.source
         /\ header.destination = f.destination /\ header.length = m /\ header.crcFlag = 1
    BY <1>10
  <1>12. HeaderValid(element, header)
    <2>1. 6 + m + 1 = Bytes(element) \div 2
      BY <1>7, <1>5
    <2> QED BY <1>11, <2>1 DEF HeaderValid, Preamble, Version
  <1>13. MessageOf(element, header) = BitsOf(f.message)
    <2>1. 48 \in Nat /\ 8 * m \in Nat /\ 48 + 8 * m <= 8 * (7 + m)
      BY <1>1
    <2>2. Decode(element, 48, 8 * m) = SubSeq(bits, 48 + 1, 48 + 8 * m)
      BY <1>8, <2>1
    <2>3. 6 \in Nat /\ 6 + Len(f.message) <= Len(bytes) /\ 8 * 6 = 48 /\ Len(f.message) = m
      BY <1>1 DEF m
    <2>4. SubSeq(BitsOf(bytes), 8 * 6 + 1, 8 * 6 + 8 * Len(f.message)) = BitsOf(f.message)
      <3>1. /\ f.message \in Seq(Int)
            /\ \A i \in 1 .. Len(f.message) : bytes[6 + i] = f.message[i]
        BY <1>1, <2>3
      <3> QED BY <1>6, <2>3, <3>1, BitsWithin
    <2>5. SubSeq(bits, 48 + 1, 48 + 8 * m) = BitsOf(f.message)
      BY <2>3, <2>4 DEF bits
    <2> QED BY <1>11, <2>2, <2>5 DEF MessageOf, HeaderBits
  <1>14. TrailerOf(element, header) = BitsOf(<<crc>>)
    <2>1. 48 + 8 * m \in Nat /\ 8 \in Nat /\ (48 + 8 * m) + 8 <= 8 * (7 + m)
      BY <1>1
    <2>2. Decode(element, 48 + 8 * m, 8)
              = SubSeq(bits, (48 + 8 * m) + 1, (48 + 8 * m) + 8)
      BY <1>8, <2>1
    <2> DEFINE part == <<crc>>
    <2>3. part \in Seq(Int) /\ Len(part) = 1 /\ part[1] = crc
      BY <1>1
    <2> HIDE DEF part
    <2>4. /\ 6 + m \in Nat /\ (6 + m) + Len(part) <= Len(bytes)
          /\ \A i \in 1 .. Len(part) : bytes[(6 + m) + i] = part[i]
      <3>1. (6 + m) + 1 = 7 + m /\ \A i \in 1 .. 1 : i = 1
        BY <1>5
      <3>2. bytes[(6 + m) + 1] = part[1]
        BY <1>1, <2>3, <3>1
      <3> QED BY <1>1, <2>3, <3>1, <3>2
    <2>5. SubSeq(BitsOf(bytes), 8 * (6 + m) + 1, 8 * (6 + m) + 8 * Len(part)) = BitsOf(part)
      BY <1>1, <2>3, <2>4, BitsWithin
    <2>6. 8 * (6 + m) = 48 + 8 * m /\ 8 * Len(part) = 8
      BY <1>1, <2>3
    <2>7. SubSeq(bits, (48 + 8 * m) + 1, (48 + 8 * m) + 8) = BitsOf(part)
      BY <2>5, <2>6 DEF bits
    <2> QED BY <1>11, <2>2, <2>7 DEF TrailerOf, HeaderBits, TrailerBits, part
  <1>15. CrcHolds(element, header)
    <2>1. Crc8(BitsOf(<<crc>>), crc) = 0
      BY <1>1, CrcOfItself
    <2>2. Crc8(TrailerOf(element, header), Crc8(MessageOf(element, header), 0)) = 0
      BY <1>13, <1>14, <2>1 DEF crc
    <2> QED BY <1>11, <2>2 DEF CrcHolds, CrcOn
  <1>16. Accepts(element)
    BY <1>10, <1>12, <1>15 DEF Accepts, header
  <1>17. Accepted(element) = [source |-> f.source, destination |-> f.destination,
                              message |-> BitsOf(f.message)]
    BY <1>11, <1>13 DEF Accepted, header
  <1>18. Bytes(element) >= 14
    BY <1>7, <1>5
  <1> QED BY <1>16, <1>17, <1>18

\* A frame to which nothing has happened is received as it was sent, and then there
\* is nothing left of it.
LEMMA WholeReceived ==
    ASSUME NEW f \in Frames,
           NEW e \in 1 .. Len(EncodedFrame(f)) + 3, FirstEdge(EncodedFrame(f) \o Idle, 0, e),
           NEW k \in e .. Len(EncodedFrame(f)) + 1, FirstStill(EncodedFrame(f) \o Idle, e, k)
    PROVE  LET element == Element(EncodedFrame(f) \o Idle, e, k) IN
           /\ (EncodedFrame(f) \o Idle)[k] = 1 /\ k + 2 > Len(EncodedFrame(f))
           /\ Bytes(element) >= 14 /\ Accepts(element)
           /\ Accepted(element) = [source |-> f.source, destination |-> f.destination,
                                   message |-> BitsOf(f.message)]
  <1> DEFINE bits == BitsOf(FrameBytes(f))
             line == EncodedFrame(f) \o Idle
             element == Element(line, e, k)
  <1>1. /\ bits \in Seq(Bit) /\ Len(bits) = 8 * (7 + Len(f.message))
        /\ EncodedFrame(f) = Encode(bits)
    BY FrameOnLine
  <1>2. Len(f.message) \in 1 .. 255
    BY FrameBytesAre
  <1>3. Len(bits) >= 1 /\ 2 * Len(bits) < Capacity /\ Len(bits) \in Nat
    <2> DEFINE m == Len(f.message)
    <2>1. m \in 1 .. 255 /\ Len(bits) = 8 * (7 + m)
      BY <1>1, <1>2
    <2> HIDE DEF m, bits
    <2> QED BY <2>1 DEF Capacity
  <1>4. bits[1] = 0
    <2>1. EncodedFrame(f)[2] = 0
      BY EncodedHead
    <2>2. 1 \in 1 .. Len(bits) /\ 2 * 1 = 2 /\ Len(bits) \in Nat
      BY <1>1, <1>3
    <2>3. Encode(bits)[2 * 1] = bits[1]
      BY <2>2, HalvesOf
    <2> QED BY <1>1, <2>1, <2>2, <2>3
  <1>5. Len(EncodedFrame(f)) = 2 * Len(bits) /\ line = Encode(bits) \o Idle
    BY <1>1, EncodeIs
  <1>6. /\ e \in 1 .. 2 * Len(bits) + 3 /\ FirstEdge(Encode(bits) \o Idle, 0, e)
        /\ k \in e .. 2 * Len(bits) + 1 /\ FirstStill(Encode(bits) \o Idle, e, k)
    BY <1>5
  <1> HIDE DEF bits
  <1>7. /\ (Encode(bits) \o Idle)[k] = 1
        /\ k \in {2 * Len(bits), 2 * Len(bits) + 1}
        /\ Len(Element(Encode(bits) \o Idle, e, k)) \in {2 * Len(bits) + 1, 2 * Len(bits) + 2}
        /\ \A h \in 1 .. 2 * Len(bits) :
              Element(Encode(bits) \o Idle, e, k)[h] = Encode(bits)[h]
    BY <1>1, <1>3, <1>4, <1>6, WholeElement
  <1>8. line[k] = 1 /\ k + 2 > Len(EncodedFrame(f))
    BY <1>3, <1>5, <1>7
  <1>9. /\ Len(element) \in {2 * Len(bits) + 1, 2 * Len(bits) + 2}
        /\ \A h \in 1 .. 2 * Len(bits) : element[h] = Encode(bits)[h]
    BY <1>5, <1>7
  <1> HIDE DEF element
  <1>10. /\ Bytes(element) >= 14 /\ Accepts(element)
         /\ Accepted(element) = [source |-> f.source, destination |-> f.destination,
                                 message |-> BitsOf(f.message)]
    BY <1>9, FrameDelivered DEF bits
  <1> QED BY <1>8, <1>10 DEF line, element

-----------------------------------------------------------------------------
(* Types.                                                                  *)

\* A set of naturals that is not empty has a least element.
LEMMA LeastOf ==
    ASSUME NEW S, S \subseteq Nat, S # {}
    PROVE  \E x \in S : \A y \in S : x <= y
  <1> DEFINE R == OpToRel(<, Nat)
  <1>1. \A i, j \in Nat : i < j => <<i, j>> \in R
    BY DEF OpToRel
  <1>2. IsWellFoundedOn(R, Nat)
    BY NatLessThanWellFounded
  <1> HIDE DEF R
  <1>3. PICK x \in S : \A y \in S : ~ (<<y, x>> \in R)
    BY <1>2, WFMin
  <1>4. \A y \in S : ~ (y < x)
    BY <1>1, <1>3
  <1> QED BY <1>4

\* What is accepted of half-bits has addresses and a length of a byte.
LEMMA AcceptedIs ==
    ASSUME NEW element \in Seq(Bit), Bytes(element) >= 14, Accepts(element)
    PROVE  /\ Accepted(element).source \in 0 .. 255
           /\ Accepted(element).destination \in 0 .. 255
           /\ Len(Accepted(element).message) \in {8 * n : n \in 0 .. 255}
  <1> DEFINE bits == Decode(element, 0, 48)
             header == HeaderOf(element)
  <1>1. Len(element) \in Nat /\ Len(element) >= 96
    <2>1. Len(element) \in Nat /\ Len(element) \div 8 >= 14
      BY DEF Bytes
    <2> QED BY <2>1
  <1>2. Clean(element, 0, 48)
    BY DEF Accepts, HeaderClean, HeaderBits
  <1>3. bits = [k \in 1 .. 48 |-> element[2 * (0 + k)]]
    <2>1. 0 \in Nat /\ 48 \in Nat
      OBVIOUS
    <2>2. \A from, n \in Nat : Clean(element, from, n) =>
              Decode(element, from, n) = [k \in 1 .. n |-> element[2 * (from + k)]]
      BY DecodeClean
    <2> QED BY <1>2, <2>1, <2>2
  <1>4. \A k \in 1 .. 48 : bits[k] \in Bit
    <2>1. \A k \in 1 .. 48 : 2 * (0 + k) \in 1 .. Len(element)
      BY <1>1
    <2>2. \A h \in 1 .. Len(element) : element[h] \in Bit
      OBVIOUS
    <2> QED BY <1>3, <2>1, <2>2
  <1> HIDE DEF bits
  <1>5. \A k \in 1 .. 41 : ByteAt(bits, k) \in 0 .. 255
    <2> SUFFICES ASSUME NEW k \in 1 .. 41
                 PROVE  ByteAt(bits, k) \in 0 .. 255
      OBVIOUS
    <2>1. k \in Nat /\ \A j \in 0 .. 7 : k + j \in 1 .. 48
      OBVIOUS
    <2>2. \A j \in 0 .. 7 : bits[k + j] \in Bit
      BY <1>4, <2>1
    <2> QED BY <2>1, <2>2, ByteAtByte
  <1>6. /\ header.source = ByteAt(bits, 17) /\ header.destination = ByteAt(bits, 25)
        /\ header.length = ByteAt(bits, 33)
    BY DEF HeaderOf, HeaderBits, bits
  <1>7. 17 \in 1 .. 41 /\ 25 \in 1 .. 41 /\ 33 \in 1 .. 41
    OBVIOUS
  <1>8. /\ header.source \in 0 .. 255 /\ header.destination \in 0 .. 255
        /\ header.length \in 0 .. 255
    BY <1>5, <1>6, <1>7
  <1> HIDE DEF header
  <1>9. Len(MessageOf(element, header)) = 8 * header.length
    <2>1. 8 * header.length \in Nat
      <3>1. \A n \in 0 .. 255 : 8 * n \in Nat
        OBVIOUS
      <3> QED BY <1>8, <3>1
    <2>2. PICK g : MessageOf(element, header) = [k \in 1 .. 8 * header.length |-> g[k]]
      <3> DEFINE d == Decode(element, 48, 8 * header.length)
      <3>1. MessageOf(element, header) = d
        BY DEF MessageOf, HeaderBits
      <3>2. d = [k \in 1 .. 8 * header.length |-> d[k]]
        BY DEF Decode
      <3> HIDE DEF d
      <3> QED BY <3>1, <3>2
    <2> QED BY <2>1, <2>2
  <1>10. Accepted(element) = [source |-> header.source, destination |-> header.destination,
                              message |-> MessageOf(element, header)]
    BY DEF Accepted, header
  <1>11. 8 * header.length \in {8 * n : n \in 0 .. 255}
    BY <1>8, Zenon
  <1>12. /\ Accepted(element).source = header.source
         /\ Accepted(element).destination = header.destination
         /\ Accepted(element).message = MessageOf(element, header)
    BY <1>10
  <1> QED BY <1>8, <1>9, <1>11, <1>12, Zenon

-----------------------------------------------------------------------------
(* What the line carries, and what main is given.                          *)

\* What main is given are frames of bytes.
DeliveredOK ==
    /\ \E S : delivered \in Seq(S)
    /\ heard = 0 => delivered = << >>
    /\ \A d \in Deliveries : /\ d.frame.source \in 0 .. 255
                             /\ d.frame.destination \in 0 .. 255
                             /\ Len(d.frame.message) \in {8 * n : n \in 0 .. 255}

LineOK == /\ sent \in Frames /\ others \subseteq Frames /\ IsFiniteSet(others)
          /\ flips \in Nat /\ shifts \in Nat /\ Faulted <= MaxFaults[sent]
          /\ halves \in Seq(Bit) /\ heard \in 0 .. Len(halves) + 3

\* The line carries the frame as it was sent until something happens to it, and
\* then the receiver takes it in one.
Untouched == Faulted = 0 => /\ halves = EncodedFrame(sent)
                            /\ heard > 0 => heard > Len(halves)

LinkInv == LineOK /\ DeliveredOK /\ Untouched /\ DeliveredWhole

\* The invariant says what TypeOK does.
LEMMA InvTypeOK == LinkInv => TypeOK
  <1> SUFFICES ASSUME LinkInv
               PROVE  TypeOK
    OBVIOUS
  <1>1. sent \in Frames /\ others \subseteq Frames /\ flips >= 0 /\ shifts >= 0
    BY DEF LinkInv, LineOK
  <1>2. Faulted \in 0 .. MaxFaults[sent]
    <2>1. /\ Cardinality(others) \in Nat /\ flips \in Nat /\ shifts \in Nat
          /\ Faulted <= MaxFaults[sent]
      BY FS_CardinalityType DEF LinkInv, LineOK
    <2>2. MaxFaults[sent] \in Nat
      BY <1>1, LinkAssumption
    <2> QED BY <2>1, <2>2 DEF Faulted
  <1>3. \A k \in 1 .. Len(halves) : halves[k] \in Bit
    BY DEF LinkInv, LineOK
  <1>4. heard \in 0 .. Len(Line)
    <2>1. halves \in Seq(Bit) /\ heard \in 0 .. Len(halves) + 3
      BY DEF LinkInv, LineOK
    <2>2. Len(Line) = Len(halves) + 3
      BY <2>1, IdleAfter DEF Line
    <2> QED BY <2>1, <2>2
  <1> QED BY <1>1, <1>2, <1>3, <1>4 DEF TypeOK, LinkInv, DeliveredOK

\* The invariant holds when the frame is put on the line.
LEMMA InitLink == Init => LinkInv
  <1> SUFFICES ASSUME Init
               PROVE  LinkInv
    OBVIOUS
  <1>1. /\ sent \in Frames /\ halves = EncodedFrame(sent) /\ others = {}
        /\ flips = 0 /\ shifts = 0 /\ heard = 0 /\ delivered = << >>
    BY DEF Init
  <1>2. IsFiniteSet(others) /\ Cardinality(others) = 0
    BY <1>1, FS_EmptySet
  <1>3. Faulted = 0
    BY <1>1, <1>2 DEF Faulted
  <1>4. LineOK
    <2>1. halves \in Seq(Bit)
      BY <1>1, FrameOnLine
    <2>2. MaxFaults[sent] \in Nat
      BY <1>1, LinkAssumption
    <2>3. 0 \in 0 .. Len(halves) + 3
      BY <2>1
    <2> QED BY <1>1, <1>2, <1>3, <2>1, <2>2, <2>3 DEF LineOK
  <1>5. DeliveredOK /\ DeliveredWhole
    <2>1. delivered \in Seq(Bit) /\ Deliveries = {}
      BY <1>1 DEF Deliveries
    <2> QED BY <1>1, <2>1 DEF DeliveredOK, DeliveredWhole
  <1> QED BY <1>1, <1>4, <1>5 DEF LinkInv, Untouched

\* What the steps that damage the line have in common.
LEMMA DamagedLink ==
    ASSUME LinkInv, UNCHANGED <<sent, heard, delivered>>, OnTheLine, Faulted < MaxFaults[sent],
           IsFiniteSet(others'), others' \subseteq Frames, flips' \in Nat, shifts' \in Nat,
           Cardinality(others') + flips' + shifts' = Faulted + 1, halves' \in Seq(Bit)
    PROVE  LinkInv'
  <1>1. Faulted \in Nat /\ MaxFaults[sent] \in Nat
    <2>1. Cardinality(others) \in Nat /\ flips \in Nat /\ shifts \in Nat /\ sent \in Frames
      BY FS_CardinalityType DEF LinkInv, LineOK
    <2>2. MaxFaults[sent] \in Nat
      BY <2>1, LinkAssumption
    <2> QED BY <2>1, <2>2 DEF Faulted
  <1>2. Faulted' = Faulted + 1
    BY DEF Faulted
  <1>3. Faulted' <= MaxFaults[sent] /\ Faulted' # 0
    BY <1>1, <1>2
  <1>4. heard' \in 0 .. Len(halves') + 3
    <2>1. heard' = 0
      BY DEF OnTheLine
    <2>2. Len(halves') \in Nat
      OBVIOUS
    <2> QED BY <2>1, <2>2
  <1>5. LineOK'
    BY <1>3, <1>4 DEF LinkInv, LineOK
  <1>6. DeliveredOK'
    BY DEF LinkInv, DeliveredOK, Deliveries
  <1>7. DeliveredWhole'
    BY <1>3 DEF DeliveredWhole
  <1> QED BY <1>3, <1>5, <1>6, <1>7 DEF LinkInv, Untouched

\* It holds after another frame has overlapped.
LEMMA OverlapLink ==
    ASSUME LinkInv, Overlap
    PROVE  LinkInv'
  <1>1. PICK f \in Frames \ others :
            others' = others \cup {f} /\ halves' = WiredAnd(halves, EncodedFrame(f))
    BY DEF Overlap
  <1>2. /\ UNCHANGED <<sent, flips, shifts, heard, delivered>> /\ OnTheLine
        /\ Faulted < MaxFaults[sent]
    BY DEF Overlap, faults, received
  <1>3. /\ IsFiniteSet(others) /\ others \subseteq Frames /\ flips \in Nat /\ shifts \in Nat
        /\ halves \in Seq(Bit)
    BY DEF LinkInv, LineOK
  <1>4. /\ IsFiniteSet(others') /\ Cardinality(others') = Cardinality(others) + 1
        /\ Cardinality(others) \in Nat
    <2>1. IsFiniteSet(others \cup {f}) /\ Cardinality(others \cup {f}) = Cardinality(others) + 1
      BY <1>3, FS_AddElement
    <2> QED BY <1>1, <1>3, <2>1, FS_CardinalityType
  <1>5. Cardinality(others') + flips' + shifts' = Faulted + 1
    BY <1>2, <1>3, <1>4 DEF Faulted
  <1>6. halves' \in Seq(Bit)
    <2> DEFINE a == halves
               b == EncodedFrame(f)
               n == IF Len(a) > Len(b) THEN Len(a) ELSE Len(b)
    <2>1. b \in Seq(Bit)
      BY FrameOnLine
    <2>2. n \in Nat
      BY <1>3, <2>1
    <2>3. halves' = [k \in 1 .. n |->
              IF LevelAt(a, k) = 1 /\ LevelAt(b, k) = 1 THEN 1 ELSE 0]
      BY <1>1 DEF WiredAnd
    <2> HIDE DEF n
    <2> QED BY <2>2, <2>3 DEF Bit
  <1>7. others' \subseteq Frames
    BY <1>1, <1>3
  <1> QED BY <1>2, <1>3, <1>4, <1>5, <1>6, <1>7, DamagedLink

\* It holds after noise, and after an interrupt too many or too few.
LEMMA NoiseLink ==
    ASSUME LinkInv, FlipHalfBit \/ FlipBit \/ LoseHalfBit \/ DoubleHalfBit
    PROVE  LinkInv'
  <1>1. /\ IsFiniteSet(others) /\ others \subseteq Frames /\ flips \in Nat /\ shifts \in Nat
        /\ halves \in Seq(Bit)
    BY DEF LinkInv, LineOK
  <1>2. /\ UNCHANGED <<sent, others, heard, delivered>> /\ OnTheLine /\ Faulted < MaxFaults[sent]
        /\ \/ flips' = flips + 1 /\ shifts' = shifts
           \/ flips' = flips /\ shifts' = shifts + 1
    BY DEF FlipHalfBit, FlipBit, LoseHalfBit, DoubleHalfBit, Flip, Shift, Damage,
           received
  <1>3. /\ flips' \in Nat /\ shifts' \in Nat
        /\ Cardinality(others') + flips' + shifts' = Faulted + 1
    <2>1. Cardinality(others) \in Nat
      BY <1>1, FS_CardinalityType
    <2> QED BY <1>1, <1>2, <2>1 DEF Faulted
  <1>4. Len(halves) \in Nat /\ \A k \in 1 .. Len(halves) : halves[k] \in Bit /\ 1 - halves[k] \in Bit
    BY <1>1 DEF Bit
  <1>5. halves' \in Seq(Bit)
    <2>1. CASE FlipHalfBit
      <3>1. PICK k \in 1 .. Len(halves) : halves' = [halves EXCEPT ![k] = 1 - @]
        BY <2>1 DEF FlipHalfBit, Flip, Damage
      <3> QED BY <1>1, <1>4, <3>1
    <2>2. CASE FlipBit
      <3>1. PICK k \in 1 .. Len(halves) \div 2 :
                halves' = [halves EXCEPT ![2 * k - 1] = 1 - @, ![2 * k] = 1 - @]
        BY <2>2 DEF FlipBit, Flip, Damage
      <3>2. 2 * k - 1 \in 1 .. Len(halves) /\ 2 * k \in 1 .. Len(halves) /\ 2 * k # 2 * k - 1
        BY <1>4
      <3>3. halves = [h \in 1 .. Len(halves) |-> halves[h]]
        BY <1>1
      <3>4. halves' = [h \in 1 .. Len(halves) |->
                          IF h \in {2 * k - 1, 2 * k} THEN 1 - halves[h] ELSE halves[h]]
        BY <3>1, <3>2, <3>3
      <3> QED BY <1>4, <3>4
    <2>3. CASE LoseHalfBit
      <3>1. PICK k \in 1 .. Len(halves) :
                halves' = SubSeq(halves, 1, k - 1) \o SubSeq(halves, k + 1, Len(halves))
        BY <2>3 DEF LoseHalfBit, Shift, Damage
      <3>2. /\ \A h \in 1 .. k - 1 : h \in 1 .. Len(halves)
            /\ \A h \in k + 1 .. Len(halves) : h \in 1 .. Len(halves)
        BY <1>4
      <3>3. SubSeq(halves, 1, k - 1) \in Seq(Bit)
        BY <1>4, <3>2, SubSeqProperties
      <3>4. SubSeq(halves, k + 1, Len(halves)) \in Seq(Bit)
        BY <1>4, <3>2, SubSeqProperties
      <3> QED BY <3>1, <3>3, <3>4, ConcatProperties
    <2>4. CASE DoubleHalfBit
      <3>1. PICK k \in 1 .. Len(halves) :
                halves' = SubSeq(halves, 1, k) \o SubSeq(halves, k, Len(halves))
        BY <2>4 DEF DoubleHalfBit, Shift, Damage
      <3>2. /\ \A h \in 1 .. k : h \in 1 .. Len(halves)
            /\ \A h \in k .. Len(halves) : h \in 1 .. Len(halves)
        BY <1>4
      <3>3. SubSeq(halves, 1, k) \in Seq(Bit)
        BY <1>4, <3>2, SubSeqProperties
      <3>4. SubSeq(halves, k, Len(halves)) \in Seq(Bit)
        BY <1>4, <3>2, SubSeqProperties
      <3> QED BY <3>1, <3>3, <3>4, ConcatProperties
    <2> QED BY <2>1, <2>2, <2>3, <2>4
  <1>6. IsFiniteSet(others') /\ others' \subseteq Frames
    BY <1>1, <1>2
  <1> QED BY <1>2, <1>3, <1>5, <1>6, DamagedLink

\* What network_rx returns of an element.
Report(element, tail) ==
    [frame |-> Accepted(element), blind |-> Blind(element), tail |-> tail]

Takes(element) == Bytes(element) >= 14 /\ Accepts(element)

\* The receiver takes the element from e to three equal half-bits at k.
Received(e, k) ==
    /\ e \in heard + 1 .. Len(halves) + 3 /\ k \in e .. Len(halves) + 1
    /\ FirstEdge(Line, heard, e) /\ FirstStill(Line, e, k) /\ heard' = k + 2
    /\ \/ delivered' = delivered
       \/ /\ Line[k] = 1 /\ Takes(Element(Line, e, k))
          /\ delivered' = delivered \o << Report(Element(Line, e, k), heard # 0) >>
    /\ Line[k] = 1 /\ Takes(Element(Line, e, k)) =>
          delivered' = delivered \o << Report(Element(Line, e, k), heard # 0) >>

\* A step of the receiver takes an element.
LEMMA ReceiveIs ==
    ASSUME halves \in Seq(Bit), DeliveredOK, Receive
    PROVE  \E e, k : Received(e, k)
  <1>1. Len(Line) = Len(halves) + 3 /\ Len(halves) \in Nat
    BY IdleAfter DEF Line
  <1>2. PICK e, k :
            /\ e \in heard + 1 .. Len(Line) /\ k \in e .. Len(Line) - 2
            /\ FirstEdge(Line, heard, e) /\ FirstStill(Line, e, k) /\ heard' = k + 2
            /\ delivered' = IF Line[k] = 1
                            THEN delivered \o Outcome(Element(Line, e, k), heard # 0)
                            ELSE delivered
    BY DEF Receive
  <1> DEFINE element == Element(Line, e, k)
  <1>3. e \in heard + 1 .. Len(halves) + 3 /\ k \in e .. Len(halves) + 1
    BY <1>1, <1>2
  <1>4. delivered \o << >> = delivered
    BY ConcatEmptySeq DEF DeliveredOK
  <1> HIDE DEF element
  <1>5. \/ Line[k] = 1 /\ delivered' = delivered \o Outcome(element, heard # 0)
        \/ Line[k] # 1 /\ delivered' = delivered
    BY <1>2 DEF element
  <1>6. CASE Takes(element)
    <2>1. Outcome(element, heard # 0) = << Report(element, heard # 0) >>
      BY <1>6 DEF Outcome, Takes, Report
    <2> QED BY <1>2, <1>3, <1>5, <1>6, <2>1 DEF Received, element
  <1>7. CASE ~Takes(element)
    <2>1. Outcome(element, heard # 0) = << >>
      BY <1>7 DEF Outcome, Takes
    <2>2. delivered' = delivered
      BY <1>4, <1>5, <2>1
    <2> QED BY <1>2, <1>3, <1>7, <2>2 DEF Received, element
  <1> QED BY <1>6, <1>7

\* The step leaves the rest alone, and gets on.
LEMMA GetsOn ==
    ASSUME LineOK, Receive, NEW e, NEW k, Received(e, k)
    PROVE  /\ UNCHANGED <<sent, halves, others, flips, shifts>>
           /\ Faulted' = Faulted
           /\ heard' \in 1 .. Len(halves) + 3 /\ heard' > heard /\ heard' # 0
           /\ Line \in Seq(Bit) /\ Len(Line) = Len(halves) + 3
           /\ e \in 1 .. Len(Line) /\ k \in e .. Len(Line) - 2
           /\ Element(Line, e, k) \in Seq(Bit)
  <1>1. UNCHANGED <<sent, halves, others, flips, shifts>>
    BY DEF Receive, faults
  <1>2. Faulted' = Faulted
    BY <1>1 DEF Faulted
  <1>3. /\ halves \in Seq(Bit) /\ Len(halves) \in Nat /\ heard \in 0 .. Len(halves) + 3
    BY DEF LineOK
  <1>4. Line \in Seq(Bit) /\ Len(Line) = Len(halves) + 3
    BY <1>3, IdleAfter DEF Line
  <1>5. /\ e \in heard + 1 .. Len(halves) + 3 /\ k \in e .. Len(halves) + 1 /\ heard' = k + 2
    BY DEF Received
  <1>6. /\ heard' \in 1 .. Len(halves) + 3 /\ heard' > heard /\ heard' # 0
        /\ e \in 1 .. Len(Line) /\ k \in e .. Len(Line) - 2
    BY <1>3, <1>4, <1>5
  <1>7. Element(Line, e, k) \in Seq(Bit)
    BY <1>4, <1>6, ElementIs
  <1> QED BY <1>1, <1>2, <1>4, <1>6, <1>7

Members(q) == {q[i] : i \in 1 .. Len(q)}

\* One more delivery.
LEMMA OneMore ==
    ASSUME NEW S, NEW q \in Seq(S), NEW d
    PROVE  /\ q \o << d >> \in Seq(S \cup {d}) /\ Len(q \o << d >>) = Len(q) + 1
           /\ Members(q \o << d >>) = Members(q) \cup {d}
  <1> DEFINE r == q \o << d >>
             T == S \cup {d}
             one == << d >>
  <1>1. q \in Seq(T) /\ Len(q) \in Nat
    <2>1. S \subseteq T
      OBVIOUS
    <2> QED BY <2>1, SeqMonotonic
  <1>2. one \in Seq(T) /\ Len(one) = 1 /\ one[1] = d
    OBVIOUS
  <1> HIDE DEF T, one, r
  <1>3. /\ r \in Seq(T) /\ Len(r) = Len(q) + 1
        /\ \A i \in 1 .. Len(q) + 1 : r[i] = IF i <= Len(q) THEN q[i] ELSE one[i - Len(q)]
    <2>1. r = q \o one
      BY DEF one, r
    <2>2. /\ q \o one \in Seq(T) /\ Len(q \o one) = Len(q) + Len(one)
          /\ \A i \in 1 .. Len(q) + Len(one) :
                (q \o one)[i] = IF i <= Len(q) THEN q[i] ELSE one[i - Len(q)]
      BY <1>1, <1>2, ConcatProperties
    <2> QED BY <1>2, <2>1, <2>2
  <1>4. \A i \in 1 .. Len(q) : r[i] = q[i]
    BY <1>1, <1>3
  <1>5. r[Len(q) + 1] = d
    <2>1. Len(q) + 1 \in 1 .. Len(q) + 1 /\ ~(Len(q) + 1 <= Len(q)) /\ (Len(q) + 1) - Len(q) = 1
      BY <1>1
    <2> QED BY <1>2, <1>3, <2>1
  <1>6. \A i : i \in 1 .. Len(q) + 1 <=> i \in 1 .. Len(q) \/ i = Len(q) + 1
    BY <1>1
  <1>7. Members(r) = Members(q) \cup {d}
    BY <1>3, <1>4, <1>5, <1>6 DEF Members
  <1> QED BY <1>3, <1>7 DEF T, r

\* What has been delivered after the step.
LEMMA DeliveredNow ==
    ASSUME DeliveredOK, NEW e, NEW k, Received(e, k)
    PROVE  /\ \E S : delivered' \in Seq(S)
           /\ \A d \in Deliveries' :
                 \/ d \in Deliveries
                 \/ /\ Line[k] = 1 /\ Takes(Element(Line, e, k))
                    /\ d = Report(Element(Line, e, k), heard # 0)
           /\ heard = 0 /\ Line[k] = 1 /\ Takes(Element(Line, e, k)) =>
                 /\ Len(delivered') = 1
                 /\ Deliveries' = {Report(Element(Line, e, k), FALSE)}
  <1> DEFINE d == Report(Element(Line, e, k), heard # 0)
  <1>1. PICK S : delivered \in Seq(S)
    BY DEF DeliveredOK
  <1>2. CASE delivered' = delivered \o << d >>
    <2> HIDE DEF d
    <2>1. /\ delivered' \in Seq(S \cup {d}) /\ Len(delivered') = Len(delivered) + 1
          /\ Members(delivered') = Members(delivered) \cup {d}
      <3>1. /\ delivered \o << d >> \in Seq(S \cup {d})
            /\ Len(delivered \o << d >>) = Len(delivered) + 1
            /\ Members(delivered \o << d >>) = Members(delivered) \cup {d}
        BY <1>1, OneMore
      <3> QED BY <1>2, <3>1, Zenon
    <2>2. Deliveries' = Deliveries \cup {d}
      BY <2>1 DEF Deliveries, Members
    <2>3. ASSUME heard = 0
          PROVE  /\ Len(delivered') = 1 /\ Deliveries' = {d}
                 /\ d = Report(Element(Line, e, k), FALSE)
      <3>1. delivered = << >>
        BY <2>3 DEF DeliveredOK
      <3>2. Len(delivered) = 0 /\ Deliveries = {}
        BY <3>1 DEF Deliveries
      <3>3. d = Report(Element(Line, e, k), FALSE)
        BY <2>3 DEF d
      <3> QED BY <2>1, <2>2, <3>2, <3>3
    <2>4. CASE Line[k] = 1 /\ Takes(Element(Line, e, k))
      BY <2>1, <2>2, <2>3, <2>4 DEF d
    <2>5. CASE ~(Line[k] = 1 /\ Takes(Element(Line, e, k)))
      <3>1. delivered' = delivered
        BY <2>5 DEF Received
      <3>2. Deliveries' = Deliveries
        BY <3>1 DEF Deliveries
      <3> QED BY <2>1, <2>5, <3>2
    <2> QED BY <2>4, <2>5
  <1>3. CASE delivered' # delivered \o << d >>
    <2>1. delivered' = delivered /\ ~(Line[k] = 1 /\ Takes(Element(Line, e, k)))
      BY <1>3 DEF Received
    <2>2. Deliveries' = Deliveries
      BY <2>1 DEF Deliveries
    <2> QED BY <1>1, <2>1, <2>2
  <1> QED BY <1>2, <1>3

\* It holds after the receiver has taken an element.
LEMMA ReceiveLink ==
    ASSUME LinkInv, Receive
    PROVE  LinkInv'
  <1>1. PICK e, k : Received(e, k)
    BY ReceiveIs DEF LinkInv, LineOK
  <1> DEFINE element == Element(Line, e, k)
  <1>2. /\ UNCHANGED <<sent, halves, others, flips, shifts>> /\ Faulted' = Faulted
        /\ heard' \in 1 .. Len(halves) + 3 /\ heard' > heard /\ heard' # 0
        /\ Line \in Seq(Bit) /\ element \in Seq(Bit)
    BY <1>1, GetsOn DEF LinkInv
  <1>3. LineOK'
    <2>1. heard' \in 0 .. Len(halves) + 3
      BY <1>2
    <2> QED BY <1>2, <2>1 DEF LinkInv, LineOK
  <1>4. /\ \E S : delivered' \in Seq(S)
        /\ \A d \in Deliveries' :
              \/ d \in Deliveries
              \/ Line[k] = 1 /\ Takes(element) /\ d = Report(element, heard # 0)
        /\ heard = 0 /\ Line[k] = 1 /\ Takes(element) =>
              Len(delivered') = 1 /\ Deliveries' = {Report(element, FALSE)}
    BY <1>1, DeliveredNow DEF LinkInv
  <1>5. ASSUME Faulted = 0
        PROVE  /\ heard = 0 /\ heard' > Len(halves)
               /\ Line[k] = 1 /\ Takes(element) /\ Accepted(element) = AsSent
    <2>1. /\ halves = EncodedFrame(sent) /\ halves \in Seq(Bit) /\ Len(halves) \in Nat
          /\ sent \in Frames /\ heard \in 0 .. Len(halves) + 3
          /\ heard > 0 => heard > Len(halves)
      BY <1>5 DEF LinkInv, Untouched, LineOK
    <2>2. /\ e \in heard + 1 .. Len(halves) + 3 /\ k \in e .. Len(halves) + 1
          /\ FirstEdge(halves \o Idle, heard, e) /\ FirstStill(halves \o Idle, e, k)
          /\ heard' = k + 2
      BY <1>1 DEF Received, Line
    <2>3. heard = 0
      <3> SUFFICES ASSUME heard # 0
                   PROVE  FALSE
        OBVIOUS
      <3>1. heard \in 1 .. Len(halves) + 3 /\ heard > Len(halves)
        BY <2>1
      <3> QED BY <2>1, <2>2, <3>1, NothingAfter
    <2>4. /\ e \in 1 .. Len(EncodedFrame(sent)) + 3 /\ k \in e .. Len(EncodedFrame(sent)) + 1
          /\ FirstEdge(EncodedFrame(sent) \o Idle, 0, e)
          /\ FirstStill(EncodedFrame(sent) \o Idle, e, k)
      BY <2>1, <2>2, <2>3
    <2>5. LET whole == Element(EncodedFrame(sent) \o Idle, e, k) IN
          /\ (EncodedFrame(sent) \o Idle)[k] = 1 /\ k + 2 > Len(EncodedFrame(sent))
          /\ Bytes(whole) >= 14 /\ Accepts(whole)
          /\ Accepted(whole) = [source |-> sent.source, destination |-> sent.destination,
                                message |-> BitsOf(sent.message)]
      BY <2>1, <2>4, WholeReceived
    <2>6. Line = EncodedFrame(sent) \o Idle
      BY <2>1 DEF Line
    <2> QED BY <2>1, <2>2, <2>3, <2>5, <2>6 DEF Takes, AsSent
  <1>6. Untouched'
    BY <1>2, <1>5 DEF LinkInv, Untouched
  <1> HIDE DEF element
  <1>7. DeliveredOK'
    <2> SUFFICES ASSUME NEW d \in Deliveries'
                 PROVE  /\ d.frame.source \in 0 .. 255
                        /\ d.frame.destination \in 0 .. 255
                        /\ Len(d.frame.message) \in {8 * n : n \in 0 .. 255}
      BY <1>2, <1>4, Zenon DEF DeliveredOK
    <2>1. CASE d \in Deliveries
      BY <2>1 DEF LinkInv, DeliveredOK
    <2>2. CASE Takes(element) /\ d = Report(element, heard # 0)
      <3>1. d.frame = Accepted(element)
        BY <2>2 DEF Report
      <3>2. /\ Accepted(element).source \in 0 .. 255
            /\ Accepted(element).destination \in 0 .. 255
            /\ Len(Accepted(element).message) \in {8 * n : n \in 0 .. 255}
        BY <1>2, <2>2, AcceptedIs DEF Takes
      <3> QED BY <3>1, <3>2
    <2> QED BY <1>4, <2>1, <2>2
  <1>8. DeliveredWhole'
    <2> SUFFICES ASSUME Faulted = 0
                 PROVE  Len(delivered') = 1 /\ \A d \in Deliveries' : d.frame = AsSent'
      BY <1>2 DEF DeliveredWhole
    <2>1. /\ Len(delivered') = 1 /\ Deliveries' = {Report(element, FALSE)}
          /\ Accepted(element) = AsSent
      BY <1>4, <1>5 DEF element
    <2>2. Report(element, FALSE).frame = Accepted(element)
      BY DEF Report
    <2>3. AsSent' = AsSent
      BY <1>2 DEF AsSent
    <2> QED BY <2>1, <2>2, <2>3
  <1> QED BY <1>3, <1>6, <1>7, <1>8 DEF LinkInv

\* Every step keeps the invariant.
LEMMA NextLink ==
    ASSUME LinkInv, [Next]_vars
    PROVE  LinkInv'
  <1>1. CASE Overlap
    BY <1>1, OverlapLink
  <1>2. CASE FlipHalfBit \/ FlipBit \/ LoseHalfBit \/ DoubleHalfBit
    BY <1>2, NoiseLink
  <1>3. CASE Receive
    BY <1>3, ReceiveLink
  <1>4. CASE UNCHANGED vars
    <2>1. /\ sent' = sent /\ halves' = halves /\ others' = others /\ flips' = flips
          /\ shifts' = shifts /\ heard' = heard /\ delivered' = delivered
      BY <1>4 DEF vars, faults, received
    <2>2. Deliveries' = Deliveries /\ AsSent' = AsSent /\ Faulted' = Faulted
      BY <2>1, Zenon DEF Deliveries, AsSent, Faulted
    <2>3. LineOK' /\ Untouched'
      BY <2>1, <2>2 DEF LinkInv, LineOK, Untouched
    <2>4. DeliveredOK'
      BY <2>1, <2>2, Zenon DEF LinkInv, DeliveredOK
    <2>5. DeliveredWhole'
      BY <2>1, <2>2, Zenon DEF LinkInv, DeliveredWhole
    <2> QED BY <2>3, <2>4, <2>5 DEF LinkInv
  <1> QED BY <1>1, <1>2, <1>3, <1>4 DEF Next

\* Whatever happens to it, the line carries half-bits, and what main is given is a
\* frame whose addresses are bytes and whose message is whole bytes, 255 at most.
THEOREM LinkTyped == Spec => []TypeOK
  <1> QED BY InitLink, NextLink, InvTypeOK, PTL DEF Spec

\* Encoding, sampling, decoding and the CRC together: a frame of any two addresses
\* and any message of 1 to 255 bytes to which nothing happens on the line is
\* accepted by network_rx, and is what was sent.
THEOREM SentIsDelivered == Spec => []DeliveredWhole
  <1>1. LinkInv => DeliveredWhole
    BY DEF LinkInv
  <1> QED BY InitLink, NextLink, <1>1, PTL DEF Spec

-----------------------------------------------------------------------------
(* Frames that overlap.                                                    *)

AllHigh(h) == \A f \in {sent} \cup others : EncodedFrame(f)[h] = 1

\* No three half-bits in a row are high.
Falls(seq) == \A k \in 1 .. Len(seq) - 2 : ~(seq[k] = 1 /\ seq[k + 1] = 1 /\ seq[k + 2] = 1)

\* As long as nothing but other frames has damaged it, the header on the line is
\* low exactly where one of them is, and the line is never high for so long that a
\* timeout in mid-frame ends an element: it was low at the last one.
WiredInv ==
    flips + shifts = 0 =>
        /\ Len(halves) \in Nat /\ Len(halves) >= 128 /\ Falls(halves)
        /\ \A h \in HeadHalves : halves[h] = IF AllHigh(h) THEN 1 ELSE 0
        /\ heard > 0 => heard > Len(halves) \/ halves[heard] = 0

IInv == LinkInv /\ WiredInv /\ OverlapRejected

\* Two nodes on the line: low where one of them is low.
LEMMA WiredValue ==
    ASSUME NEW a, NEW b, Len(a) \in Nat, Len(b) \in Nat, Len(a) >= 128, Len(b) >= 128
    PROVE  /\ Len(WiredAnd(a, b)) \in Nat /\ Len(WiredAnd(a, b)) >= 128
           /\ \A h \in HeadHalves : WiredAnd(a, b)[h] = IF a[h] = 1 /\ b[h] = 1 THEN 1 ELSE 0
  <1> DEFINE n == IF Len(a) > Len(b) THEN Len(a) ELSE Len(b)
  <1>1. n \in Nat /\ n >= 128
    OBVIOUS
  <1>2. WiredAnd(a, b) = [h \in 1 .. n |->
            IF LevelAt(a, h) = 1 /\ LevelAt(b, h) = 1 THEN 1 ELSE 0]
    BY DEF WiredAnd
  <1> HIDE DEF n
  <1>3. Len(WiredAnd(a, b)) = n
    BY <1>1, <1>2
  <1>4. \A h \in HeadHalves : h \in 1 .. n /\ LevelAt(a, h) = a[h] /\ LevelAt(b, h) = b[h]
    BY <1>1 DEF HeadHalves, HeaderBits, LevelAt
  <1> QED BY <1>1, <1>2, <1>3, <1>4

\* The line of two nodes is not high for longer than that of each.
LEMMA WiredFalls ==
    ASSUME NEW a, NEW b, Len(a) \in Nat, Len(b) \in Nat, Falls(a), Falls(b)
    PROVE  Falls(WiredAnd(a, b))
  <1> DEFINE n == IF Len(a) > Len(b) THEN Len(a) ELSE Len(b)
             both == WiredAnd(a, b)
  <1>1. n \in Nat /\ (n = Len(a) \/ n = Len(b))
    OBVIOUS
  <1>2. both = [h \in 1 .. n |-> IF LevelAt(a, h) = 1 /\ LevelAt(b, h) = 1 THEN 1 ELSE 0]
    BY DEF WiredAnd
  <1> HIDE DEF n, both
  <1>3. Len(both) = n
    BY <1>1, <1>2
  <1> SUFFICES ASSUME NEW k \in 1 .. n - 2,
                      both[k] = 1 /\ both[k + 1] = 1 /\ both[k + 2] = 1
               PROVE  FALSE
    BY <1>3 DEF Falls, both
  <1>4. k \in 1 .. n /\ k + 1 \in 1 .. n /\ k + 2 \in 1 .. n
    BY <1>1
  <1>5. /\ LevelAt(a, k) = 1 /\ LevelAt(a, k + 1) = 1 /\ LevelAt(a, k + 2) = 1
        /\ LevelAt(b, k) = 1 /\ LevelAt(b, k + 1) = 1 /\ LevelAt(b, k + 2) = 1
    BY <1>2, <1>4
  <1>6. CASE n = Len(a)
    <2>1. a[k] = 1 /\ a[k + 1] = 1 /\ a[k + 2] = 1
      BY <1>4, <1>5, <1>6 DEF LevelAt
    <2> QED BY <1>6, <2>1 DEF Falls
  <1>7. CASE n = Len(b)
    <2>1. b[k] = 1 /\ b[k + 1] = 1 /\ b[k + 2] = 1
      BY <1>4, <1>5, <1>7 DEF LevelAt
    <2> QED BY <1>7, <2>1 DEF Falls
  <1> QED BY <1>1, <1>6, <1>7

\* The line of one node is not.
LEMMA FrameFalls ==
    ASSUME NEW f \in Frames
    PROVE  Falls(EncodedFrame(f))
  <1> DEFINE bits == BitsOf(FrameBytes(f))
  <1>1. bits \in Seq(Bit) /\ EncodedFrame(f) = Encode(bits)
    BY FrameOnLine
  <1> HIDE DEF bits
  <1>2. Len(Encode(bits)) = 2 * Len(bits) /\ Len(bits) \in Nat
    BY <1>1, EncodeIs
  <1>3. \A k \in 1 .. Len(Encode(bits)) - 2 : ~Still(Encode(bits), k)
    <2>1. \A k \in 1 .. Len(Encode(bits)) - 2 :
              k \in 1 .. 2 * Len(bits) - 1 /\ k + 2 <= 2 * Len(bits)
      BY <1>2
    <2> QED BY <1>1, <2>1, NeverStill
  <1> QED BY <1>1, <1>3 DEF Falls, Still

\* Where two sources differ both halves of the symbol are low, which is none.
LEMMA OverlapNotClean ==
    ASSUME LineOK, NEW f \in others, f.source # sent.source, NEW element,
           \A h \in HeadHalves : element[h] = IF AllHigh(h) THEN 1 ELSE 0
    PROVE  ~HeaderClean(element)
  <1>1. f \in Frames /\ sent \in Frames
    BY DEF LineOK
  <1>2. f.source \in 0 .. 255 /\ sent.source \in 0 .. 255
    BY <1>1, FrameParts
  <1>3. PICK j \in 1 .. 8 : (f.source \div Weight[j]) % 2 # (sent.source \div Weight[j]) % 2
    BY <1>2, SameBits
  <1> DEFINE x == (f.source \div Weight[j]) % 2
             y == (sent.source \div Weight[j]) % 2
             p == 16 + j
  <1>4. x \in Bit /\ y \in Bit
    BY <1>2, BitOf
  <1>5. /\ EncodedFrame(f)[2 * p] = x /\ EncodedFrame(f)[2 * p - 1] = 1 - x
        /\ EncodedFrame(sent)[2 * p] = y /\ EncodedFrame(sent)[2 * p - 1] = 1 - y
    <2>1. \A g \in Frames : /\ EncodedFrame(g)[2 * p] = (g.source \div Weight[j]) % 2
                             /\ EncodedFrame(g)[2 * p - 1] = 1 - ((g.source \div Weight[j]) % 2)
      BY EncodedHead
    <2> QED BY <1>1, <2>1
  <1>6. x # y
    BY <1>3
  <1>7. 2 * p \in HeadHalves /\ 2 * p - 1 \in HeadHalves
    BY DEF HeadHalves, HeaderBits
  <1> HIDE DEF x, y
  <1>8. ~AllHigh(2 * p) /\ ~AllHigh(2 * p - 1)
    BY <1>4, <1>5, <1>6 DEF AllHigh, Bit
  <1>9. element[2 * p] = 0 /\ element[2 * p - 1] = 0
    BY <1>7, <1>8
  <1>10. p \in 1 .. HeaderBits /\ 0 + p = p
    BY DEF HeaderBits
  <1> QED BY <1>9, <1>10 DEF HeaderClean, Clean, Valid

\* The invariant holds when the frame is put on the line.
LEMMA InitInv == Init => IInv
  <1> SUFFICES ASSUME Init
               PROVE  IInv
    OBVIOUS
  <1>1. LinkInv
    BY InitLink
  <1>2. WiredInv
    <2>1. halves = EncodedFrame(sent) /\ others = {} /\ sent \in Frames /\ heard = 0
      BY DEF Init
    <2>2. /\ Len(halves) \in Nat /\ Len(halves) >= 128
          /\ \A h \in HeadHalves : EncodedFrame(sent)[h] \in Bit
      BY <2>1, EncodedHead
    <2>3. \A h \in HeadHalves : halves[h] = IF AllHigh(h) THEN 1 ELSE 0
      BY <2>1, <2>2 DEF AllHigh, Bit
    <2>4. Falls(halves)
      BY <2>1, FrameFalls
    <2> QED BY <2>1, <2>2, <2>3, <2>4 DEF WiredInv
  <1>3. OverlapRejected
    BY DEF Init, OverlapRejected
  <1> QED BY <1>1, <1>2, <1>3 DEF IInv

\* It holds after another frame has overlapped.
LEMMA OverlapStep ==
    ASSUME IInv, Overlap
    PROVE  IInv'
  <1>1. PICK f \in Frames \ others :
            others' = others \cup {f} /\ halves' = WiredAnd(halves, EncodedFrame(f))
    BY DEF Overlap
  <1>2. UNCHANGED <<sent, flips, shifts, heard, delivered>> /\ heard = 0
    BY DEF Overlap, faults, received, OnTheLine
  <1>3. LinkInv'
    BY OverlapLink DEF IInv
  <1>4. WiredInv'
    <2> SUFFICES ASSUME (flips + shifts = 0)'
                 PROVE  /\ Len(halves') \in Nat /\ Len(halves') >= 128 /\ Falls(halves')
                        /\ \A h \in HeadHalves : halves'[h] = IF AllHigh(h)' THEN 1 ELSE 0
      BY <1>2 DEF WiredInv
    <2>1. /\ Len(halves) \in Nat /\ Len(halves) >= 128 /\ Falls(halves)
          /\ \A h \in HeadHalves : halves[h] = IF AllHigh(h) THEN 1 ELSE 0
      BY <1>2 DEF IInv, WiredInv
    <2>2. Len(EncodedFrame(f)) \in Nat /\ Len(EncodedFrame(f)) >= 128
      BY EncodedHead
    <2>3. /\ Len(halves') \in Nat /\ Len(halves') >= 128
          /\ \A h \in HeadHalves :
                halves'[h] = IF halves[h] = 1 /\ EncodedFrame(f)[h] = 1 THEN 1 ELSE 0
      BY <1>1, <2>1, <2>2, WiredValue
    <2>4. \A h : AllHigh(h)' <=> AllHigh(h) /\ EncodedFrame(f)[h] = 1
      BY <1>1, <1>2 DEF AllHigh
    <2>5. Falls(halves')
      BY <1>1, <2>1, <2>2, WiredFalls, FrameFalls
    <2> QED BY <2>1, <2>3, <2>4, <2>5
  <1>5. OverlapRejected'
    <2>1. delivered = << >>
      BY <1>2 DEF IInv, LinkInv, DeliveredOK
    <2> QED BY <1>2, <2>1 DEF OverlapRejected
  <1> QED BY <1>3, <1>4, <1>5 DEF IInv

\* Any other damage ends the claim.
LEMMA DamageStep ==
    ASSUME IInv, FlipHalfBit \/ FlipBit \/ LoseHalfBit \/ DoubleHalfBit
    PROVE  IInv'
  <1>1. \/ flips' = flips + 1 /\ shifts' = shifts
        \/ flips' = flips /\ shifts' = shifts + 1
    BY DEF FlipHalfBit, FlipBit, LoseHalfBit, DoubleHalfBit, Flip, Shift
  <1>2. flips \in Nat /\ shifts \in Nat
    BY DEF IInv, LinkInv, LineOK
  <1>3. (flips + shifts # 0)'
    BY <1>1, <1>2
  <1>4. LinkInv'
    BY NoiseLink DEF IInv
  <1> QED BY <1>3, <1>4 DEF IInv, WiredInv, OverlapRejected

\* The element that follows one a low line has ended begins with an invalid symbol.
LEMMA AfterCollision ==
    ASSUME NEW line \in Seq(Bit), NEW a \in 1 .. Len(line), line[a] = 0,
           NEW e \in 1 .. Len(line), NEW k \in e .. Len(line) - 2, FirstEdge(line, a, e)
    PROVE  ~HeaderClean(Element(line, e, k))
  <1> DEFINE element == Element(line, e, k)
  <1>1. line[e] = 1
    <2>1. line[e] \in Bit /\ a # 0
      BY ElementOfSeq
    <2> QED BY <2>1 DEF FirstEdge, Bit
  <1>2. /\ Len(element) = IF k + 3 - e <= Capacity THEN k + 3 - e ELSE Capacity
        /\ element[1] = 1
        /\ \A h \in 2 .. Len(element) : element[h] = line[e + h - 2]
    BY ElementIs
  <1> HIDE DEF element
  <1>3. Len(element) \in Nat /\ Len(element) >= 2
    <2>1. Capacity \in Nat /\ Capacity >= 2
      BY DEF Capacity
    <2>2. e \in Nat /\ k \in Nat /\ k >= e
      OBVIOUS
    <2> QED BY <1>2, <2>1, <2>2
  <1>4. element[2] = 1
    <2>1. 2 \in 2 .. Len(element) /\ e + 2 - 2 = e
      BY <1>3
    <2> QED BY <1>1, <1>2, <2>1
  <1>5. 1 \in 1 .. 48 /\ 2 * (0 + 1) - 1 = 1 /\ 2 * (0 + 1) = 2
    OBVIOUS
  <1>6. ~Valid(element, 0 + 1)
    BY <1>2, <1>4, <1>5 DEF Valid
  <1> QED BY <1>5, <1>6 DEF HeaderClean, HeaderBits, Clean, element

\* It holds after the receiver has taken an element.
LEMMA ReceiveStep ==
    ASSUME IInv, Receive
    PROVE  IInv'
  <1>1. LinkInv'
    BY ReceiveLink DEF IInv
  <1>2. PICK e, k : Received(e, k)
    BY ReceiveIs DEF IInv, LinkInv, LineOK
  <1>3. /\ UNCHANGED <<sent, halves, others, flips, shifts>>
        /\ Line \in Seq(Bit) /\ Len(Line) = Len(halves) + 3
        /\ e \in 1 .. Len(Line) /\ k \in e .. Len(Line) - 2
    BY <1>2, GetsOn DEF IInv, LinkInv
  <1>4. /\ e \in heard + 1 .. Len(halves) + 3 /\ k \in e .. Len(halves) + 1
        /\ FirstEdge(Line, heard, e) /\ FirstStill(Line, e, k) /\ heard' = k + 2
        /\ \/ delivered' = delivered
           \/ Line[k] = 1 /\ Takes(Element(Line, e, k))
    BY <1>2 DEF Received
  <1>5. /\ halves \in Seq(Bit) /\ Len(halves) \in Nat /\ heard \in 0 .. Len(halves) + 3
        /\ \A h \in 1 .. Len(halves) : Line[h] = halves[h]
    <2>1. halves \in Seq(Bit) /\ Len(halves) \in Nat /\ heard \in 0 .. Len(halves) + 3
      BY DEF IInv, LinkInv, LineOK
    <2>2. \A h \in 1 .. Len(halves) + 3 : Line[h] = LevelAt(halves, h)
      BY <2>1, IdleAfter DEF Line
    <2>3. \A h \in 1 .. Len(halves) : h \in 1 .. Len(halves) + 3 /\ h <= Len(halves)
      BY <2>1
    <2> QED BY <2>1, <2>2, <2>3 DEF LevelAt
  <1>6. ASSUME flips + shifts = 0
        PROVE  /\ Len(halves) >= 128 /\ Falls(halves)
               /\ \A h \in HeadHalves : halves[h] = IF AllHigh(h) THEN 1 ELSE 0
               /\ heard > 0 => heard > Len(halves) \/ halves[heard] = 0
    BY <1>6 DEF IInv, WiredInv
  <1>7. ASSUME flips + shifts = 0
        PROVE  k + 2 > Len(halves) \/ halves[k + 2] = 0
    <2> SUFFICES ASSUME ~(k + 2 > Len(halves)), halves[k + 2] # 0
                 PROVE  FALSE
      OBVIOUS
    <2>1. /\ k \in 1 .. Len(halves) - 2 /\ k \in 1 .. Len(halves)
          /\ k + 1 \in 1 .. Len(halves) /\ k + 2 \in 1 .. Len(halves)
      BY <1>3, <1>4, <1>5
    <2>2. halves[k] = halves[k + 1] /\ halves[k] = halves[k + 2]
      BY <1>4, <1>5, <2>1 DEF FirstStill, Still
    <2>3. halves[k + 2] \in Bit
      BY <1>5, <2>1, ElementOfSeq
    <2>4. halves[k] = 1 /\ halves[k + 1] = 1 /\ halves[k + 2] = 1
      BY <2>2, <2>3 DEF Bit
    <2> QED BY <1>6, <1>7, <2>1, <2>4 DEF Falls
  <1>8. WiredInv'
    <2> SUFFICES ASSUME flips + shifts = 0
                 PROVE  WiredInv'
      BY <1>3 DEF WiredInv
    <2>1. heard' > 0 => heard' > Len(halves) \/ halves[heard'] = 0
      BY <1>4, <1>7
    <2>2. \A h : AllHigh(h)' <=> AllHigh(h)
      BY <1>3 DEF AllHigh
    <2> QED BY <1>3, <1>5, <1>6, <2>1, <2>2 DEF WiredInv
  <1>9. OverlapRejected'
    <2> SUFFICES ASSUME flips + shifts = 0, NEW f \in others, f.source # sent.source
                 PROVE  delivered' = << >>
      BY <1>3 DEF OverlapRejected
    <2>1. delivered = << >>
      BY DEF IInv, OverlapRejected
    <2> DEFINE element == Element(Line, e, k)
    <2> SUFFICES ~Takes(element)
      BY <1>4, <2>1
    <2>2. CASE heard > 0
      <3>1. CASE heard > Len(halves)
        <4>1. heard \in 1 .. Len(halves) + 3
          BY <1>5, <2>2
        <4> QED BY <1>4, <1>5, <3>1, <4>1, NothingAfter DEF Line
      <3>2. CASE ~(heard > Len(halves))
        <4>1. heard \in 1 .. Len(halves) /\ halves[heard] = 0
          BY <1>5, <1>6, <2>2, <3>2
        <4>2. heard \in 1 .. Len(Line) /\ Line[heard] = 0
          BY <1>3, <1>5, <4>1
        <4>3. ~HeaderClean(element)
          BY <1>3, <1>4, <4>2, AfterCollision
        <4> QED BY <4>3 DEF Takes, Accepts
      <3> QED BY <3>1, <3>2
    <2>3. CASE heard = 0
      <3> SUFFICES ASSUME Bytes(element) >= 14
                   PROVE  ~HeaderClean(element)
        BY DEF Takes, Accepts
      <3>1. AllHigh(1) /\ ~AllHigh(2)
        <4>1. sent \in Frames /\ others \subseteq Frames
          BY DEF IInv, LinkInv, LineOK
        <4>2. \A g \in {sent} \cup others : EncodedFrame(g)[1] = 1 /\ EncodedFrame(g)[2] = 0
          BY <4>1, EncodedHead
        <4> QED BY <4>2 DEF AllHigh
      <3>2. 1 \in HeadHalves /\ 2 \in HeadHalves
        BY DEF HeadHalves, HeaderBits
      <3>3. halves[1] = 1 /\ halves[2] = 0 /\ Len(halves) >= 128
        BY <1>6, <3>1, <3>2
      <3>4. /\ Len(element) = IF k + 1 <= Capacity THEN k + 1 ELSE Capacity
            /\ \A h \in 1 .. Len(element) : element[h] = LevelAt(halves, h)
        <4>1. /\ e \in 1 .. Len(halves) + 3 /\ k \in e .. Len(halves) + 1 /\ Len(halves) >= 2
              /\ FirstEdge(halves \o Idle, 0, e)
          BY <1>3, <1>4, <1>5, <2>3, <3>3 DEF Line
        <4> QED BY <1>5, <3>3, <4>1, FirstElement DEF Line
      <3> HIDE DEF element
      <3>5. \A h \in HeadHalves : h \in 1 .. Len(element) /\ h <= Len(halves)
        <4>1. Len(element) \div 8 >= 14
          BY DEF Bytes
        <4>2. Len(element) \in Nat
          <5>1. Capacity \in Nat
            BY DEF Capacity
          <5> QED BY <1>3, <1>4, <3>4, <5>1
        <4>3. Len(element) >= 112
          BY <4>1, <4>2
        <4> QED BY <1>5, <3>3, <4>2, <4>3 DEF HeadHalves, HeaderBits
      <3>6. \A h \in HeadHalves : element[h] = IF AllHigh(h) THEN 1 ELSE 0
        <4>1. \A h \in HeadHalves : element[h] = halves[h]
          BY <3>4, <3>5 DEF LevelAt
        <4> QED BY <1>6, <4>1
      <3> QED BY <3>6, OverlapNotClean DEF IInv, LinkInv
    <2>4. heard > 0 \/ heard = 0
      BY <1>5
    <2> QED BY <2>2, <2>3, <2>4
  <1> QED BY <1>1, <1>8, <1>9 DEF IInv

\* Frames of two sources that overlap in phase, so that neither sender need
\* notice a collision, are never delivered, whatever the frames and however many
\* there are: network_rx finds a symbol of the header that is none.
THEOREM CollisionsRejected == Spec => []OverlapRejected
  <1>1. ASSUME IInv, [Next]_vars
        PROVE  IInv'
    <2>1. CASE Overlap
      BY <1>1, <2>1, OverlapStep
    <2>2. CASE FlipHalfBit \/ FlipBit \/ LoseHalfBit \/ DoubleHalfBit
      BY <1>1, <2>2, DamageStep
    <2>3. CASE Receive
      BY <1>1, <2>3, ReceiveStep
    <2>4. CASE UNCHANGED vars
      BY <1>1, <2>4, NextLink DEF IInv, WiredInv, OverlapRejected, AllHigh, vars, faults, received
    <2> QED BY <1>1, <2>1, <2>2, <2>3, <2>4 DEF Next
  <1>2. IInv => OverlapRejected
    BY DEF IInv
  <1> QED BY InitInv, <1>1, <1>2, PTL DEF Spec

-----------------------------------------------------------------------------
(* What the CRC notices.                                                   *)

Octet == [1 .. 8 -> Bit]

\* The byte of eight bits.
Value(y) == 128 * y[1] + 64 * y[2] + 32 * y[3] + 16 * y[4] + 8 * y[5] + 4 * y[6] + 2 * y[7] + y[8]

\* The elements of an octet.
LEMMA OctetBits ==
    ASSUME NEW y \in Octet
    PROVE  /\ y[1] \in 0 .. 1 /\ y[2] \in 0 .. 1 /\ y[3] \in 0 .. 1 /\ y[4] \in 0 .. 1
           /\ y[5] \in 0 .. 1 /\ y[6] \in 0 .. 1 /\ y[7] \in 0 .. 1 /\ y[8] \in 0 .. 1
  <1>1. \A j \in 1 .. 8 : y[j] \in 0 .. 1
    BY DEF Octet, Bit
  <1> QED BY <1>1

\* Every byte has its bits.
LEMMA ValueOf ==
    ASSUME NEW x \in 0 .. 255
    PROVE  \E y \in Octet : x = Value(y)
  <1> DEFINE y == [j \in 1 .. 8 |-> (x \div Weight[j]) % 2]
  <1>1. y \in Octet
    BY BitOf DEF Octet
  <1>2. /\ y[1] = (x \div 128) % 2 /\ y[2] = (x \div 64) % 2 /\ y[3] = (x \div 32) % 2
        /\ y[4] = (x \div 16) % 2 /\ y[5] = (x \div 8) % 2 /\ y[6] = (x \div 4) % 2
        /\ y[7] = (x \div 2) % 2 /\ y[8] = (x \div 1) % 2
    BY DEF Weight
  <1> HIDE DEF y
  <1>3. x = Value(y)
    BY <1>2, Binary DEF Value
  <1> QED BY <1>1, <1>3

\* The bits of a byte are its only ones.
LEMMA ValueBits ==
    ASSUME NEW y \in Octet, NEW x, x = Value(y)
    PROVE  /\ x \in 0 .. 255
           /\ (x \div 128) % 2 = y[1] /\ (x \div 64) % 2 = y[2] /\ (x \div 32) % 2 = y[3]
           /\ (x \div 16) % 2 = y[4] /\ (x \div 8) % 2 = y[5] /\ (x \div 4) % 2 = y[6]
           /\ (x \div 2) % 2 = y[7] /\ x % 2 = y[8]
  <1> DEFINE a == y[1]  b == y[2]  c == y[3]  d == y[4]  e == y[5]  f == y[6]  g == y[7]  h == y[8]
  <1>1. /\ a \in 0 .. 1 /\ b \in 0 .. 1 /\ c \in 0 .. 1 /\ d \in 0 .. 1
        /\ e \in 0 .. 1 /\ f \in 0 .. 1 /\ g \in 0 .. 1 /\ h \in 0 .. 1
    BY OctetBits
  <1>2. x = 128 * a + 64 * b + 32 * c + 16 * d + 8 * e + 4 * f + 2 * g + h
    BY DEF Value
  <1> HIDE DEF a, b, c, d, e, f, g, h
  <1>3. x \in 0 .. 255
    BY <1>1, <1>2
  <1>4. /\ x \div 128 = a /\ x \div 64 = 2 * a + b /\ x \div 32 = 4 * a + 2 * b + c
        /\ x \div 16 = 8 * a + 4 * b + 2 * c + d
    BY <1>1, <1>2
  <1>5. /\ x \div 8 = 16 * a + 8 * b + 4 * c + 2 * d + e
        /\ x \div 4 = 32 * a + 16 * b + 8 * c + 4 * d + 2 * e + f
        /\ x \div 2 = 64 * a + 32 * b + 16 * c + 8 * d + 4 * e + 2 * f + g
    BY <1>1, <1>2
  <1>6. /\ (x \div 128) % 2 = a /\ (x \div 64) % 2 = b /\ (x \div 32) % 2 = c
        /\ (x \div 16) % 2 = d
    BY <1>1, <1>4
  <1>7. (x \div 8) % 2 = e /\ (x \div 4) % 2 = f /\ (x \div 2) % 2 = g
    BY <1>1, <1>5
  <1>8. x % 2 = h
    BY <1>1, <1>2
  <1> QED BY <1>3, <1>6, <1>7, <1>8 DEF a, b, c, d, e, f, g, h

\* 1 where two bits differ.
Xor(v, w) == IF v = w THEN 0 ELSE 1

\* What a step does to the bits: it shifts them, and the bit that leaves, unless
\* it is the one read, changes the last three.
Next8(y, v) == [j \in 1 .. 8 |-> IF j <= 5 THEN y[j + 1]
                                 ELSE IF j <= 7 THEN Xor(y[j + 1], Xor(y[1], v))
                                 ELSE Xor(y[1], v)]

\* This is what CrcStep does.
LEMMA StepBits ==
    ASSUME NEW y \in Octet, NEW v \in Bit, NEW x, x = Value(y)
    PROVE  Next8(y, v) \in Octet /\ CrcStep(x, v) = Value(Next8(y, v))
  <1> DEFINE a == y[1]  b == y[2]  c == y[3]  d == y[4]  e == y[5]  f == y[6]  g == y[7]  h == y[8]
             i == Xor(a, v)
             s == 128 * b + 64 * c + 32 * d + 16 * e + 8 * f + 4 * g + 2 * h
             z == Next8(y, v)
  <1>1. /\ a \in 0 .. 1 /\ b \in 0 .. 1 /\ c \in 0 .. 1 /\ d \in 0 .. 1
        /\ e \in 0 .. 1 /\ f \in 0 .. 1 /\ g \in 0 .. 1 /\ h \in 0 .. 1 /\ v \in 0 .. 1
    BY OctetBits DEF Bit
  <1>2. z \in Octet
    BY DEF Next8, Octet, Xor, Bit
  <1>3. /\ z[1] = b /\ z[2] = c /\ z[3] = d /\ z[4] = e /\ z[5] = f
        /\ z[6] = Xor(g, i) /\ z[7] = Xor(h, i) /\ z[8] = i
    BY DEF Next8
  <1>4. x = 128 * a + 64 * b + 32 * c + 16 * d + 8 * e + 4 * f + 2 * g + h
    BY DEF Value
  <1> HIDE DEF z
  <1>5. Value(z) = 128 * b + 64 * c + 32 * d + 16 * e + 8 * f + 4 * Xor(g, i) + 2 * Xor(h, i) + i
    BY <1>3 DEF Value
  <1> HIDE DEF a, b, c, d, e, f, g, h, i
  <1>6. x \div 128 = a /\ (2 * x) % 256 = s /\ s % 8 = 4 * g + 2 * h
    BY <1>1, <1>4
  <1>7. CrcStep(x, v) = IF a # v THEN (s - (s % 8)) + (7 - (s % 8)) ELSE s
    <2> HIDE DEF s
    <2> QED BY <1>6 DEF CrcStep, XorPolynomial
  <1>8. CASE a = v
    <2>1. i = 0 /\ Xor(g, 0) = g /\ Xor(h, 0) = h
      BY <1>1, <1>8 DEF Xor, i
    <2>2. CrcStep(x, v) = s
      BY <1>7, <1>8
    <2>3. Value(z) = s
      BY <1>1, <1>5, <2>1
    <2> QED BY <1>2, <2>2, <2>3 DEF z
  <1>9. CASE a # v
    <2>1. i = 1 /\ Xor(g, 1) = 1 - g /\ Xor(h, 1) = 1 - h
      BY <1>1, <1>9 DEF Xor, i
    <2>2. CrcStep(x, v) = (s - (4 * g + 2 * h)) + (7 - (4 * g + 2 * h))
      <3> HIDE DEF s
      <3> QED BY <1>6, <1>7, <1>9
    <2>3. Value(z) = 128 * b + 64 * c + 32 * d + 16 * e + 8 * f + 4 * (1 - g) + 2 * (1 - h) + 1
      BY <1>5, <2>1
    <2>4. CrcStep(x, v) = Value(z)
      BY <1>1, <2>2, <2>3
    <2> QED BY <1>2, <2>4 DEF z
  <1> QED BY <1>8, <1>9

Differing(y, z) == [j \in 1 .. 8 |-> Xor(y[j], z[j])]

\* d has the bits in which the bytes r and s differ.
Differ(r, s, d) == \E y, z \in Octet : /\ r = Value(y) /\ s = Value(z)
                                       /\ d = Value(Differing(y, z))

\* Of equal bytes there are none.
LEMMA DifferSelf ==
    ASSUME NEW r \in 0 .. 255
    PROVE  /\ Differ(r, r, 0)
           /\ \A d : Differ(r, r, d) => d = 0
  <1>1. \A y \in Octet : Value(Differing(y, y)) = 0
    BY DEF Differing, Xor, Value
  <1>2. PICK x \in Octet : r = Value(x)
    BY ValueOf
  <1>3. ASSUME NEW y \in Octet, NEW z \in Octet, r = Value(y), r = Value(z)
        PROVE  y = z
    <2>1. /\ y[1] = z[1] /\ y[2] = z[2] /\ y[3] = z[3] /\ y[4] = z[4]
          /\ y[5] = z[5] /\ y[6] = z[6] /\ y[7] = z[7] /\ y[8] = z[8]
      <3>1. /\ (r \div 128) % 2 = y[1] /\ (r \div 64) % 2 = y[2] /\ (r \div 32) % 2 = y[3]
            /\ (r \div 16) % 2 = y[4] /\ (r \div 8) % 2 = y[5] /\ (r \div 4) % 2 = y[6]
            /\ (r \div 2) % 2 = y[7] /\ r % 2 = y[8]
        BY <1>3, ValueBits
      <3>2. /\ (r \div 128) % 2 = z[1] /\ (r \div 64) % 2 = z[2] /\ (r \div 32) % 2 = z[3]
            /\ (r \div 16) % 2 = z[4] /\ (r \div 8) % 2 = z[5] /\ (r \div 4) % 2 = z[6]
            /\ (r \div 2) % 2 = z[7] /\ r % 2 = z[8]
        BY <1>3, ValueBits
      <3> QED BY <3>1, <3>2
    <2>2. \A j \in 1 .. 8 : y[j] = z[j]
      BY <2>1
    <2> QED BY <2>2 DEF Octet
  <1> QED BY <1>1, <1>2, <1>3 DEF Differ

\* The order in which bits are compared does not matter.
LEMMA XorOf ==
    ASSUME NEW g \in Bit, NEW g2 \in Bit, NEW a \in Bit, NEW a2 \in Bit,
           NEW v \in Bit, NEW v2 \in Bit
    PROVE  /\ Xor(Xor(a, v), Xor(a2, v2)) = Xor(Xor(a, a2), Xor(v, v2))
           /\ Xor(Xor(g, Xor(a, v)), Xor(g2, Xor(a2, v2)))
                  = Xor(Xor(g, g2), Xor(Xor(a, a2), Xor(v, v2)))
  <1>1. \A b \in Bit : b = 0 \/ b = 1
    BY DEF Bit
  <1>2. \A x \in Bit, y \in Bit : Xor(x, y) \in Bit
    BY DEF Xor, Bit
  <1>3. \A x \in Bit : Xor(x, 0) = x /\ Xor(0, x) = x /\ Xor(x, x) = 0
    BY <1>1 DEF Xor
  <1>4. \A x \in Bit, y \in Bit : Xor(x, y) = Xor(y, x)
    BY DEF Xor
  <1>5. \A x \in Bit, y \in Bit, z \in Bit : Xor(Xor(x, y), z) = Xor(x, Xor(y, z))
    <2> SUFFICES ASSUME NEW x \in Bit, NEW y \in Bit, NEW z \in Bit
                 PROVE  Xor(Xor(x, y), z) = Xor(x, Xor(y, z))
      OBVIOUS
    <2>1. CASE x = 0
      BY <1>2, <1>3, <2>1
    <2>2. CASE z = 0
      BY <1>2, <1>3, <2>2
    <2>3. CASE x = 1 /\ z = 1
      <3>1. Xor(1, y) = Xor(y, 1)
        BY <1>4, <2>3
      <3>2. Xor(Xor(1, y), 1) = Xor(1, Xor(1, y))
        BY <1>2, <1>4, <2>3
      <3> QED BY <2>3, <3>1, <3>2
    <2> QED BY <1>1, <2>1, <2>2, <2>3
  <1>6. \A x \in Bit, y \in Bit, z \in Bit, w \in Bit :
            Xor(Xor(x, y), Xor(z, w)) = Xor(Xor(x, z), Xor(y, w))
    <2> SUFFICES ASSUME NEW x \in Bit, NEW y \in Bit, NEW z \in Bit, NEW w \in Bit
                 PROVE  Xor(Xor(x, y), Xor(z, w)) = Xor(Xor(x, z), Xor(y, w))
      OBVIOUS
    <2>1. Xor(y, Xor(z, w)) = Xor(z, Xor(y, w))
      <3>1. Xor(y, Xor(z, w)) = Xor(Xor(y, z), w)
        BY <1>5
      <3>2. Xor(z, Xor(y, w)) = Xor(Xor(z, y), w)
        BY <1>5
      <3>3. Xor(y, z) = Xor(z, y)
        BY <1>4
      <3> QED BY <3>1, <3>2, <3>3
    <2>2. Xor(Xor(x, y), Xor(z, w)) = Xor(x, Xor(y, Xor(z, w)))
      BY <1>2, <1>5
    <2>3. Xor(Xor(x, z), Xor(y, w)) = Xor(x, Xor(z, Xor(y, w)))
      BY <1>2, <1>5
    <2> QED BY <2>1, <2>2, <2>3
  <1>7. Xor(Xor(a, v), Xor(a2, v2)) = Xor(Xor(a, a2), Xor(v, v2))
    BY <1>6
  <1>8. Xor(Xor(g, Xor(a, v)), Xor(g2, Xor(a2, v2))) = Xor(Xor(g, g2), Xor(Xor(a, v), Xor(a2, v2)))
    <2> HIDE <1>7
    <2>1. Xor(a, v) \in Bit /\ Xor(a2, v2) \in Bit
      BY <1>2
    <2> QED BY <1>6, <2>1
  <1> QED BY <1>7, <1>8

\* The CRC is linear: the difference of two registers goes on like a register
\* that reads the difference of the bits.
LEMMA DifferStep ==
    ASSUME NEW r, NEW s, NEW d, Differ(r, s, d), NEW v \in Bit, NEW w \in Bit
    PROVE  Differ(CrcStep(r, v), CrcStep(s, w), CrcStep(d, Xor(v, w)))
  <1>1. PICK y \in Octet, z \in Octet :
            r = Value(y) /\ s = Value(z) /\ d = Value(Differing(y, z))
    BY DEF Differ
  <1>2. Differing(y, z) \in Octet /\ Xor(v, w) \in Bit
    BY DEF Differing, Octet, Xor, Bit
  <1>3. /\ Next8(y, v) \in Octet /\ CrcStep(r, v) = Value(Next8(y, v))
        /\ Next8(z, w) \in Octet /\ CrcStep(s, w) = Value(Next8(z, w))
        /\ CrcStep(d, Xor(v, w)) = Value(Next8(Differing(y, z), Xor(v, w)))
    BY <1>1, <1>2, StepBits
  <1>4. Next8(Differing(y, z), Xor(v, w)) = Differing(Next8(y, v), Next8(z, w))
    <2>1. \A j \in 1 .. 8 : y[j] \in Bit /\ z[j] \in Bit
      BY DEF Octet
    <2> SUFFICES ASSUME NEW j \in 1 .. 8
                 PROVE  Next8(Differing(y, z), Xor(v, w))[j]
                            = Differing(Next8(y, v), Next8(z, w))[j]
      BY DEF Next8, Differing
    <2>2. Differing(y, z)[1] = Xor(y[1], z[1]) /\ y[1] \in Bit /\ z[1] \in Bit
      BY <2>1 DEF Differing
    <2>3. CASE j <= 5
      BY <2>3 DEF Next8, Differing
    <2>4. CASE j \in 6 .. 7
      <3>1. j + 1 \in 1 .. 8 /\ y[j + 1] \in Bit /\ z[j + 1] \in Bit /\ ~(j <= 5) /\ j <= 7
        BY <2>1, <2>4
      <3>2. Next8(Differing(y, z), Xor(v, w))[j]
               = Xor(Xor(y[j + 1], z[j + 1]), Xor(Xor(y[1], z[1]), Xor(v, w)))
        BY <2>2, <3>1 DEF Next8, Differing
      <3>3. Differing(Next8(y, v), Next8(z, w))[j]
               = Xor(Xor(y[j + 1], Xor(y[1], v)), Xor(z[j + 1], Xor(z[1], w)))
        BY <3>1 DEF Next8, Differing
      <3>4. Xor(Xor(y[j + 1], Xor(y[1], v)), Xor(z[j + 1], Xor(z[1], w)))
               = Xor(Xor(y[j + 1], z[j + 1]), Xor(Xor(y[1], z[1]), Xor(v, w)))
        <4>1. /\ y[j + 1] \in Bit /\ z[j + 1] \in Bit /\ y[1] \in Bit /\ z[1] \in Bit
              /\ v \in Bit /\ w \in Bit
          BY <2>2, <3>1
        <4> DEFINE g == y[j + 1]  g2 == z[j + 1]  a == y[1]  a2 == z[1]
        <4> HIDE DEF g, g2, a, a2
        <4>0. /\ g \in Bit /\ g2 \in Bit /\ a \in Bit /\ a2 \in Bit
          BY <4>1 DEF g, g2, a, a2
        <4>2. Xor(Xor(g, Xor(a, v)), Xor(g2, Xor(a2, w))) = Xor(Xor(g, g2), Xor(Xor(a, a2), Xor(v, w)))
          BY <4>0, <4>1, XorOf
        <4> QED BY <4>2 DEF g, g2, a, a2
      <3> QED BY <3>2, <3>3, <3>4
    <2>5. CASE j = 8
      <3>1. Next8(Differing(y, z), Xor(v, w))[8] = Xor(Xor(y[1], z[1]), Xor(v, w))
        BY <2>2 DEF Next8
      <3>2. Differing(Next8(y, v), Next8(z, w))[8] = Xor(Xor(y[1], v), Xor(z[1], w))
        BY DEF Next8, Differing
      <3> QED BY <2>2, <2>5, <3>1, <3>2, XorOf
    <2> QED BY <2>3, <2>4, <2>5
  <1> QED BY <1>3, <1>4 DEF Differ

\* Whether a byte has an odd number of ones.
Odd(x) == (((x \div 128) % 2) + ((x \div 64) % 2) + ((x \div 32) % 2) + ((x \div 16) % 2)
              + ((x \div 8) % 2) + ((x \div 4) % 2) + ((x \div 2) % 2) + (x % 2)) % 2

\* A step adds the bit read to it, because x^8 + x^2 + x + 1 has four terms.
LEMMA OddStep ==
    ASSUME NEW x \in 0 .. 255, NEW v \in Bit
    PROVE  Odd(CrcStep(x, v)) = (Odd(x) + v) % 2
  <1>1. PICK y \in Octet : x = Value(y)
    BY ValueOf
  <1> DEFINE a == y[1]  b == y[2]  c == y[3]  d == y[4]  e == y[5]  f == y[6]  g == y[7]  h == y[8]
             i == Xor(a, v)
             z == Next8(y, v)
  <1>2. z \in Octet /\ CrcStep(x, v) = Value(z)
    BY <1>1, StepBits
  <1>3. Odd(x) = (a + b + c + d + e + f + g + h) % 2
    <2>1. /\ (x \div 128) % 2 = a /\ (x \div 64) % 2 = b /\ (x \div 32) % 2 = c
          /\ (x \div 16) % 2 = d /\ (x \div 8) % 2 = e /\ (x \div 4) % 2 = f
          /\ (x \div 2) % 2 = g /\ x % 2 = h
      BY <1>1, ValueBits
    <2> HIDE DEF a, b, c, d, e, f, g, h
    <2> QED BY <2>1 DEF Odd
  <1> HIDE DEF z
  <1>4. Odd(CrcStep(x, v)) = (z[1] + z[2] + z[3] + z[4] + z[5] + z[6] + z[7] + z[8]) % 2
    <2> DEFINE u == CrcStep(x, v)
    <2>1. u = Value(z)
      BY <1>2
    <2> HIDE DEF u
    <2>2. /\ (u \div 128) % 2 = z[1] /\ (u \div 64) % 2 = z[2] /\ (u \div 32) % 2 = z[3]
          /\ (u \div 16) % 2 = z[4] /\ (u \div 8) % 2 = z[5] /\ (u \div 4) % 2 = z[6]
          /\ (u \div 2) % 2 = z[7] /\ u % 2 = z[8]
      BY <1>2, <2>1, ValueBits
    <2>3. Odd(u) = (z[1] + z[2] + z[3] + z[4] + z[5] + z[6] + z[7] + z[8]) % 2
      BY <2>2 DEF Odd
    <2> QED BY <2>3 DEF u
  <1>5. /\ z[1] = b /\ z[2] = c /\ z[3] = d /\ z[4] = e /\ z[5] = f
        /\ z[6] = Xor(g, i) /\ z[7] = Xor(h, i) /\ z[8] = i
    BY DEF Next8, z
  <1>6. /\ a \in 0 .. 1 /\ b \in 0 .. 1 /\ c \in 0 .. 1 /\ d \in 0 .. 1
        /\ e \in 0 .. 1 /\ f \in 0 .. 1 /\ g \in 0 .. 1 /\ h \in 0 .. 1 /\ v \in 0 .. 1
    BY OctetBits DEF Bit
  <1> HIDE DEF a, b, c, d, e, f, g, h, i
  <1>7. Odd(CrcStep(x, v)) = (b + c + d + e + f + Xor(g, i) + Xor(h, i) + i) % 2
    BY <1>4, <1>5
  <1>8. CASE a = v
    <2>1. i = 0 /\ Xor(g, 0) = g /\ Xor(h, 0) = h
      BY <1>6, <1>8 DEF Xor, i
    <2>2. Odd(CrcStep(x, v)) = (b + c + d + e + f + g + h + 0) % 2
      BY <1>7, <2>1
    <2> QED BY <1>3, <1>6, <1>8, <2>2
  <1>9. CASE a # v
    <2>1. i = 1 /\ Xor(g, 1) = 1 - g /\ Xor(h, 1) = 1 - h /\ a = 1 - v
      BY <1>6, <1>9 DEF Xor, i
    <2>2. Odd(CrcStep(x, v)) = (b + c + d + e + f + (1 - g) + (1 - h) + 1) % 2
      BY <1>7, <2>1
    <2> QED BY <1>3, <1>6, <2>1, <2>2
  <1> QED BY <1>8, <1>9

\* A register that reads n bits from zero on.
Reads(r, e, n) == /\ r[0] = 0 /\ \A k \in 1 .. n : e[k] \in Bit
                  /\ \A k \in 1 .. n : r[k] = CrcStep(r[k - 1], e[k])
                  /\ \A k \in 0 .. n : r[k] \in 0 .. 255

\* It is zero until it reads a one.
LEMMA ZerosBefore ==
    ASSUME NEW r, NEW e, NEW n \in Nat, Reads(r, e, n),
           NEW m \in 0 .. n, \A k \in 1 .. m : e[k] = 0
    PROVE  r[m] = 0
  <1> DEFINE S == {j \in Nat : j <= m => r[j] = 0}
  <1>1. 0 \in S
    BY DEF Reads
  <1>2. CrcStep(0, 0) = 0
    BY DEF CrcStep, XorPolynomial
  <1>3. ASSUME NEW j \in Nat, j \in S
        PROVE  j + 1 \in S
    <2> SUFFICES ASSUME j + 1 <= m
                 PROVE  r[j + 1] = 0
      OBVIOUS
    <2>1. j + 1 \in 1 .. m /\ j + 1 \in 1 .. n /\ (j + 1) - 1 = j /\ r[j] = 0
      BY <1>3
    <2>2. r[j + 1] = CrcStep(r[(j + 1) - 1], e[j + 1])
      BY <2>1 DEF Reads
    <2> QED BY <1>2, <2>1, <2>2
  <1> HIDE DEF S
  <1>4. m \in S
    BY <1>1, <1>3, SetInduction
  <1> QED BY <1>4 DEF S

\* A step that leaves the last bit of the register zero has only shifted it.
LEMMA StepBack ==
    ASSUME NEW d \in 0 .. 255, NEW v \in Bit
    PROVE  /\ CrcStep(d, v) % 2 = 0 => d \div 128 = v /\ CrcStep(d, v) = (2 * d) % 256
           /\ CrcStep(d, v) = 0 => d = 128 * v
  <1> DEFINE s == (2 * d) % 256
  <1>1. s \in 0 .. 255 /\ s % 2 = 0
    OBVIOUS
  <1>2. CrcStep(d, v) = IF d \div 128 # v THEN XorPolynomial(s) ELSE s
    BY DEF CrcStep
  <1>3. v = 0 \/ v = 1
    BY DEF Bit
  <1> HIDE DEF s
  <1>4. XorPolynomial(s) % 2 # 0
    BY <1>1 DEF XorPolynomial
  <1>5. CrcStep(d, v) % 2 = 0 => d \div 128 = v /\ CrcStep(d, v) = s
    BY <1>2, <1>4
  <1>6. CrcStep(d, v) = 0 => d \div 128 = v /\ (2 * d) % 256 = 0
    BY <1>5 DEF s
  <1>7. \A x \in 0 .. 1 : d \div 128 = x /\ (2 * d) % 256 = 0 => d = 128 * x
    OBVIOUS
  <1>8. v \in 0 .. 1
    BY <1>3
  <1> QED BY <1>5, <1>6, <1>7, <1>8 DEF s

\* If it ends as zero it was zero after the last one it read.
LEMMA ZerosAfter ==
    ASSUME NEW r, NEW e, NEW n \in Nat, Reads(r, e, n), r[n] = 0,
           NEW m \in 0 .. n, \A k \in m + 1 .. n : e[k] = 0
    PROVE  r[m] = 0
  <1> DEFINE S == {j \in Nat : j <= n - m => r[n - j] = 0}
  <1>1. 0 \in S
    OBVIOUS
  <1>2. ASSUME NEW j \in Nat, j \in S
        PROVE  j + 1 \in S
    <2> SUFFICES ASSUME j + 1 <= n - m
                 PROVE  r[n - (j + 1)] = 0
      OBVIOUS
    <2>1. /\ n - j \in m + 1 .. n /\ n - j \in 1 .. n /\ (n - j) - 1 = n - (j + 1)
          /\ n - (j + 1) \in 0 .. n /\ r[n - j] = 0
      BY <1>2
    <2>2. /\ CrcStep(r[n - (j + 1)], 0) = 0 /\ r[n - (j + 1)] \in 0 .. 255
      <3>1. r[n - j] = CrcStep(r[(n - j) - 1], e[n - j])
        BY <2>1 DEF Reads
      <3> QED BY <2>1, <3>1 DEF Reads
    <2>3. 0 \in Bit /\ 128 * 0 = 0
      BY DEF Bit
    <2> QED BY <2>2, <2>3, StepBack
  <1> HIDE DEF S
  <1>3. n - m \in S
    <2>1. n - m \in Nat
      OBVIOUS
    <2> QED BY <1>1, <1>2, <2>1, SetInduction
  <1>4. n - (n - m) = m /\ n - m <= n - m
    OBVIOUS
  <1> QED BY <1>3, <1>4 DEF S

\* The registers of 126 zeros after a one.
Powers ==
  <<7, 14, 28, 56, 112, 224, 199, 137, 21, 42, 84, 168, 87, 174, 91, 182,
    107, 214, 171, 81, 162, 67, 134, 11, 22, 44, 88, 176, 103, 206, 155, 49,
    98, 196, 143, 25, 50, 100, 200, 151, 41, 82, 164, 79, 158, 59, 118, 236,
    223, 185, 117, 234, 211, 161, 69, 138, 19, 38, 76, 152, 55, 110, 220,
    191, 121, 242, 227, 193, 133, 13, 26, 52, 104, 208, 167, 73, 146, 35,
    70, 140, 31, 62, 124, 248, 247, 233, 213, 173, 93, 186, 115, 230, 203,
    145, 37, 74, 148, 47, 94, 188, 127, 254, 251, 241, 229, 205, 157, 61,
    122, 244, 239, 217, 181, 109, 218, 179, 97, 194, 131, 1, 2, 4, 8, 16,
    32, 64>>

\* Each follows from the one before, and none is 128.
LEMMA PowersFollow ==
    /\ \A t \in 1 .. 125 : Powers[t + 1] = CrcStep(Powers[t], 0)
    /\ \A t \in 1 .. 126 : Powers[t] # 128
  <1>1. /\ CrcStep(7, 0) = 14 /\ CrcStep(14, 0) = 28 /\ CrcStep(28, 0) = 56
        /\ CrcStep(56, 0) = 112 /\ CrcStep(112, 0) = 224 /\ CrcStep(224, 0) = 199
        /\ CrcStep(199, 0) = 137 /\ CrcStep(137, 0) = 21 /\ CrcStep(21, 0) = 42
        /\ CrcStep(42, 0) = 84 /\ CrcStep(84, 0) = 168 /\ CrcStep(168, 0) = 87
        /\ CrcStep(87, 0) = 174 /\ CrcStep(174, 0) = 91 /\ CrcStep(91, 0) = 182
        /\ CrcStep(182, 0) = 107 /\ CrcStep(107, 0) = 214 /\ CrcStep(214, 0) = 171
        /\ CrcStep(171, 0) = 81 /\ CrcStep(81, 0) = 162 /\ CrcStep(162, 0) = 67
        /\ CrcStep(67, 0) = 134 /\ CrcStep(134, 0) = 11 /\ CrcStep(11, 0) = 22
        /\ CrcStep(22, 0) = 44
    BY DEF CrcStep, XorPolynomial
  <1>2. /\ CrcStep(44, 0) = 88 /\ CrcStep(88, 0) = 176 /\ CrcStep(176, 0) = 103
        /\ CrcStep(103, 0) = 206 /\ CrcStep(206, 0) = 155 /\ CrcStep(155, 0) = 49
        /\ CrcStep(49, 0) = 98 /\ CrcStep(98, 0) = 196 /\ CrcStep(196, 0) = 143
        /\ CrcStep(143, 0) = 25 /\ CrcStep(25, 0) = 50 /\ CrcStep(50, 0) = 100
        /\ CrcStep(100, 0) = 200 /\ CrcStep(200, 0) = 151 /\ CrcStep(151, 0) = 41
        /\ CrcStep(41, 0) = 82 /\ CrcStep(82, 0) = 164 /\ CrcStep(164, 0) = 79
        /\ CrcStep(79, 0) = 158 /\ CrcStep(158, 0) = 59 /\ CrcStep(59, 0) = 118
        /\ CrcStep(118, 0) = 236 /\ CrcStep(236, 0) = 223 /\ CrcStep(223, 0) = 185
        /\ CrcStep(185, 0) = 117
    BY DEF CrcStep, XorPolynomial
  <1>3. /\ CrcStep(117, 0) = 234 /\ CrcStep(234, 0) = 211 /\ CrcStep(211, 0) = 161
        /\ CrcStep(161, 0) = 69 /\ CrcStep(69, 0) = 138 /\ CrcStep(138, 0) = 19
        /\ CrcStep(19, 0) = 38 /\ CrcStep(38, 0) = 76 /\ CrcStep(76, 0) = 152
        /\ CrcStep(152, 0) = 55 /\ CrcStep(55, 0) = 110 /\ CrcStep(110, 0) = 220
        /\ CrcStep(220, 0) = 191 /\ CrcStep(191, 0) = 121 /\ CrcStep(121, 0) = 242
        /\ CrcStep(242, 0) = 227 /\ CrcStep(227, 0) = 193 /\ CrcStep(193, 0) = 133
        /\ CrcStep(133, 0) = 13 /\ CrcStep(13, 0) = 26 /\ CrcStep(26, 0) = 52
        /\ CrcStep(52, 0) = 104 /\ CrcStep(104, 0) = 208 /\ CrcStep(208, 0) = 167
        /\ CrcStep(167, 0) = 73
    BY DEF CrcStep, XorPolynomial
  <1>4. /\ CrcStep(73, 0) = 146 /\ CrcStep(146, 0) = 35 /\ CrcStep(35, 0) = 70
        /\ CrcStep(70, 0) = 140 /\ CrcStep(140, 0) = 31 /\ CrcStep(31, 0) = 62
        /\ CrcStep(62, 0) = 124 /\ CrcStep(124, 0) = 248 /\ CrcStep(248, 0) = 247
        /\ CrcStep(247, 0) = 233 /\ CrcStep(233, 0) = 213 /\ CrcStep(213, 0) = 173
        /\ CrcStep(173, 0) = 93 /\ CrcStep(93, 0) = 186 /\ CrcStep(186, 0) = 115
        /\ CrcStep(115, 0) = 230 /\ CrcStep(230, 0) = 203 /\ CrcStep(203, 0) = 145
        /\ CrcStep(145, 0) = 37 /\ CrcStep(37, 0) = 74 /\ CrcStep(74, 0) = 148
        /\ CrcStep(148, 0) = 47 /\ CrcStep(47, 0) = 94 /\ CrcStep(94, 0) = 188
        /\ CrcStep(188, 0) = 127
    BY DEF CrcStep, XorPolynomial
  <1>5. /\ CrcStep(127, 0) = 254 /\ CrcStep(254, 0) = 251 /\ CrcStep(251, 0) = 241
        /\ CrcStep(241, 0) = 229 /\ CrcStep(229, 0) = 205 /\ CrcStep(205, 0) = 157
        /\ CrcStep(157, 0) = 61 /\ CrcStep(61, 0) = 122 /\ CrcStep(122, 0) = 244
        /\ CrcStep(244, 0) = 239 /\ CrcStep(239, 0) = 217 /\ CrcStep(217, 0) = 181
        /\ CrcStep(181, 0) = 109 /\ CrcStep(109, 0) = 218 /\ CrcStep(218, 0) = 179
        /\ CrcStep(179, 0) = 97 /\ CrcStep(97, 0) = 194 /\ CrcStep(194, 0) = 131
        /\ CrcStep(131, 0) = 1 /\ CrcStep(1, 0) = 2 /\ CrcStep(2, 0) = 4
        /\ CrcStep(4, 0) = 8 /\ CrcStep(8, 0) = 16 /\ CrcStep(16, 0) = 32
        /\ CrcStep(32, 0) = 64
    BY DEF CrcStep, XorPolynomial
  <1>6. \A t \in 1 .. 125 : Powers[t + 1] = CrcStep(Powers[t], 0)
    <2> SUFFICES ASSUME NEW t \in 1 .. 125
                 PROVE  Powers[t + 1] = CrcStep(Powers[t], 0)
      OBVIOUS
    <2>1. CASE t \in 1 .. 25
      BY <1>1, <2>1 DEF Powers
    <2>2. CASE t \in 26 .. 50
      BY <1>2, <2>2 DEF Powers
    <2>3. CASE t \in 51 .. 75
      BY <1>3, <2>3 DEF Powers
    <2>4. CASE t \in 76 .. 100
      BY <1>4, <2>4 DEF Powers
    <2>5. CASE t \in 101 .. 125
      BY <1>5, <2>5 DEF Powers
    <2> QED BY <2>1, <2>2, <2>3, <2>4, <2>5
  <1>7. \A t \in 1 .. 126 : Powers[t] # 128
    BY DEF Powers
  <1> QED BY <1>6, <1>7

Ones(e, k) == {i \in 1 .. k : e[i] = 1}

\* The register has as many ones as were read, but for an even number.
LEMMA Parity ==
    ASSUME NEW r, NEW e, NEW n \in Nat, Reads(r, e, n)
    PROVE  /\ IsFiniteSet(Ones(e, n)) /\ Cardinality(Ones(e, n)) \in Nat
           /\ Odd(r[n]) = Cardinality(Ones(e, n)) % 2
  <1> DEFINE Right(k) == /\ IsFiniteSet(Ones(e, k)) /\ Cardinality(Ones(e, k)) \in Nat
                         /\ Odd(r[k]) = Cardinality(Ones(e, k)) % 2
             S == {k \in Nat : k <= n => Right(k)}
  <1>1. 0 \in S
    <2>1. Ones(e, 0) = {}
      BY DEF Ones
    <2>2. IsFiniteSet(Ones(e, 0)) /\ Cardinality(Ones(e, 0)) = 0
      BY <2>1, FS_EmptySet
    <2>3. r[0] = 0 /\ Odd(0) = 0
      BY DEF Reads, Odd
    <2> QED BY <2>2, <2>3
  <1>2. ASSUME NEW k \in Nat, k \in S
        PROVE  k + 1 \in S
    <2> SUFFICES ASSUME k + 1 <= n
                 PROVE  Right(k + 1)
      OBVIOUS
    <2> DEFINE c == Cardinality(Ones(e, k))
               d == Cardinality(Ones(e, k + 1))
               v == e[k + 1]
    <2>1. Right(k)
      BY <1>2
    <2>2. k + 1 \in 1 .. n /\ k \in 0 .. n /\ (k + 1) - 1 = k /\ k + 1 \notin 1 .. k
      OBVIOUS
    <2>3. v \in Bit /\ r[k + 1] = CrcStep(r[k], v) /\ r[k] \in 0 .. 255
      BY <2>2 DEF Reads
    <2>4. Odd(r[k + 1]) = (Odd(r[k]) + v) % 2
      BY <2>3, OddStep
    <2>5. IsFiniteSet(Ones(e, k + 1)) /\ d = c + v
      <3>1. CASE v = 0
        <4>1. Ones(e, k + 1) = Ones(e, k)
          BY <3>1, <2>2 DEF Ones
        <4> QED BY <2>1, <3>1, <4>1
      <3>2. CASE v = 1
        <4>1. Ones(e, k + 1) = Ones(e, k) \cup {k + 1} /\ k + 1 \notin Ones(e, k)
          BY <3>2, <2>2 DEF Ones
        <4>2. IsFiniteSet(Ones(e, k))
          BY <2>1
        <4> HIDE DEF v
        <4> QED BY <3>2, <4>1, <4>2, FS_AddElement
      <3> QED BY <2>3, <3>1, <3>2 DEF Bit
    <2>6. c \in Nat /\ Odd(r[k]) = c % 2
      BY <2>1
    <2> DEFINE o == Odd(r[k])
               p == Odd(r[k + 1])
    <2>7. o = c % 2 /\ p = (o + v) % 2
      BY <2>4, <2>6
    <2>8. v = 0 \/ v = 1
      BY <2>3 DEF Bit
    <2> HIDE DEF c, d, v, o, p
    <2>9. d \in Nat /\ p = d % 2
      <3>1. d = c + v /\ c \in Nat
        BY <2>5, <2>6
      <3>2. CASE v = 0
        BY <2>7, <3>1, <3>2
      <3>3. CASE v = 1
        <4>1. d = c + 1 /\ p = ((c % 2) + 1) % 2
          BY <2>7, <3>1, <3>3
        <4>2. ((c % 2) + 1) % 2 = (c + 1) % 2
          BY <3>1
        <4> QED BY <3>1, <4>1, <4>2
      <3> QED BY <2>8, <3>2, <3>3
    <2> QED BY <2>5, <2>9 DEF d, p
  <1> HIDE DEF S, Right
  <1>3. n \in S
    BY <1>1, <1>2, SetInduction
  <1> QED BY <1>3 DEF S, Right

\* Steps that end with zero bits, from the last to the one before it.
LEMMA EndsInZeros ==
    ASSUME NEW d \in 0 .. 255, NEW v \in Bit
    PROVE  /\ CrcStep(d, v) = 0       => d % 128 = 0
           /\ CrcStep(d, v) % 128 = 0 => d % 64 = 0
           /\ CrcStep(d, v) % 64 = 0  => d % 32 = 0
           /\ CrcStep(d, v) % 32 = 0  => d % 16 = 0
           /\ CrcStep(d, v) % 16 = 0  => d % 8 = 0
           /\ CrcStep(d, v) % 8 = 0   => d % 4 = 0
           /\ CrcStep(d, v) % 4 = 0   => d % 2 = 0
  <1> DEFINE c == CrcStep(d, v)
  <1>1. c \in 0 .. 255 /\ (c % 2 = 0 => c = (2 * d) % 256)
    BY CrcStepIs, StepBack
  <1> HIDE DEF c
  <1>2. \/ c = 0 \/ c % 128 = 0 \/ c % 64 = 0 \/ c % 32 = 0 \/ c % 16 = 0 \/ c % 8 = 0
        \/ c % 4 = 0
        => c % 2 = 0
    BY <1>1
  <1>3. CASE c = (2 * d) % 256
    <2>1. c = 0 => d % 128 = 0
      BY <1>3
    <2>2. c % 128 = 0 => d % 64 = 0
      BY <1>3
    <2>3. c % 64 = 0 => d % 32 = 0
      BY <1>3
    <2>4. c % 32 = 0 => d % 16 = 0
      BY <1>3
    <2>5. c % 16 = 0 => d % 8 = 0
      BY <1>3
    <2>6. c % 8 = 0 => d % 4 = 0
      BY <1>3
    <2>7. c % 4 = 0 => d % 2 = 0
      BY <1>3
    <2> QED BY <2>1, <2>2, <2>3, <2>4, <2>5, <2>6, <2>7 DEF c
  <1> QED BY <1>1, <1>2, <1>3 DEF c

\* The first one makes the register odd, and a step leaves zero only if its last
\* bits are zero, one more with every step: so no eight steps lead back to zero.
LEMMA NoBurst ==
    ASSUME NEW r, NEW e, NEW n \in Nat, Reads(r, e, n),
           NEW j \in 1 .. n, NEW m \in j .. n, r[j] = 7, r[m] = 0
    PROVE  m - j >= 8
  <1>1. \A k \in 1 .. n : /\ e[k] \in Bit /\ r[k - 1] \in 0 .. 255
                          /\ r[k] = CrcStep(r[k - 1], e[k])
    BY DEF Reads
  <1>2. \A k \in 1 .. n :
           /\ r[k] = 0       => r[k - 1] % 128 = 0
           /\ r[k] % 128 = 0 => r[k - 1] % 64 = 0
           /\ r[k] % 64 = 0  => r[k - 1] % 32 = 0
           /\ r[k] % 32 = 0  => r[k - 1] % 16 = 0
           /\ r[k] % 16 = 0  => r[k - 1] % 8 = 0
           /\ r[k] % 8 = 0   => r[k - 1] % 4 = 0
           /\ r[k] % 4 = 0   => r[k - 1] % 2 = 0
    <2> SUFFICES ASSUME NEW k \in 1 .. n
                 PROVE  /\ r[k] = 0       => r[k - 1] % 128 = 0
                        /\ r[k] % 128 = 0 => r[k - 1] % 64 = 0
                        /\ r[k] % 64 = 0  => r[k - 1] % 32 = 0
                        /\ r[k] % 32 = 0  => r[k - 1] % 16 = 0
                        /\ r[k] % 16 = 0  => r[k - 1] % 8 = 0
                        /\ r[k] % 8 = 0   => r[k - 1] % 4 = 0
                        /\ r[k] % 4 = 0   => r[k - 1] % 2 = 0
      OBVIOUS
    <2> DEFINE d == r[k - 1]
               v == e[k]
    <2>1. v \in Bit /\ d \in 0 .. 255 /\ r[k] = CrcStep(d, v)
      BY <1>1
    <2> HIDE DEF d, v
    <2> QED BY <2>1, EndsInZeros DEF d
  <1>3. /\ 7 # 0 /\ 7 % 128 # 0 /\ 7 % 64 # 0 /\ 7 % 32 # 0 /\ 7 % 16 # 0
        /\ 7 % 8 # 0 /\ 7 % 4 # 0 /\ 7 % 2 # 0
    OBVIOUS
  <1> SUFFICES ASSUME m - j <= 7
               PROVE  FALSE
    OBVIOUS
  <1>4. m # j /\ m \in 1 .. n /\ r[m - 1] % 128 = 0
    BY <1>2, <1>3
  <1>5. m - 1 # j /\ m - 1 \in 1 .. n /\ r[(m - 1) - 1] % 64 = 0
    BY <1>2, <1>3, <1>4
  <1>6. m - 2 # j /\ m - 2 \in 1 .. n /\ r[(m - 2) - 1] % 32 = 0
    BY <1>2, <1>3, <1>4, <1>5
  <1>7. m - 3 # j /\ m - 3 \in 1 .. n /\ r[(m - 3) - 1] % 16 = 0
    BY <1>2, <1>3, <1>4, <1>5, <1>6
  <1>8. m - 4 # j /\ m - 4 \in 1 .. n /\ r[(m - 4) - 1] % 8 = 0
    BY <1>2, <1>3, <1>4, <1>5, <1>6, <1>7
  <1>9. m - 5 # j /\ m - 5 \in 1 .. n /\ r[(m - 5) - 1] % 4 = 0
    BY <1>2, <1>3, <1>4, <1>5, <1>6, <1>7, <1>8
  <1>10. m - 6 # j /\ m - 6 \in 1 .. n /\ r[(m - 6) - 1] % 2 = 0
    BY <1>2, <1>3, <1>4, <1>5, <1>6, <1>7, <1>8, <1>9
  <1>11. m - 7 = j /\ (m - 6) - 1 = j
    BY <1>4, <1>5, <1>6, <1>7, <1>8, <1>9, <1>10
  <1> QED BY <1>3, <1>10, <1>11

\* After a one, up to 125 zeros leave the register where a second one does not
\* make it zero.
LEMMA NoPair ==
    ASSUME NEW r, NEW e, NEW n \in Nat, Reads(r, e, n),
           NEW j \in 1 .. n, NEW k \in j + 1 .. n, r[j] = 7,
           \A i \in j + 1 .. k - 1 : e[i] = 0, r[k] = 0
    PROVE  k - j >= 127
  <1> DEFINE S == {t \in Nat : j + t <= k - 1 /\ t <= 125 => r[j + t] = Powers[t + 1]}
  <1>1. 0 \in S
    <2>1. Powers[1] = 7
      BY DEF Powers
    <2> QED BY <2>1
  <1>2. ASSUME NEW t \in Nat, t \in S
        PROVE  t + 1 \in S
    <2> SUFFICES ASSUME j + (t + 1) <= k - 1, t + 1 <= 125
                 PROVE  r[j + (t + 1)] = Powers[(t + 1) + 1]
      OBVIOUS
    <2>1. /\ j + (t + 1) \in j + 1 .. k - 1 /\ j + (t + 1) \in 1 .. n
          /\ (j + (t + 1)) - 1 = j + t /\ t + 1 \in 1 .. 125
          /\ r[j + t] = Powers[t + 1]
      BY <1>2
    <2>2. r[j + (t + 1)] = CrcStep(r[(j + (t + 1)) - 1], e[j + (t + 1)])
      BY <2>1 DEF Reads
    <2>3. e[j + (t + 1)] = 0
      BY <2>1
    <2>4. Powers[(t + 1) + 1] = CrcStep(Powers[t + 1], 0)
      BY <2>1, PowersFollow
    <2> QED BY <2>1, <2>2, <2>3, <2>4
  <1> HIDE DEF S
  <1>3. \A t \in Nat : t \in S
    BY <1>1, <1>2, SetInduction
  <1> SUFFICES ASSUME k - j <= 126
               PROVE  FALSE
    OBVIOUS
  <1> DEFINE t == (k - 1) - j
  <1>4. t \in Nat /\ t <= 125 /\ j + t = k - 1 /\ t + 1 \in 1 .. 126 /\ k \in 1 .. n
        /\ k - 1 \in 0 .. n
    OBVIOUS
  <1> HIDE DEF t
  <1>5. r[k - 1] = Powers[t + 1] /\ r[k - 1] # 128
    <2>1. t \in S
      BY <1>3, <1>4
    <2>2. j + t <= k - 1
      BY <1>4
    <2>3. r[j + t] = Powers[t + 1]
      BY <1>4, <2>1, <2>2 DEF S
    <2> QED BY <1>4, <2>3, PowersFollow
  <1>6. e[k] \in Bit /\ r[k - 1] \in 0 .. 255 /\ CrcStep(r[k - 1], e[k]) = 0
    BY <1>4 DEF Reads
  <1>7. r[k - 1] = 128 * e[k]
    BY <1>6, StepBack
  <1>8. r[k - 1] = 0
    BY <1>5, <1>6, <1>7 DEF Bit
  <1>9. \A i \in 1 .. 126 : Powers[i] # 0
    BY DEF Powers
  <1> QED BY <1>4, <1>5, <1>8, <1>9

\* What of a set of positions a CRC of zero shows.
Missed(P) == /\ Cardinality(P) % 2 = 0
             /\ \E j, k \in P : k - j >= 8
             /\ \A j, k \in P : P = {j, k} => k - j >= 127 \/ j - k >= 127

\* A register that starts and ends as zero has read no ones, or ones that it misses.
LEMMA ZeroMisses ==
    ASSUME NEW r, NEW e, NEW n \in Nat, Reads(r, e, n), r[n] = 0, Ones(e, n) # {}
    PROVE  Missed(Ones(e, n))
  <1> DEFINE P == Ones(e, n)
  <1>1. P \subseteq 1 .. n /\ \A k \in 1 .. n : k \notin P => e[k] = 0
    BY DEF Ones, Reads, Bit
  <1>2. \A k \in P : e[k] = 1
    BY DEF Ones
  <1>3. Cardinality(P) % 2 = 0 /\ Cardinality(P) \in Nat
    <2>1. Odd(0) = 0
      BY DEF Odd
    <2> QED BY <2>1, Parity
  <1> HIDE DEF P
  <1>4. PICK j \in P : \A k \in P : j <= k
    <2>1. P \subseteq Nat /\ P # {}
      BY <1>1 DEF P
    <2> QED BY <2>1, LeastOf
  <1>5. PICK m \in P : \A k \in P : k <= m
    <2> DEFINE Q == {n - k : k \in P}
    <2>1. Q \subseteq Nat /\ Q # {}
      BY <1>1, <1>4
    <2>2. PICK q \in Q : \A x \in Q : q <= x
      <3> HIDE DEF Q
      <3> QED BY <2>1, LeastOf
    <2>3. PICK m \in P : q = n - m
      BY <2>2
    <2>4. \A k \in P : k <= m
      <3> SUFFICES ASSUME NEW k \in P
                   PROVE  k <= m
        OBVIOUS
      <3>1. n - k \in Q
        OBVIOUS
      <3>2. n - m <= n - k
        BY <2>2, <2>3, <3>1
      <3>3. k \in 1 .. n /\ m \in 1 .. n
        BY <1>1
      <3> HIDE DEF Q
      <3> QED BY <3>2, <3>3
    <2> QED BY <2>3, <2>4
  <1>6. j \in 1 .. n /\ m \in j .. n
    <2>1. j \in 1 .. n /\ m \in 1 .. n /\ j <= m
      BY <1>1, <1>4, <1>5
    <2> QED BY <2>1
  <1>7. r[j] = 7
    <2>1. j - 1 \in 0 .. n /\ \A k \in 1 .. j - 1 : k \in 1 .. n /\ ~(j <= k)
      BY <1>6
    <2>2. \A k \in 1 .. j - 1 : e[k] = 0
      BY <1>1, <1>4, <2>1
    <2>3. r[j - 1] = 0
      BY <2>1, <2>2, ZerosBefore
    <2>4. r[j] = CrcStep(r[j - 1], e[j]) /\ e[j] = 1
      BY <1>2, <1>6 DEF Reads
    <2>5. CrcStep(0, 1) = 7
      BY DEF CrcStep, XorPolynomial
    <2> QED BY <2>3, <2>4, <2>5
  <1>8. r[m] = 0
    <2>1. m \in 0 .. n /\ \A k \in m + 1 .. n : k \in 1 .. n /\ ~(k <= m)
      BY <1>6
    <2>2. \A k \in m + 1 .. n : e[k] = 0
      BY <1>1, <1>5, <2>1
    <2> QED BY <2>1, <2>2, ZerosAfter
  <1>9. m - j >= 8
    BY <1>6, <1>7, <1>8, NoBurst
  <1>10. ASSUME NEW a \in P, NEW b \in P, P = {a, b}
         PROVE  b - a >= 127 \/ a - b >= 127
    <2>1. /\ j = a \/ j = b
          /\ m = a \/ m = b
      BY <1>10
    <2>2. m # j
      BY <1>6, <1>9
    <2>3. P = {j, m}
      BY <1>10, <2>1, <2>2
    <2>4. m \in j + 1 .. n
      BY <1>6, <2>2
    <2>5. \A i \in j + 1 .. m - 1 : i \in 1 .. n /\ i \notin P
      BY <1>6, <2>3
    <2>6. \A i \in j + 1 .. m - 1 : e[i] = 0
      BY <1>1, <2>5
    <2>7. m - j >= 127
      BY <1>6, <1>7, <1>8, <2>4, <2>6, NoPair
    <2> QED BY <2>1, <2>2, <2>7
  <1>11. \E a, b \in P : b - a >= 8
    BY <1>4, <1>5, <1>9
  <1> QED BY <1>3, <1>10, <1>11 DEF Missed, P

\* Of two sequences of the same length with the same CRC, the bits that differ
\* are none, or an even number that a byte does not hold, and two of them only at
\* 127 bits from each other or more.
THEOREM CrcTellsApart ==
    ASSUME NEW x \in Seq(Bit), NEW y \in Seq(Bit), Len(x) = Len(y),
           NEW c \in 0 .. 255, Crc8(x, c) = Crc8(y, c),
           NEW P, P = {k \in 1 .. Len(x) : x[k] # y[k]}, P # {}
    PROVE  Missed(P)
  <1> DEFINE n == Len(x)
             e == [k \in 1 .. n |-> Xor(x[k], y[k])]
  <1>1. n \in Nat /\ Len(y) = n /\ \A k \in 1 .. n : x[k] \in Bit /\ y[k] \in Bit
    OBVIOUS
  <1> HIDE DEF n
  <1>2. PICK f : /\ f[0] = c
                 /\ \A k \in 1 .. n : f[k] = CrcStep(f[k - 1], x[k])
                 /\ \A k \in 0 .. n : f[k] \in 0 .. 255
                 /\ Crc8(x, c) = f[n]
    <2>1. \E f : /\ f[0] = c
                 /\ \A k \in 1 .. Len(x) : f[k] = CrcStep(f[k - 1], x[k])
                 /\ \A k \in 0 .. Len(x) : f[k] \in 0 .. 255
                 /\ Crc8(x, c) = f[Len(x)]
      BY CrcIs
    <2> QED BY <2>1 DEF n
  <1>3. PICK g : /\ g[0] = c
                 /\ \A k \in 1 .. n : g[k] = CrcStep(g[k - 1], y[k])
                 /\ \A k \in 0 .. n : g[k] \in 0 .. 255
                 /\ Crc8(y, c) = g[n]
    <2>1. \E g : /\ g[0] = c
                 /\ \A k \in 1 .. Len(y) : g[k] = CrcStep(g[k - 1], y[k])
                 /\ \A k \in 0 .. Len(y) : g[k] \in 0 .. 255
                 /\ Crc8(y, c) = g[Len(y)]
      BY CrcIs
    <2> QED BY <1>1, <2>1
  <1>4. e \in Seq(Bit) /\ Len(e) = n /\ \A k \in 1 .. n : e[k] = Xor(x[k], y[k])
    BY <1>1 DEF Xor, Bit
  <1> HIDE DEF e
  <1>5. PICK r : /\ r[0] = 0
                 /\ \A k \in 1 .. n : r[k] = CrcStep(r[k - 1], e[k])
                 /\ \A k \in 0 .. n : r[k] \in 0 .. 255
    <2>1. 0 \in 0 .. 255
      OBVIOUS
    <2>2. \E r : /\ r[0] = 0
                 /\ \A k \in 1 .. Len(e) : r[k] = CrcStep(r[k - 1], e[k])
                 /\ \A k \in 0 .. Len(e) : r[k] \in 0 .. 255
                 /\ Crc8(e, 0) = r[Len(e)]
      BY <1>4, <2>1, CrcIs
    <2> QED BY <1>4, <2>2
  <1>6. Differ(f[n], g[n], r[n])
    <2> DEFINE S == {k \in Nat : k <= n => Differ(f[k], g[k], r[k])}
    <2>1. 0 \in S
      BY <1>2, <1>3, <1>5, DifferSelf
    <2>2. ASSUME NEW k \in Nat, k \in S
          PROVE  k + 1 \in S
      <3> SUFFICES ASSUME k + 1 <= n
                   PROVE  Differ(f[k + 1], g[k + 1], r[k + 1])
        OBVIOUS
      <3>1. k + 1 \in 1 .. n /\ (k + 1) - 1 = k /\ Differ(f[k], g[k], r[k])
        BY <1>1, <2>2
      <3>2. /\ f[k + 1] = CrcStep(f[k], x[k + 1]) /\ g[k + 1] = CrcStep(g[k], y[k + 1])
            /\ r[k + 1] = CrcStep(r[k], Xor(x[k + 1], y[k + 1]))
            /\ x[k + 1] \in Bit /\ y[k + 1] \in Bit
        BY <1>1, <1>2, <1>3, <1>4, <1>5, <3>1
      <3> QED BY <3>1, <3>2, DifferStep
    <2> HIDE DEF S
    <2>3. n \in S
      BY <1>1, <2>1, <2>2, SetInduction
    <2> QED BY <1>1, <2>3 DEF S
  <1>7. r[n] = 0
    <2>1. n \in 0 .. n
      BY <1>1
    <2>2. f[n] \in 0 .. 255 /\ g[n] = f[n]
      BY <1>2, <1>3, <2>1
    <2> QED BY <1>6, <2>2, DifferSelf
  <1>8. Reads(r, e, n)
    <2>1. \A k \in 1 .. n : e[k] \in Bit
      BY <1>4
    <2> QED BY <1>5, <2>1 DEF Reads
  <1>9. Ones(e, n) = P
    <2>1. \A k \in 1 .. n : e[k] = 1 <=> x[k] # y[k]
      BY <1>4 DEF Xor
    <2> QED BY <2>1 DEF Ones, n
  <1> QED BY <1>1, <1>7, <1>8, <1>9, ZeroMisses

\* x is p, and then q.
Joined(p, q, x) == /\ Len(x) = Len(p) + Len(q)
                   /\ \A k \in 1 .. Len(p) : p[k] = x[k]
                   /\ \A k \in 1 .. Len(q) : q[k] = x[Len(p) + k]

\* The CRC goes from one part of the bits on to the next.
LEMMA CrcOfParts ==
    ASSUME NEW x \in Seq(Bit), NEW c \in 0 .. 255, NEW p \in Seq(Bit), NEW q \in Seq(Bit),
           Joined(p, q, x)
    PROVE  Crc8(p, c) \in 0 .. 255 /\ Crc8(x, c) = Crc8(q, Crc8(p, c))
  <1> DEFINE m == Len(p)
             n == Len(q)
  <1>1. m \in Nat /\ n \in Nat
    OBVIOUS
  <1>2. PICK f : /\ f[0] = c
                 /\ \A k \in 1 .. Len(p) : f[k] = CrcStep(f[k - 1], p[k])
                 /\ \A k \in 0 .. Len(p) : f[k] \in 0 .. 255
                 /\ Crc8(p, c) = f[Len(p)]
    BY CrcIs
  <1>3. m \in 0 .. m
    BY <1>1
  <1>4. f[m] \in 0 .. 255 /\ Crc8(p, c) = f[m]
    BY <1>2, <1>3
  <1>5. PICK g : /\ g[0] = f[m]
                 /\ \A k \in 1 .. Len(q) : g[k] = CrcStep(g[k - 1], q[k])
                 /\ \A k \in 0 .. Len(q) : g[k] \in 0 .. 255
                 /\ Crc8(q, f[m]) = g[Len(q)]
    BY <1>4, CrcIs
  <1>6. PICK r : /\ r[0] = c
                 /\ \A k \in 1 .. Len(x) : r[k] = CrcStep(r[k - 1], x[k])
                 /\ \A k \in 0 .. Len(x) : r[k] \in 0 .. 255
                 /\ Crc8(x, c) = r[Len(x)]
    BY CrcIs
  <1>7. /\ \A k \in 1 .. m : f[k] = CrcStep(f[k - 1], x[k])
        /\ \A k \in 1 .. n : g[k] = CrcStep(g[k - 1], x[m + k])
        /\ \A k \in 1 .. m + n : r[k] = CrcStep(r[k - 1], x[k])
        /\ Crc8(x, c) = r[m + n] /\ Crc8(q, Crc8(p, c)) = g[n]
    BY <1>2, <1>4, <1>5, <1>6 DEF Joined
  <1> HIDE DEF m, n
  <1>8. r[m] = f[m]
    <2> DEFINE S == {k \in Nat : k <= m => r[k] = f[k]}
    <2>1. 0 \in S
      BY <1>2, <1>6
    <2>2. ASSUME NEW k \in Nat, k \in S
          PROVE  k + 1 \in S
      <3> SUFFICES ASSUME k + 1 <= m
                   PROVE  r[k + 1] = f[k + 1]
        OBVIOUS
      <3>1. k + 1 \in 1 .. m /\ k + 1 \in 1 .. m + n /\ (k + 1) - 1 = k /\ r[k] = f[k]
        BY <1>1, <2>2
      <3> QED BY <1>7, <3>1
    <2> HIDE DEF S
    <2>3. m \in S
      BY <1>1, <2>1, <2>2, SetInduction
    <2> QED BY <1>1, <2>3 DEF S
  <1>9. r[m + n] = g[n]
    <2> DEFINE S == {k \in Nat : k <= n => r[m + k] = g[k]}
    <2>1. 0 \in S
      BY <1>1, <1>5, <1>8
    <2>2. ASSUME NEW k \in Nat, k \in S
          PROVE  k + 1 \in S
      <3> SUFFICES ASSUME k + 1 <= n
                   PROVE  r[m + (k + 1)] = g[k + 1]
        OBVIOUS
      <3>1. /\ k + 1 \in 1 .. n /\ m + (k + 1) \in 1 .. m + n /\ (k + 1) - 1 = k
            /\ (m + (k + 1)) - 1 = m + k /\ r[m + k] = g[k]
        BY <1>1, <2>2
      <3> QED BY <1>7, <3>1
    <2> HIDE DEF S
    <2>3. n \in S
      BY <1>1, <2>1, <2>2, SetInduction
    <2> QED BY <1>1, <2>3 DEF S
  <1> QED BY <1>4, <1>7, <1>9

-----------------------------------------------------------------------------
(* What the noise has changed of what is delivered.                        *)

\* The bits of the message and the trailer in which an element differs from a frame.
Changed(element, f) ==
    {k \in 1 .. 8 * Len(f.message) + 8 :
        element[2 * (48 + k)] # EncodedFrame(f)[2 * (48 + k)]}

\* What main is given of a frame that has not changed.
Unchanged(f) == [source |-> f.source, destination |-> f.destination,
                 message |-> BitsOf(f.message)]

\* What the CRC lets through of an element with the header of a frame, all of
\* whose symbols are valid.
LEMMA AcceptedMisses ==
    ASSUME NEW f \in Frames, NEW element \in Seq(Bit), Begins(element, f, 96),
           Bytes(element) >= 14, Accepts(element), ~Blind(element)
    PROVE  /\ Len(element) >= 16 * (7 + Len(f.message))
           /\ Changed(element, f) # {} => Missed(Changed(element, f))
           /\ Changed(element, f) = {} => Accepted(element) = Unchanged(f)
  <1> DEFINE bytes == FrameBytes(f)
             bits == BitsOf(bytes)
             m == Len(f.message)
             crc == Crc8(BitsOf(f.message), 0)
             header == HeaderOf(element)
             x == [k \in 1 .. 8 * m + 8 |-> element[2 * (48 + k)]]
             y == [k \in 1 .. 8 * m + 8 |-> bits[48 + k]]
  <1>1. /\ m \in 1 .. 255 /\ f.message \in Seq(Int) /\ crc \in 0 .. 255
        /\ bytes \in Seq(Int) /\ Len(bytes) = 7 + m
        /\ \A i \in 1 .. m : bytes[6 + i] = f.message[i]
        /\ bytes[7 + m] = crc
    BY FrameBytesAre
  <1>2. bits \in Seq(Bit) /\ Len(bits) = 8 * (7 + m) /\ EncodedFrame(f) = Encode(bits)
    BY FrameOnLine
  <1>3. header = [preamble |-> 85, version |-> 1, source |-> f.source,
                  destination |-> f.destination, length |-> m, crcFlag |-> 1]
    BY HeaderSent
  <1>4. header.length = m /\ header.crcFlag = 1
    BY <1>3
  <1>5. HeaderValid(element, header) /\ CrcHolds(element, header)
    BY DEF Accepts
  <1>6. Clean(element, 48, 8 * m + 8)
    BY <1>4 DEF Blind, HeaderBits, TrailerBits
  <1> HIDE DEF bytes, bits, m, crc, header
  <1>7. m \in Nat /\ m >= 1
    BY <1>1
  <1>8. Len(element) \in Nat /\ Len(element) >= 16 * (7 + m)
    <2>1. 6 + m + 1 = (Len(element) \div 8) \div 2
      BY <1>4, <1>5 DEF HeaderValid, Bytes
    <2>2. Len(element) \in Nat
      OBVIOUS
    <2> QED BY <1>7, <2>1, <2>2
  <1>9. /\ \A k \in 1 .. 8 * m + 8 : element[2 * (48 + k)] \in Bit
        /\ x \in Seq(Bit) /\ Len(x) = 8 * m + 8
        /\ \A k \in 1 .. 8 * m + 8 : x[k] = element[2 * (48 + k)]
    <2>1. \A k \in 1 .. 8 * m + 8 : 2 * (48 + k) \in 1 .. Len(element)
      BY <1>7, <1>8
    <2>2. \A k \in 1 .. 8 * m + 8 : element[2 * (48 + k)] \in Bit
      <3>1. \A h \in 1 .. Len(element) : element[h] \in Bit
        OBVIOUS
      <3> QED BY <2>1, <3>1
    <2>3. 8 * m + 8 \in Nat
      BY <1>7
    <2> QED BY <2>2, <2>3
  <1>10. /\ y \in Seq(Bit) /\ Len(y) = 8 * m + 8
         /\ \A k \in 1 .. 8 * m + 8 : y[k] = bits[48 + k]
    <2>1. \A k \in 1 .. 8 * m + 8 : 48 + k \in 1 .. Len(bits)
      BY <1>2, <1>7
    <2>2. \A k \in 1 .. 8 * m + 8 : bits[48 + k] \in Bit
      <3>1. \A h \in 1 .. Len(bits) : bits[h] \in Bit
        BY <1>2
      <3> QED BY <2>1, <3>1
    <2>3. 8 * m + 8 \in Nat
      BY <1>7
    <2> QED BY <2>2, <2>3
  <1> HIDE DEF x, y
  <1>15. MessageOf(element, header) = [k \in 1 .. 8 * m |-> element[2 * (48 + k)]]
    <2>1. 48 \in Nat /\ 8 * m \in Nat
      BY <1>7
    <2>2. Clean(element, 48, 8 * m)
      <3>1. \A k \in 1 .. 8 * m : k \in 1 .. 8 * m + 8
        BY <1>7
      <3> QED BY <1>6, <3>1 DEF Clean
    <2>3. Decode(element, 48, 8 * m) = [k \in 1 .. 8 * m |-> element[2 * (48 + k)]]
      <3>1. \A from, n \in Nat : Clean(element, from, n) =>
                Decode(element, from, n) = [k \in 1 .. n |-> element[2 * (from + k)]]
        BY DecodeClean
      <3> QED BY <2>1, <2>2, <3>1
    <2> QED BY <1>4, <2>3 DEF MessageOf, HeaderBits
  <1>11. Crc8(x, 0) = 0
    <2> DEFINE p == MessageOf(element, header)
               q == TrailerOf(element, header)
    <2>1. p = [k \in 1 .. 8 * m |-> element[2 * (48 + k)]]
      BY <1>15
    <2>2. q = [k \in 1 .. 8 |-> element[2 * ((48 + 8 * m) + k)]]
      <3>1. 48 + 8 * m \in Nat /\ 8 \in Nat
        BY <1>7
      <3>2. Clean(element, 48 + 8 * m, 8)
        <4>1. \A k \in 1 .. 8 : 8 * m + k \in 1 .. 8 * m + 8 /\ (48 + 8 * m) + k = 48 + (8 * m + k)
          BY <1>7
        <4> QED BY <1>6, <4>1 DEF Clean
      <3>3. Decode(element, 48 + 8 * m, 8) = [k \in 1 .. 8 |-> element[2 * ((48 + 8 * m) + k)]]
        <4>1. \A from, n \in Nat : Clean(element, from, n) =>
                  Decode(element, from, n) = [k \in 1 .. n |-> element[2 * (from + k)]]
          BY DecodeClean
        <4> QED BY <3>1, <3>2, <4>1
      <3> QED BY <1>4, <3>3 DEF TrailerOf, HeaderBits, TrailerBits
    <2>3. \A k \in 1 .. 8 * m : k \in 1 .. 8 * m + 8
      BY <1>7
    <2>4. \A k \in 1 .. 8 : 8 * m + k \in 1 .. 8 * m + 8 /\ (48 + 8 * m) + k = 48 + (8 * m + k)
      BY <1>7
    <2>5. Crc8(q, Crc8(p, 0)) = 0
      BY <1>4, <1>5 DEF CrcHolds, CrcOff
    <2> HIDE DEF p, q
    <2>6. p \in Seq(Bit) /\ Len(p) = 8 * m /\ \A k \in 1 .. 8 * m : p[k] = x[k]
      <3>1. 8 * m \in Nat
        BY <1>7
      <3>2. \A k \in 1 .. 8 * m : element[2 * (48 + k)] \in Bit /\ x[k] = element[2 * (48 + k)]
        BY <1>9, <2>3
      <3> DEFINE n == 8 * m
                 g == [k \in 1 .. n |-> element[2 * (48 + k)]]
      <3>3. \A k \in 1 .. n : g[k] \in Bit /\ g[k] = x[k]
        BY <3>2
      <3>4. p = g
        BY <2>1
      <3> HIDE DEF n
      <3>5. g \in Seq(Bit) /\ Len(g) = n
        BY <3>1, <3>3 DEF n
      <3> HIDE DEF g
      <3> QED BY <3>3, <3>4, <3>5 DEF n
    <2>7. q \in Seq(Bit) /\ Len(q) = 8 /\ \A k \in 1 .. 8 : q[k] = x[8 * m + k]
      <3>1. \A k \in 1 .. 8 : /\ element[2 * ((48 + 8 * m) + k)] \in Bit
                              /\ x[8 * m + k] = element[2 * ((48 + 8 * m) + k)]
        BY <1>9, <2>4
      <3> QED BY <2>2, <3>1
    <2>8. Crc8(x, 0) = Crc8(q, Crc8(p, 0))
      <3>1. x \in Seq(Bit) /\ p \in Seq(Bit) /\ q \in Seq(Bit) /\ 0 \in 0 .. 255
        BY <1>9, <2>6, <2>7
      <3>2. Joined(p, q, x)
        BY <1>9, <2>6, <2>7 DEF Joined
      <3> QED BY <3>1, <3>2, CrcOfParts
    <2> QED BY <2>5, <2>8
  <1>16. \A k \in 1 .. 8 * m : BitsOf(f.message)[k] = bits[48 + k]
    <2>1. 6 \in Nat /\ 6 + Len(f.message) <= Len(bytes) /\ 8 * 6 = 48 /\ Len(f.message) = m
      BY <1>1 DEF m
    <2>2. /\ f.message \in Seq(Int) /\ bytes \in Seq(Int)
          /\ \A i \in 1 .. Len(f.message) : bytes[6 + i] = f.message[i]
      BY <1>1, <2>1
    <2>3. SubSeq(BitsOf(bytes), 8 * 6 + 1, 8 * 6 + 8 * Len(f.message)) = BitsOf(f.message)
      BY <2>1, <2>2, BitsWithin
    <2>4. SubSeq(bits, 48 + 1, 48 + 8 * m) = BitsOf(f.message)
      BY <2>1, <2>3 DEF bits
    <2>5. 48 \in Nat /\ 8 * m \in Nat /\ 48 + 8 * m <= Len(bits)
      BY <1>2, <1>7
    <2>6. \A k \in 1 .. 8 * m : SubSeq(bits, 48 + 1, 48 + 8 * m)[k] = bits[48 + k]
      BY <1>2, <2>5, Part
    <2> QED BY <2>4, <2>6
  <1>12. Crc8(y, 0) = 0
    <2> DEFINE p == BitsOf(f.message)
               part == <<crc>>
               q == BitsOf(part)
    <2>1. part \in Seq(Int) /\ Len(part) = 1 /\ part[1] = crc
      BY <1>1
    <2>2. p \in Seq(Bit) /\ Len(p) = 8 * m
      BY <1>1, BitsAre DEF m
    <2>3. Crc8(q, Crc8(p, 0)) = 0
      BY <1>1, CrcOfItself DEF crc
    <2> HIDE DEF part
    <2>4. q \in Seq(Bit) /\ Len(q) = 8
      <3>1. q \in Seq(Bit) /\ Len(q) = 8 * Len(part)
        BY <2>1, BitsAre
      <3> HIDE DEF q
      <3> QED BY <2>1, <3>1
    <2>5. \A k \in 1 .. 8 * m : p[k] = bits[48 + k]
      BY <1>16
    <2>6. \A k \in 1 .. 8 : q[k] = bits[(48 + 8 * m) + k]
      <3>1. /\ 6 + m \in Nat /\ (6 + m) + Len(part) <= Len(bytes) /\ bytes \in Seq(Int)
            /\ \A i \in 1 .. Len(part) : bytes[(6 + m) + i] = part[i]
        <4>1. (6 + m) + 1 = 7 + m /\ \A i \in 1 .. 1 : i = 1
          BY <1>7
        <4>2. bytes[(6 + m) + 1] = part[1]
          BY <1>1, <2>1, <4>1
        <4> QED BY <1>1, <1>7, <2>1, <4>1, <4>2
      <3>2. SubSeq(BitsOf(bytes), 8 * (6 + m) + 1, 8 * (6 + m) + 8 * Len(part)) = BitsOf(part)
        BY <2>1, <3>1, BitsWithin
      <3>3. 8 * (6 + m) = 48 + 8 * m /\ 8 * Len(part) = 8
        BY <1>7, <2>1
      <3>4. SubSeq(bits, (48 + 8 * m) + 1, (48 + 8 * m) + 8) = q
        BY <3>2, <3>3 DEF bits
      <3>5. 48 + 8 * m \in Nat /\ 8 \in Nat /\ (48 + 8 * m) + 8 <= Len(bits)
        BY <1>2, <1>7
      <3>6. \A k \in 1 .. 8 : SubSeq(bits, (48 + 8 * m) + 1, (48 + 8 * m) + 8)[k]
                                  = bits[(48 + 8 * m) + k]
        <4> DEFINE from == 48 + 8 * m
        <4>1. bits \in Seq(Bit) /\ from \in Nat /\ 8 \in Nat /\ from + 8 <= Len(bits)
          BY <1>2, <3>5
        <4> HIDE DEF from
        <4>2. \A k \in 1 .. 8 : SubSeq(bits, from + 1, from + 8)[k] = bits[from + k]
          BY <4>1, Part
        <4> QED BY <4>2 DEF from
      <3> QED BY <3>4, <3>6
    <2> HIDE DEF p, q
    <2>7. \A k \in 1 .. 8 * m : p[k] = y[k]
      <3>1. \A k \in 1 .. 8 * m : k \in 1 .. 8 * m + 8
        BY <1>7
      <3> QED BY <1>10, <2>5, <3>1
    <2>8. \A k \in 1 .. 8 : q[k] = y[8 * m + k]
      <3>1. \A k \in 1 .. 8 : 8 * m + k \in 1 .. 8 * m + 8 /\ (48 + 8 * m) + k = 48 + (8 * m + k)
        BY <1>7
      <3> QED BY <1>10, <2>6, <3>1
    <2>9. Crc8(y, 0) = Crc8(q, Crc8(p, 0))
      <3>1. y \in Seq(Bit) /\ p \in Seq(Bit) /\ q \in Seq(Bit) /\ 0 \in 0 .. 255
        BY <1>10, <2>2, <2>4
      <3>2. Joined(p, q, y)
        BY <1>10, <2>2, <2>4, <2>7, <2>8 DEF Joined
      <3> QED BY <3>1, <3>2, CrcOfParts
    <2> QED BY <2>3, <2>9
  <1>13. Changed(element, f) = {k \in 1 .. Len(x) : x[k] # y[k]}
    <2>1. \A k \in 1 .. 8 * m + 8 : EncodedFrame(f)[2 * (48 + k)] = y[k]
      <3> SUFFICES ASSUME NEW k \in 1 .. 8 * m + 8
                   PROVE  EncodedFrame(f)[2 * (48 + k)] = y[k]
        OBVIOUS
      <3>1. 48 + k \in 1 .. Len(bits) /\ Len(bits) \in Nat
        BY <1>2, <1>7
      <3>2. Encode(bits)[2 * (48 + k)] = bits[48 + k]
        BY <3>1, HalvesOf
      <3> QED BY <1>2, <1>10, <3>2
    <2>2. Changed(element, f)
              = {k \in 1 .. 8 * m + 8 : element[2 * (48 + k)] # EncodedFrame(f)[2 * (48 + k)]}
      BY DEF Changed, m
    <2> QED BY <1>9, <2>1, <2>2
  <1>14. Changed(element, f) # {} => Missed(Changed(element, f))
    <2>1. /\ x \in Seq(Bit) /\ y \in Seq(Bit) /\ Len(x) = Len(y) /\ 0 \in 0 .. 255
          /\ Crc8(x, 0) = Crc8(y, 0)
      BY <1>9, <1>10, <1>11, <1>12
    <2> QED BY <1>13, <2>1, CrcTellsApart
  <1>17. ASSUME Changed(element, f) = {}
         PROVE  Accepted(element) = Unchanged(f)
    <2>1. \A k \in 1 .. 8 * m : element[2 * (48 + k)] = BitsOf(f.message)[k]
      <3> SUFFICES ASSUME NEW k \in 1 .. 8 * m
                   PROVE  element[2 * (48 + k)] = BitsOf(f.message)[k]
        OBVIOUS
      <3>1. k \in 1 .. Len(x) /\ k \in 1 .. 8 * m + 8
        BY <1>7, <1>9
      <3>2. x[k] = y[k]
        BY <1>13, <1>17, <3>1
      <3> QED BY <1>9, <1>10, <1>16, <3>1, <3>2
    <2>2. BitsOf(f.message) = [k \in 1 .. 8 * m |-> BitsOf(f.message)[k]]
      <3> DEFINE p == BitsOf(f.message)
      <3>1. p \in Seq(Bit) /\ Len(p) = 8 * m
        BY <1>1, BitsAre DEF m
      <3> HIDE DEF p
      <3>2. p = [k \in 1 .. 8 * m |-> p[k]]
        BY <3>1
      <3> QED BY <3>2 DEF p
    <2>3. MessageOf(element, header) = BitsOf(f.message)
      BY <1>15, <2>1, <2>2
    <2>4. header.source = f.source /\ header.destination = f.destination
      BY <1>3
    <2> QED BY <2>3, <2>4 DEF Accepted, Unchanged, header
  <1> QED BY <1>8, <1>14, <1>17 DEF m

\* As long as nothing else happens, a change of values changes at most a bit.
FewAltered == /\ IsFiniteSet(Altered)
              /\ others = {} /\ shifts = 0 => Cardinality(Altered) <= flips

\* Nor does it change the number of half-bits.  A header that has arrived has no
\* three equal half-bits, so the first element ends after it.
PastHeader == /\ others = {} /\ shifts = 0 => Len(halves) = 16 * (7 + Len(sent.message))
              /\ heard > 0 /\ HeaderWhole => heard >= 97

NoticeInv == LinkInv /\ FewAltered /\ PastHeader /\ CrcNotices /\ WrongOnlyIfBlind

\* The bits of the message and the trailer are finite in number.
LEMMA AlteredFinite ==
    ASSUME NEW n \in Nat, NEW P, P \subseteq 1 .. n
    PROVE  IsFiniteSet(P)
  <1>1. IsFiniteSet(1 .. n)
    BY FS_Interval
  <1> QED BY <1>1, FS_Subset

\* Among 120 bits no fewer than four get past the CRC.
LEMMA FourAtLeast ==
    ASSUME NEW P, P \subseteq 1 .. 120, P # {}, Missed(P)
    PROVE  Cardinality(P) >= 4
  <1>1. IsFiniteSet(P) /\ Cardinality(P) \in Nat
    <2>1. IsFiniteSet(P)
      BY AlteredFinite
    <2> QED BY <2>1, FS_CardinalityType
  <1>2. Cardinality(P) # 0
    BY <1>1, FS_EmptySet
  <1>3. Cardinality(P) % 2 = 0
    BY DEF Missed
  <1>4. ASSUME Cardinality(P) = 2
        PROVE  FALSE
    <2>1. PICK i \in P : TRUE
      OBVIOUS
    <2>2. IsFiniteSet(P \ {i}) /\ Cardinality(P \ {i}) = 1
      BY <1>1, <1>4, <2>1, FS_RemoveElement
    <2>3. PICK j : P \ {i} = {j}
      BY <2>2, FS_Singleton
    <2>4. P = {i, j} /\ j \in P
      BY <2>1, <2>3
    <2>5. j - i >= 127 \/ i - j >= 127
      BY <2>1, <2>4 DEF Missed
    <2>6. i \in 1 .. 120 /\ j \in 1 .. 120
      BY <2>1, <2>4
    <2> QED BY <2>5, <2>6
  <1> DEFINE c == Cardinality(P)
  <1>5. c \in Nat /\ c # 0 /\ c % 2 = 0 /\ c # 2
    BY <1>1, <1>2, <1>3, <1>4
  <1> HIDE DEF c
  <1>6. c >= 4
    BY <1>5
  <1> QED BY <1>6 DEF c

\* A set that gets at most one more element.
LEMMA OneMoreAltered ==
    ASSUME NEW A, NEW B, NEW j, NEW n \in Nat, IsFiniteSet(A), Cardinality(A) <= n,
           B \subseteq A \cup {j}
    PROVE  IsFiniteSet(B) /\ Cardinality(B) <= n + 1
  <1>1. IsFiniteSet(A \cup {j}) /\ Cardinality(A \cup {j}) <= n + 1
    <2>1. Cardinality(A) \in Nat
      BY FS_CardinalityType
    <2>2. CASE j \in A
      <3>1. A \cup {j} = A
        BY <2>2
      <3>2. Cardinality(A) <= n + 1
        BY <2>1
      <3> QED BY <3>1, <3>2
    <2>3. CASE j \notin A
      <3>1. IsFiniteSet(A \cup {j}) /\ Cardinality(A \cup {j}) = Cardinality(A) + 1
        BY <2>3, FS_AddElement
      <3> DEFINE c == Cardinality(A)
                 d == Cardinality(A \cup {j})
      <3>2. c \in Nat /\ c <= n /\ d = c + 1
        BY <2>1, <3>1
      <3> HIDE DEF c, d
      <3>3. d <= n + 1
        BY <3>2
      <3> QED BY <3>1, <3>3 DEF d
    <2> QED BY <2>2, <2>3
  <1>2. /\ IsFiniteSet(B) /\ Cardinality(B) <= Cardinality(A \cup {j})
    BY <1>1, FS_Subset
  <1>3. Cardinality(B) \in Nat /\ Cardinality(A \cup {j}) \in Nat
    BY <1>1, <1>2, FS_CardinalityType
  <1> QED BY <1>1, <1>2, <1>3

\* In the initial states nothing has been delivered.
LEMMA InitNotice == Init => NoticeInv
  <1> SUFFICES ASSUME Init
               PROVE  NoticeInv
    OBVIOUS
  <1>1. Deliveries = {} /\ heard = 0
    <2>1. delivered = << >> /\ heard = 0
      BY DEF Init
    <2> QED BY <2>1 DEF Deliveries
  <1>2. FewAltered /\ PastHeader
    <2>1. halves = EncodedFrame(sent) /\ flips = 0 /\ sent \in Frames
      BY DEF Init
    <2>2. /\ BitsOf(FrameBytes(sent)) \in Seq(Bit)
          /\ Len(BitsOf(FrameBytes(sent))) = 8 * (7 + Len(sent.message))
          /\ halves = Encode(BitsOf(FrameBytes(sent)))
      BY <2>1, FrameOnLine
    <2>3. Len(halves) = 2 * (8 * (7 + Len(sent.message)))
      BY <2>2, EncodeIs
    <2> DEFINE m == Len(sent.message)
    <2>4. m \in 1 .. 255
      BY <2>1, FrameBytesAre
    <2>5. Len(halves) = 2 * (8 * (7 + m))
      BY <2>3
    <2> HIDE DEF m
    <2>6. \A k \in 1 .. 8 * m + 8 : 2 * (48 + k) <= Len(halves)
      BY <2>4, <2>5
    <2>7. \A k \in 1 .. 8 * m + 8 : LevelAt(halves, 2 * (48 + k)) = EncodedFrame(sent)[2 * (48 + k)]
      BY <2>1, <2>6 DEF LevelAt
    <2>8. Altered = {}
      BY <2>7 DEF Altered, HeaderBits, TrailerBits, m
    <2>9. Len(halves) = 16 * (7 + m)
      BY <2>4, <2>5
    <2> QED BY <1>1, <2>1, <2>8, <2>9, FS_EmptySet DEF FewAltered, PastHeader, m
  <1> QED BY <1>1, <1>2, InitLink DEF NoticeInv, CrcNotices, WrongOnlyIfBlind

\* The half-bits of a header that has arrived.
LEMMA HeaderLevels ==
    ASSUME HeaderWhole
    PROVE  \A h \in 1 .. 96 : LevelAt(halves, h) = EncodedFrame(sent)[h]
  <1>1. 2 * HeaderBits = 96
    BY DEF HeaderBits
  <1> QED BY <1>1 DEF HeaderWhole

\* No timeout comes before the end of a header that has arrived.
LEMMA HeaderMoves ==
    ASSUME halves \in Seq(Bit), sent \in Frames, HeaderWhole,
           NEW k \in 1 .. Len(halves) + 1, Still(Line, k)
    PROVE  k + 2 >= 97
  <1> SUFFICES ASSUME ~(k + 2 >= 97)
               PROVE  FALSE
    OBVIOUS
  <1>1. Len(halves) \in Nat
    OBVIOUS
  <1> DEFINE H == {k, k + 1, k + 2}
             bits == BitsOf(FrameBytes(sent))
  <1>2. \A h \in H : h \in 1 .. 96 /\ h \in 1 .. Len(halves) + 3
    BY <1>1
  <1>3. \A h \in 1 .. 96 : LevelAt(halves, h) = EncodedFrame(sent)[h]
    BY HeaderLevels
  <1>4. \A h \in 1 .. Len(halves) + 3 : Line[h] = LevelAt(halves, h)
    <2>1. \A h \in 1 .. Len(halves) + 3 : (halves \o Idle)[h] = LevelAt(halves, h)
      BY IdleAfter
    <2> QED BY <2>1, Zenon DEF Line
  <1>5. /\ bits \in Seq(Bit) /\ Len(bits) = 8 * (7 + Len(sent.message))
        /\ EncodedFrame(sent) = Encode(bits) /\ Len(sent.message) \in 1 .. 255
    BY FrameOnLine, FrameBytesAre
  <1> HIDE DEF bits
  <1>6. \A h \in H : Line[h] = Encode(bits)[h]
    BY <1>2, <1>3, <1>4, <1>5
  <1>7. Still(Encode(bits), k)
    BY <1>6 DEF Still
  <1>8. k \in 1 .. 2 * Len(bits) - 1 /\ k + 2 <= 2 * Len(bits)
    <2> DEFINE m == Len(sent.message)
    <2>1. m \in 1 .. 255 /\ Len(bits) = 8 * (7 + m) /\ k \in 1 .. 94
      BY <1>1, <1>5
    <2> HIDE DEF m
    <2> QED BY <2>1
  <1> QED BY <1>5, <1>7, <1>8, NeverStill

\* What the first element that is accepted tells of the frame, when the header has
\* arrived and every symbol could be read.
LEMMA FirstAccepted ==
    ASSUME halves \in Seq(Bit), sent \in Frames, HeaderWhole, heard = 0,
           NEW e, NEW k, Received(e, k), Takes(Element(Line, e, k)),
           ~Blind(Element(Line, e, k))
    PROVE  /\ Altered # {} => Missed(Altered)
           /\ Altered = {} => Accepted(Element(Line, e, k)) = Unchanged(sent)
  <1> DEFINE element == Element(Line, e, k)
             m == Len(sent.message)
             n == Len(element)
  <1>1. /\ EncodedFrame(sent)[1] = 1 /\ EncodedFrame(sent)[2] = 0
        /\ Len(EncodedFrame(sent)) \in Nat
    BY EncodedHead
  <1>2. \A h \in 1 .. 96 : LevelAt(halves, h) = EncodedFrame(sent)[h]
    BY HeaderLevels
  <1>3. Len(halves) \in Nat /\ Len(halves) >= 2 /\ halves[1] = 1 /\ halves[2] = 0
    <2>1. LevelAt(halves, 2) = 0 /\ LevelAt(halves, 1) = 1 /\ Len(halves) \in Nat
      <3>1. 1 \in 1 .. 96 /\ 2 \in 1 .. 96
        OBVIOUS
      <3>2. Len(halves) \in Nat
        OBVIOUS
      <3>3. /\ LevelAt(halves, 1) = EncodedFrame(sent)[1]
            /\ LevelAt(halves, 2) = EncodedFrame(sent)[2]
        BY <1>2, <3>1, Zenon
      <3> QED BY <1>1, <3>2, <3>3
    <2>2. 2 <= Len(halves)
      BY <2>1 DEF LevelAt
    <2> QED BY <2>1, <2>2 DEF LevelAt
  <1>4. /\ element \in Seq(Bit)
        /\ \A h \in 1 .. n : element[h] = LevelAt(halves, h)
    <2>1. /\ e \in 1 .. Len(halves) + 3 /\ k \in e .. Len(halves) + 1
          /\ FirstEdge(halves \o Idle, 0, e)
      BY <1>3 DEF Received, Line
    <2> QED BY <1>3, <2>1, FirstElement DEF Line
  <1>5. Bytes(element) >= 14 /\ Accepts(element) /\ ~Blind(element)
    BY DEF Takes
  <1> HIDE DEF element
  <1>6. n \in Nat /\ n >= 112
    <2>1. n \in Nat /\ n \div 8 >= 14
      BY <1>4, <1>5 DEF Bytes
    <2> HIDE DEF n
    <2> QED BY <2>1
  <1> HIDE DEF n
  <1>7. Begins(element, sent, 96)
    <2>1. \A h \in 1 .. 96 : h \in 1 .. n
      BY <1>6
    <2> QED BY <1>2, <1>4, <2>1 DEF Begins
  <1>8. /\ n >= 16 * (7 + m)
        /\ Changed(element, sent) # {} => Missed(Changed(element, sent))
        /\ Changed(element, sent) = {} => Accepted(element) = Unchanged(sent)
    BY <1>4, <1>5, <1>7, AcceptedMisses DEF n
  <1>9. Changed(element, sent) = Altered
    <2>1. m \in 1 .. 255
      BY FrameBytesAre
    <2> HIDE DEF m
    <2>2. \A j \in 1 .. 8 * m + 8 : 2 * (48 + j) \in 1 .. n
      BY <1>6, <1>8, <2>1
    <2>3. \A j \in 1 .. 8 * m + 8 : element[2 * (48 + j)] = LevelAt(halves, 2 * (48 + j))
      BY <1>4, <2>2
    <2>4. Altered = {j \in 1 .. 8 * m + 8 :
                         LevelAt(halves, 2 * (48 + j)) # EncodedFrame(sent)[2 * (48 + j)]}
      BY DEF Altered, HeaderBits, TrailerBits, m
    <2>5. Changed(element, sent)
             = {j \in 1 .. 8 * m + 8 :
                   element[2 * (48 + j)] # EncodedFrame(sent)[2 * (48 + j)]}
      BY DEF Changed, m
    <2> QED BY <2>3, <2>4, <2>5
  <1> QED BY <1>8, <1>9 DEF element

\* A tail that is accepted leaves room for a message of six bytes at least.
LEMMA TailIsLong ==
    ASSUME LineOK, PastHeader, HeaderWhole, others = {}, shifts = 0, heard > 0,
           NEW e, NEW k, Received(e, k), Takes(Element(Line, e, k))
    PROVE  Len(sent.message) >= 6
  <1> DEFINE m == Len(sent.message)
             L == Len(halves)
             element == Element(Line, e, k)
             n == Len(element)
  <1>1. m \in 1 .. 255
    BY FrameBytesAre DEF LineOK
  <1>2. L = 16 * (7 + m) /\ heard >= 97 /\ heard \in Nat
    <2>1. halves \in Seq(Bit) /\ heard \in 0 .. Len(halves) + 3
      BY DEF LineOK
    <2> QED BY <2>1 DEF PastHeader
  <1>3. e \in heard + 1 .. L + 3 /\ k \in e .. L + 1
    BY DEF Received
  <1>4. /\ element \in Seq(Bit)
        /\ n = IF k + 3 - e <= Capacity THEN k + 3 - e ELSE Capacity
    <2>1. /\ Line \in Seq(Bit) /\ Len(Line) = Len(halves) + 3 /\ halves \in Seq(Bit)
      BY IdleAfter DEF LineOK, Line
    <2>2. heard \in Nat /\ Len(halves) \in Nat
      BY <1>2, <2>1
    <2>3. e \in 1 .. Len(Line) /\ k \in e .. Len(Line) - 2
      BY <1>3, <2>1, <2>2
    <2> QED BY <2>1, <2>3, ElementIs
  <1>5. n \div 8 >= 14
    BY DEF Takes, Bytes
  <1> HIDE DEF m, L, element, n
  <1>6. n \in Nat /\ n <= L - 94
    <2>1. Capacity \in Nat
      BY DEF Capacity
    <2> QED BY <1>1, <1>2, <1>3, <1>4, <2>1
  <1>7. n >= 112
    BY <1>5, <1>6
  <1> QED BY <1>1, <1>2, <1>6, <1>7 DEF m

\* What network_rx accepts with a whole header differs from what was sent only
\* as the CRC allows.
LEMMA ReceiveNotice ==
    ASSUME NoticeInv, Receive
    PROVE  PastHeader' /\ CrcNotices' /\ WrongOnlyIfBlind'
  <1>1. LineOK /\ DeliveredOK /\ halves \in Seq(Bit) /\ sent \in Frames /\ heard \in Nat
    <2>1. \A n \in Nat : \A h \in 0 .. n + 3 : h \in Nat
      OBVIOUS
    <2> QED BY <2>1 DEF NoticeInv, LinkInv, LineOK
  <1>2. PICK e, k : Received(e, k)
    BY <1>1, ReceiveIs
  <1> DEFINE element == Element(Line, e, k)
             m == Len(sent.message)
  <1>3. UNCHANGED <<sent, halves, others, flips, shifts>> /\ heard' > heard
    BY <1>1, <1>2, GetsOn
  <1>4. /\ HeaderWhole' = HeaderWhole /\ Altered' = Altered /\ AsSent' = AsSent
        /\ Unchanged(sent) = AsSent
    BY <1>3 DEF HeaderWhole, Altered, AsSent, Unchanged
  <1>5. PastHeader'
    <2> SUFFICES ASSUME HeaderWhole
                 PROVE  heard' >= 97
      BY <1>3, <1>4 DEF NoticeInv, PastHeader
    <2>1. k \in 1 .. Len(halves) + 1 /\ Still(Line, k) /\ heard' = k + 2
      <3>1. e \in heard + 1 .. Len(halves) + 3 /\ k \in e .. Len(halves) + 1
        BY <1>2 DEF Received
      <3>2. Len(halves) \in Nat
        BY <1>1
      <3> QED BY <1>1, <1>2, <3>1, <3>2 DEF Received, FirstStill
    <2> QED BY <1>1, <2>1, HeaderMoves
  <1>6. ASSUME NEW d \in Deliveries', d \notin Deliveries
        PROVE  /\ Takes(element) /\ d.frame = Accepted(element)
               /\ d.blind = Blind(element) /\ d.tail = (heard # 0)
    <2>1. Takes(element) /\ d = Report(element, heard # 0)
      BY <1>1, <1>2, <1>6, DeliveredNow
    <2> QED BY <2>1 DEF Report
  <1>7. CrcNotices'
    <2> SUFFICES ASSUME NEW d \in Deliveries', ~d.tail, ~d.blind, HeaderWhole, Altered # {}
                 PROVE  /\ Cardinality(Altered) % 2 = 0
                        /\ \E i, j \in Altered : j - i >= 8
                        /\ \A i, j \in Altered :
                              Altered = {i, j} => j - i >= 127 \/ i - j >= 127
      BY <1>4 DEF CrcNotices
    <2>1. CASE d \in Deliveries
      BY <2>1 DEF NoticeInv, CrcNotices
    <2>2. CASE d \notin Deliveries
      <3>1. Takes(element) /\ ~Blind(element) /\ heard = 0
        BY <1>6, <2>2
      <3>2. Missed(Altered)
        BY <1>1, <1>2, <3>1, FirstAccepted
      <3> QED BY <3>2 DEF Missed
    <2> QED BY <2>1, <2>2
  <1>8. WrongOnlyIfBlind'
    <2> SUFFICES ASSUME NEW d \in Deliveries', d.frame # AsSent, ~d.blind, HeaderWhole,
                        ~(shifts > 0), others = {}
                 PROVE  \/ ~d.tail /\ (flips >= 4 \/ Len(sent.message) > 14)
                        \/ d.tail /\ Len(sent.message) >= 6
      BY <1>3, <1>4 DEF WrongOnlyIfBlind
    <2>1. CASE d \in Deliveries
      BY <2>1 DEF NoticeInv, WrongOnlyIfBlind
    <2>2. CASE d \notin Deliveries /\ heard # 0
      <3>1. Takes(element) /\ d.tail
        BY <1>6, <2>2
      <3>2. shifts = 0 /\ heard > 0
        BY <1>1, <2>2 DEF LineOK
      <3>3. Len(sent.message) >= 6
        BY <1>1, <1>2, <3>1, <3>2, TailIsLong DEF NoticeInv
      <3> QED BY <3>1, <3>3
    <2>3. CASE d \notin Deliveries /\ heard = 0
      <3>1. /\ Takes(element) /\ ~Blind(element) /\ heard = 0 /\ ~d.tail
            /\ d.frame = Accepted(element)
        BY <1>6, <2>3
      <3>2. /\ Altered # {} => Missed(Altered)
            /\ Altered = {} => Accepted(element) = AsSent
        BY <1>1, <1>2, <1>4, <3>1, FirstAccepted
      <3>3. Altered # {} /\ Missed(Altered)
        BY <3>1, <3>2
      <3> SUFFICES ASSUME ~(flips >= 4), ~(m > 14)
                   PROVE  FALSE
        BY <3>1
      <3>4. m \in 1 .. 255
        BY <1>1, FrameBytesAre
      <3>5. Altered \subseteq 1 .. 8 * m + 8
        BY DEF Altered, TrailerBits
      <3> HIDE DEF m
      <3>6. \A j \in 1 .. 8 * m + 8 : j \in 1 .. 120
        BY <3>4
      <3>7. Cardinality(Altered) >= 4
        <4>1. Altered \subseteq 1 .. 120
          BY <3>5, <3>6
        <4> QED BY <3>3, <4>1, FourAtLeast
      <3>8. shifts = 0
        BY <1>1 DEF LineOK
      <3>9. IsFiniteSet(Altered) /\ Cardinality(Altered) <= flips /\ flips \in Nat
        BY <1>1, <3>8 DEF NoticeInv, FewAltered, LineOK
      <3>10. Cardinality(Altered) \in Nat
        BY <3>9, FS_CardinalityType
      <3> QED BY <3>7, <3>9, <3>10
    <2> QED BY <2>1, <2>2, <2>3
  <1> QED BY <1>5, <1>7, <1>8

\* A half-bit with another value, and a bit with another value, change a bit at most,
\* and no half-bit is lost or doubled.
LEMMA FlipAltered ==
    ASSUME NoticeInv, FlipHalfBit \/ FlipBit
    PROVE  /\ \E j : Altered' \subseteq Altered \cup {j}
           /\ Len(halves') = Len(halves)
  <1>1. halves \in Seq(Bit) /\ Len(halves) \in Nat
    BY DEF NoticeInv, LinkInv, LineOK
  <1>2. CASE FlipHalfBit
    <2>1. PICK k \in 1 .. Len(halves) : halves' = [halves EXCEPT ![k] = 1 - @] /\ sent' = sent
      BY <1>2 DEF FlipHalfBit, Flip, Damage
    <2>2. \A h \in Nat \ {0} : h # k => LevelAt(halves', h) = LevelAt(halves, h)
      BY <1>1, <2>1 DEF LevelAt
    <2>3. Altered' \subseteq Altered \cup {(k \div 2) - 48}
      <3> SUFFICES ASSUME NEW j \in Altered', j # (k \div 2) - 48
                   PROVE  j \in Altered
        OBVIOUS
      <3>1. j \in Nat
        BY DEF Altered
      <3>2. 2 * (48 + j) \in Nat \ {0} /\ 2 * (48 + j) # k
        BY <2>1, <3>1
      <3>3. LevelAt(halves', 2 * (48 + j)) = LevelAt(halves, 2 * (48 + j))
        BY <2>2, <3>2
      <3> QED BY <2>1, <3>3 DEF Altered, HeaderBits
    <2>4. Len(halves') = Len(halves)
      BY <1>1, <2>1
    <2> QED BY <2>3, <2>4
  <1>3. CASE FlipBit
    <2>1. PICK k \in 1 .. Len(halves) \div 2 :
              /\ halves' = [halves EXCEPT ![2 * k - 1] = 1 - @, ![2 * k] = 1 - @]
              /\ sent' = sent
      BY <1>3 DEF FlipBit, Flip, Damage
    <2>2. \A h \in Nat \ {0} : h # 2 * k - 1 /\ h # 2 * k => LevelAt(halves', h) = LevelAt(halves, h)
      <3>1. /\ Len(halves') = Len(halves)
            /\ \A h \in 1 .. Len(halves) :
                  h # 2 * k - 1 /\ h # 2 * k => halves'[h] = halves[h]
        BY <1>1, <2>1
      <3>2. ASSUME NEW h \in Nat \ {0}, h # 2 * k - 1, h # 2 * k
            PROVE  LevelAt(halves', h) = LevelAt(halves, h)
        <4>1. CASE h \in 1 .. Len(halves)
          BY <3>1, <3>2, <4>1 DEF LevelAt
        <4>2. CASE ~(h \in 1 .. Len(halves))
          BY <1>1, <2>1, <3>1, <3>2, <4>2 DEF LevelAt
        <4> QED BY <4>1, <4>2
      <3> QED BY <3>2
    <2>3. Altered' \subseteq Altered \cup {k - 48}
      <3> SUFFICES ASSUME NEW j \in Altered', j # k - 48
                   PROVE  j \in Altered
        OBVIOUS
      <3>1. j \in Nat
        BY DEF Altered
      <3>2. 2 * (48 + j) \in Nat \ {0} /\ 2 * (48 + j) # 2 * k - 1 /\ 2 * (48 + j) # 2 * k
        BY <1>1, <2>1, <3>1
      <3>3. LevelAt(halves', 2 * (48 + j)) = LevelAt(halves, 2 * (48 + j))
        BY <2>2, <3>2
      <3> QED BY <2>1, <3>3 DEF Altered, HeaderBits
    <2>4. Len(halves') = Len(halves)
      BY <1>1, <2>1
    <2> QED BY <2>3, <2>4
  <1> QED BY <1>2, <1>3

\* Every step keeps the invariant: nothing happens to a line that is being
\* received.
LEMMA NextNotice ==
    ASSUME NoticeInv, [Next]_vars
    PROVE  NoticeInv'
  <1>1. LinkInv'
    BY NextLink DEF NoticeInv
  <1>2. CASE Receive
    <2>1. UNCHANGED <<sent, halves, others, flips, shifts>>
      BY <1>2 DEF Receive, faults
    <2>2. FewAltered'
      BY <2>1 DEF NoticeInv, FewAltered, Altered
    <2> QED BY <1>1, <1>2, <2>2, ReceiveNotice DEF NoticeInv
  <1>3. CASE Overlap \/ FlipHalfBit \/ FlipBit \/ LoseHalfBit \/ DoubleHalfBit
    <2>1. heard = 0 /\ heard' = 0 /\ delivered' = delivered /\ sent' = sent
      BY <1>3 DEF Overlap, FlipHalfBit, FlipBit, LoseHalfBit, DoubleHalfBit, Flip, Shift, Damage,
                  OnTheLine, received
    <2>2. Deliveries' = {}
      <3>1. delivered' = << >>
        BY <2>1 DEF NoticeInv, LinkInv, DeliveredOK
      <3> QED BY <3>1 DEF Deliveries
    <2>3. CrcNotices' /\ WrongOnlyIfBlind'
      BY <2>2 DEF CrcNotices, WrongOnlyIfBlind
    <2>4. flips \in Nat /\ shifts \in Nat /\ sent \in Frames
      BY DEF NoticeInv, LinkInv, LineOK
    <2>5. IsFiniteSet(Altered')
      <3> DEFINE n == 8 * Len(sent.message) + TrailerBits
      <3>1. n \in Nat
        <4>1. Len(sent.message) \in 1 .. 255
          BY <2>4, FrameBytesAre
        <4> QED BY <4>1 DEF TrailerBits
      <3>2. Altered' \subseteq 1 .. n
        BY <2>1 DEF Altered
      <3> HIDE DEF n
      <3> QED BY <3>1, <3>2, AlteredFinite
    <2>6. CASE Overlap
      <3>1. others' # {}
        BY <2>6 DEF Overlap
      <3> QED BY <1>1, <2>1, <2>3, <2>5, <3>1 DEF NoticeInv, FewAltered, PastHeader
    <2>7. CASE LoseHalfBit \/ DoubleHalfBit
      <3>1. shifts' = shifts + 1
        BY <2>7 DEF LoseHalfBit, DoubleHalfBit, Shift
      <3>2. shifts' # 0
        BY <2>4, <3>1
      <3> QED BY <1>1, <2>1, <2>3, <2>5, <3>2 DEF NoticeInv, FewAltered, PastHeader
    <2>8. CASE FlipHalfBit \/ FlipBit
      <3>1. flips' = flips + 1 /\ shifts' = shifts /\ others' = others
        BY <2>8 DEF FlipHalfBit, FlipBit, Flip, Damage
      <3>2. PICK j : Altered' \subseteq Altered \cup {j}
        BY <2>8, FlipAltered
      <3>3. FewAltered'
        <4> SUFFICES ASSUME others = {}, shifts = 0
                     PROVE  Cardinality(Altered') <= flips + 1
          BY <2>5, <3>1 DEF FewAltered
        <4>1. IsFiniteSet(Altered) /\ Cardinality(Altered) <= flips
          BY DEF NoticeInv, FewAltered
        <4> QED BY <2>4, <3>2, <4>1, OneMoreAltered
      <3>4. PastHeader'
        <4>1. Len(halves') = Len(halves)
          BY <2>8, FlipAltered
        <4> QED BY <2>1, <3>1, <4>1 DEF NoticeInv, PastHeader
      <3> QED BY <1>1, <2>3, <3>3, <3>4 DEF NoticeInv
    <2> QED BY <1>3, <2>6, <2>7, <2>8
  <1>4. CASE UNCHANGED vars
    <2>1. /\ sent' = sent /\ halves' = halves /\ others' = others /\ flips' = flips
          /\ shifts' = shifts /\ heard' = heard /\ delivered' = delivered
      BY <1>4 DEF vars, faults, received
    <2>2. /\ Altered' = Altered /\ HeaderWhole' = HeaderWhole
          /\ AsSent' = AsSent /\ Deliveries' = Deliveries
      BY <2>1, Zenon DEF Altered, HeaderWhole, AsSent, Deliveries
    <2>3. FewAltered' /\ PastHeader'
      BY <2>1, <2>2 DEF NoticeInv, FewAltered, PastHeader
    <2>4. CrcNotices'
      BY <2>2 DEF NoticeInv, CrcNotices
    <2>5. WrongOnlyIfBlind'
      BY <2>1, <2>2 DEF NoticeInv, WrongOnlyIfBlind
    <2> QED BY <1>1, <2>3, <2>4, <2>5 DEF NoticeInv
  <1> QED BY <1>2, <1>3, <1>4 DEF Next

\* Whatever the noise does to a frame of any message and in whatever order, as
\* long as its header arrives and every symbol of the rest is valid, what the CRC
\* lets through differs from what was sent in no bit, or in an even number of
\* bits that do not lie within a byte of each other, two only if they are 127
\* bits apart.  It says nothing of an element that a timeout in mid-frame has made
\* of the rest of a frame.
THEOREM WhatTheCrcNotices == Spec => []CrcNotices
  <1>1. NoticeInv => CrcNotices
    BY DEF NoticeInv
  <1> QED BY InitNotice, NextNotice, <1>1, PTL DEF Spec

\* And so, as long as the header arrives and no half-bit is lost or doubled, three
\* changed values or fewer never make network_rx deliver a message of up to 14
\* bytes other than it was sent, unless some of its symbols could not be read, or a
\* timeout in mid-frame has made an element of what was left of a message of 6
\* bytes or more.
THEOREM WrongIsBlind == Spec => []WrongOnlyIfBlind
  <1>1. NoticeInv => WrongOnlyIfBlind
    BY DEF NoticeInv
  <1> QED BY InitNotice, NextNotice, <1>1, PTL DEF Spec

=============================================================================
