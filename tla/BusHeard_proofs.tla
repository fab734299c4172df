-------------------------- MODULE BusHeard_proofs ---------------------------
(***************************************************************************)
(* A proof about Bus, for any number of nodes and any frames: a frame sent *)
(* by one node alone is received by every node, bit for bit.               *)
(*                                                                         *)
(* A receiver appends a bit at every edge of the line, and one when the    *)
(* compare interrupt finds that the level has lasted longer than a         *)
(* half-bit.  Since the timeouts of all nodes count what the half-bit timer*)
(* of a lone sender does (BusCollision_proofs), how far each node has come *)
(* follows from where the sender is.  After the frame a node appends at    *)
(* most two bits until its timeout expires, less than make a byte.         *)
(***************************************************************************)
EXTENDS BusCollision_proofs

-----------------------------------------------------------------------------
(* The invariant.                                                          *)

\* r is the first k half-bits of f; r begins with f.
Has(r, f, k) == Len(r) = k /\ \A i \in 1 .. k : r[i] = f[i]

StartsWith(r, f) == Len(f) <= Len(r) /\ \A i \in 1 .. Len(f) : r[i] = f[i]

\* The half-bits of s that node m should have: all of them, but for one whose edge
\* it has not used and one like the last that it has not sampled.
Known(s, m) ==
    IF node[m].edge \/ (Same(s) /\ (node[m].timeout.count < SampleAt \/ node[m].sample))
    THEN node[s].cursor - 1 ELSE node[s].cursor

\* Node m has heard what the lone sender s has sent.
Heard(s, m) ==
    /\ Has(node[m].rx, Frame[s], Known(s, m))
    /\ node[m].edge => ~node[m].sample /\ node[m].isHigh \in {None, Frame[s][node[s].cursor]}
    /\ node[m].sample => node[m].timeout.count = SampleAt

\* Node m has received the frame just sent and waits for its timeout.
Ended(m) == node[m].edge \/ node[m].timeout.run =>
    /\ StartsWith(node[m].rx, aired)
    /\ Len(node[m].rx) <= Len(aired) + 2
    /\ node[m].edge => Len(node[m].rx) = Len(aired) /\ ~node[m].sample
    /\ node[m].sample => node[m].timeout.count = SampleAt
    /\ node[m].sample \/ (node[m].timeout.count < SampleAt /\ ~node[m].timeout.due)
          => Len(node[m].rx) <= Len(aired) + 1

AiredBy(s) == talkers = {s} /\ aired = Frame[s] /\ ~Inside(s)

HearInv == /\ \A s \in Nodes : talkers = {s} /\ Inside(s) => \A m \in Nodes : Heard(s, m)
           /\ aired # << >> => (\E s \in Nodes : AiredBy(s)) /\ \A m \in Nodes : Ended(m)

-----------------------------------------------------------------------------
(* The receive buffer.                                                     *)

\* The buffer holds every frame.
LEMMA FrameFits ==
    ASSUME NEW s \in Nodes
    PROVE  /\ Len(Frame[s]) <= MaxBytes * ByteBits /\ MaxBytes * ByteBits \in Nat
           /\ \E b \in Nat : MinBytes <= b /\ Len(Frame[s]) = ByteBits * b
  <1>1. PICK b \in MinBytes .. MaxBytes : Len(Frame[s]) = ByteBits * b
      BY LengthAssumption
  <1>2. ByteBits \in Nat /\ MinBytes \in Nat /\ MaxBytes \in Nat
      BY BufferAssumption
  <1>3. b \in Nat /\ MinBytes <= b /\ b <= MaxBytes
      BY <1>1, <1>2
  <1>4. \E k \in Nat : MaxBytes = b + k
    <2>1. MaxBytes - b \in Nat /\ MaxBytes = b + (MaxBytes - b)
        BY <1>2, <1>3
    <2> QED BY <2>1
  <1>5. PICK k \in Nat : MaxBytes = b + k
      BY <1>4
  <1>6. (b + k) * ByteBits = ByteBits * b + ByteBits * k /\ ByteBits * k \in Nat
        /\ ByteBits * b \in Nat
      BY <1>2, <1>3
  <1>7. MaxBytes * ByteBits = ByteBits * b + ByteBits * k
      BY <1>5, <1>6
  <1> QED BY <1>1, <1>3, <1>6, <1>7

\* The bytes in a buffer that holds a frame and at most two half-bits more.
LEMMA BytesOfFrame ==
    ASSUME NEW b \in Nat, NEW l \in Nat, l \in ByteBits * b .. ByteBits * b + 2
    PROVE  l \div ByteBits = b
  <1> DEFINE q == l \div ByteBits
  <1>1. ByteBits \in Nat /\ ByteBits > 2
      BY BufferAssumption, LengthAssumption
  <1>2. q \in Int /\ l = ByteBits * q + (l % ByteBits) /\ l % ByteBits \in 0 .. ByteBits - 1
      BY <1>1
  <1> HIDE DEF q
  <1>3. ~(q > b)
    <2> SUFFICES ASSUME q > b PROVE FALSE
        OBVIOUS
    <2>1. PICK k \in Nat : q = b + 1 + k
      <3>1. q - (b + 1) \in Nat /\ q = b + 1 + (q - (b + 1))
          BY <1>2
      <3> QED BY <3>1
    <2>2. ByteBits * (b + 1 + k) = ByteBits * b + ByteBits + ByteBits * k
          /\ ByteBits * k \in Nat /\ ByteBits * b \in Nat
        BY <1>1
    <2>3. ByteBits * q = ByteBits * b + ByteBits + ByteBits * k
        BY <2>1, <2>2
    <2> QED BY <1>1, <1>2, <2>2, <2>3
  <1>4. ~(q < b)
    <2> SUFFICES ASSUME q < b PROVE FALSE
        OBVIOUS
    <2>1. PICK k \in Nat : b = q + 1 + k
      <3>1. b - (q + 1) \in Nat /\ b = q + 1 + (b - (q + 1))
          BY <1>2
      <3> QED BY <3>1
    <2>2. ByteBits * (q + 1 + k) = ByteBits * q + ByteBits + ByteBits * k
          /\ ByteBits * k \in Nat /\ ByteBits * q \in Int
        BY <1>1, <1>2
    <2>3. ByteBits * b = ByteBits * q + ByteBits + ByteBits * k
        BY <2>1, <2>2
    <2> QED BY <1>1, <1>2, <2>2, <2>3
  <1> QED BY <1>2, <1>3, <1>4 DEF q

\* A push while there is room.
LEMMA PushHas ==
    ASSUME NEW r \in Seq({0, 1}), NEW f, NEW k \in Nat, NEW b \in {0, 1},
           Has(r, f, k), f[k + 1] = b, k <= MaxBytes * ByteBits
    PROVE  Has(Pushed(r, b), f, k + 1)
  <1>1. MaxBytes * ByteBits \in Nat
      BY BufferAssumption
  <1>2. Len(r) = k
      BY DEF Has
  <1>3. Pushed(r, b) = Append(r, b)
      BY <1>1, <1>2 DEF Pushed
  <1>4. Len(Append(r, b)) = k + 1 /\ Append(r, b)[k + 1] = b
        /\ \A i \in 1 .. k : Append(r, b)[i] = r[i]
      BY <1>2
  <1>5. \A i \in 1 .. k + 1 : i \in 1 .. k \/ i = k + 1
      OBVIOUS
  <1> QED BY <1>3, <1>4, <1>5 DEF Has

\* A push after the frame.
LEMMA PushStarts ==
    ASSUME NEW r \in Seq({0, 1}), NEW f \in Seq({0, 1}), NEW b \in {0, 1}, StartsWith(r, f)
    PROVE  StartsWith(Pushed(r, b), f) /\ Len(Pushed(r, b)) <= Len(r) + 1
  <1>1. CASE Pushed(r, b) = r
      BY <1>1
  <1>2. CASE Pushed(r, b) = Append(r, b)
    <2>1. Len(Append(r, b)) = Len(r) + 1 /\ \A i \in 1 .. Len(r) : Append(r, b)[i] = r[i]
        OBVIOUS
    <2>2. Len(r) \in Nat /\ Len(f) \in Nat /\ Len(f) <= Len(r)
        BY DEF StartsWith
    <2> QED BY <1>2, <2>1, <2>2 DEF StartsWith
  <1> QED BY <1>1, <1>2 DEF Pushed

-----------------------------------------------------------------------------
(* Inside the frame.                                                       *)

\* Where a lone sender is, and its line.
LEMMA SenderFacts ==
    ASSUME IInv, LoneInv, NEW s \in Nodes, talkers = {s}, Inside(s)
    PROVE  /\ Alone(s) /\ PhaseInv(s) /\ \A m \in Nodes \ {s} : ~Inside(m)
           /\ node[s].cursor \in 2 .. Len(Frame[s])
           /\ Line = Frame[s][node[s].cursor]
           /\ ~Same(s) => Phase(s) <= HalfBit
           /\ Same(s) <=> Frame[s][node[s].cursor - 1] = Frame[s][node[s].cursor]
           /\ Len(Frame[s]) \in Nat
  <1>1. Alone(s) /\ PhaseInv(s) /\ \A m \in Nodes \ {s} : ~Inside(m)
      BY DEF LoneInv, SpokenInv, Alone
  <1>2. node[s].cursor \in 2 .. Len(Frame[s]) /\ node[s].out = Frame[s][node[s].cursor]
        /\ node[s].out \in {0, 1}
      BY LowIsInside
  <1>3. Line = node[s].out
    <2>1. \A m \in Nodes \ {s} : node[m].out = 1
        BY <1>1, LowIsInside
    <2>2. (\A m \in Nodes : node[m].out = 1) <=> node[s].out = 1
        BY <2>1
    <2> QED BY <1>2, <2>2, LineValue DEF IInv, TypeInv
  <1>4. ~Same(s) => Phase(s) <= HalfBit
    <2>1. node[s].hb \in TimerType /\ TimerOK(node[s].hb) /\ node[s].hb.period = HalfBit
        BY NodeFacts DEF NodeType, NodeInv, TimersInv
    <2>2. HalfBit \in Nat /\ node[s].hb.count \in Nat
        BY <2>1, TimingAssumption DEF TimerType
    <2>3. node[s].hb.count <= HalfBit
        BY <2>1, <2>2 DEF TimerOK
    <2> QED BY <2>2, <2>3 DEF Phase
  <1> QED BY <1>1, <1>2, <1>3, <1>4, FrameFacts DEF Same

\* A local step leaves the sender where it is.
LEMMA LocalSender ==
    ASSUME IInv, NEW n \in Nodes, Local(n), Kept(node[n], node'[n]), NEW s \in Nodes
    PROVE  /\ talkers' = {s} /\ Inside(s)' => talkers = {s} /\ Inside(s)
           /\ Inside(s)' <=> Inside(s)
           /\ node'[s].cursor = node[s].cursor /\ (Same(s)' <=> Same(s))
           /\ aired' = aired
  <1>1. Inside(s)' <=> Inside(s)
      BY LocalFacts
  <1>2. node'[s].cursor = node[s].cursor
      BY LocalFacts
  <1> QED BY <1>1, <1>2 DEF Local, Same

\* It leaves the others with what they know.
LEMMA OthersHeard ==
    ASSUME IInv, NEW n \in Nodes, Local(n), Kept(node[n], node'[n]), NEW s \in Nodes,
           NEW m \in Nodes, m # n
    PROVE  /\ Heard(s, m) => Heard(s, m)'
           /\ Ended(m) => Ended(m)'
  <1>1. node'[m] = node[m] /\ aired' = aired
      BY DEF Local
  <1>2. node'[s].cursor = node[s].cursor /\ (Same(s)' <=> Same(s))
      BY LocalSender
  <1> QED BY <1>1, <1>2 DEF Heard, Ended, Known

\* So does one of the node itself that leaves its receiver alone.
LEMMA SilentHeard ==
    ASSUME IInv, NEW n \in Nodes, Local(n), Silent(node[n], node'[n]),
           SameRx(node[n], node'[n]), NEW s \in Nodes
    PROVE  /\ Heard(s, n) => Heard(s, n)'
           /\ Ended(n) => Ended(n)'
  <1>1. /\ node'[n].edge = node[n].edge /\ node'[n].isHigh = node[n].isHigh
        /\ node'[n].timeout = node[n].timeout /\ node'[n].rx = node[n].rx
        /\ node'[n].sample = node[n].sample /\ aired' = aired
      BY DEF Local, Silent, SameRx
  <1>2. node'[s].cursor = node[s].cursor /\ (Same(s)' <=> Same(s))
      BY LocalSender DEF Silent
  <1> QED BY <1>1, <1>2 DEF Heard, Ended, Known

\* The compare interrupt comes in the second of two equal half-bits, and adds it.
LEMMA SampleHeard ==
    ASSUME IInv, LoneInv, NEW n \in Nodes, Local(n), SampleEffect(node[n], node'[n]),
           NEW s \in Nodes, talkers = {s}, Inside(s), Heard(s, n)
    PROVE  Heard(s, n)'
  <1> DEFINE x == node[n]
             y == node'[n]
             c == node[s].cursor
             f == Frame[s]
  <1>1. /\ x.sample /\ ~y.sample /\ y.edge = x.edge /\ y.isHigh = x.isHigh
        /\ y.timeout = x.timeout /\ y.rx = Pushed(x.rx, x.rx[Len(x.rx)])
      BY DEF SampleEffect, Silent
  <1>2. ~x.edge /\ x.timeout.count = SampleAt
      BY <1>1 DEF Heard
  <1>3. Phase(s) = SampleAt
      BY <1>2, SenderFacts DEF PhaseInv, Waits
  <1>4. Same(s)
      BY <1>3, SenderFacts, TimingAssumption
  <1>5. /\ c \in 2 .. Len(f) /\ f[c - 1] = f[c] /\ Len(f) \in Nat
      BY <1>4, SenderFacts
  <1>6. Has(x.rx, f, c - 1)
      BY <1>1, <1>4 DEF Heard, Known
  <1>7. x.rx \in Seq({0, 1}) /\ x.rx[Len(x.rx)] \in {0, 1}
      BY NodeFacts, RxOps DEF NodeType, NodeInv
  <1>8. x.rx[Len(x.rx)] = f[c]
      BY <1>5, <1>6 DEF Has
  <1>9. Has(y.rx, f, c)
    <2>1. c - 1 \in Nat /\ (c - 1) + 1 = c
        BY <1>5
    <2>2. c - 1 <= MaxBytes * ByteBits
        BY <1>5, FrameFits
    <2> QED BY <1>1, <1>6, <1>7, <1>8, <2>1, <2>2, PushHas
  <1>10. Known(s, n)' = c
    <2>1. ~(SampleAt < SampleAt)
        BY TimingAssumption
    <2>2. node'[s].cursor = c
        BY LocalSender DEF SampleEffect, Silent
    <2> QED BY <1>1, <1>2, <2>1, <2>2 DEF Known
  <1> QED BY <1>1, <1>2, <1>9, <1>10 DEF Heard

\* The edge handler reads the half-bit that the sender drives.
LEMMA ReadHeard ==
    ASSUME IInv, LoneInv, NEW n \in Nodes, Local(n), ReadEffect(node[n], node'[n]),
           NEW s \in Nodes, talkers = {s}, Inside(s), Heard(s, n)
    PROVE  Heard(s, n)'
  <1>1. /\ node[n].edge /\ node'[n].edge /\ node'[n].isHigh = Line
        /\ node'[n].rx = node[n].rx /\ node'[n].sample = node[n].sample
      BY DEF ReadEffect, SameRx
  <1>2. node'[s].cursor = node[s].cursor
      BY LocalSender DEF ReadEffect
  <1>3. Line = Frame[s][node[s].cursor]
      BY SenderFacts
  <1> QED BY <1>1, <1>2, <1>3 DEF Heard, Known

\* And appends it: no other edge has come in between.
LEMMA UseHeard ==
    ASSUME IInv, LoneInv, NEW n \in Nodes, Local(n), UseEffect(node[n], node'[n]),
           NEW s \in Nodes, talkers = {s}, Inside(s), Heard(s, n)
    PROVE  Heard(s, n)'
  <1> DEFINE x == node[n]
             y == node'[n]
             c == node[s].cursor
             f == Frame[s]
  <1>1. /\ x.edge /\ ~y.edge /\ x.isHigh \in {0, 1} /\ y.sample = x.sample
        /\ y.rx = Pushed(x.rx, x.isHigh)
      BY DEF UseEffect
  <1>2. ~x.sample /\ x.isHigh = f[c] /\ Has(x.rx, f, c - 1)
      BY <1>1 DEF Heard, Known, None
  <1>3. ~Same(s)
      BY <1>1, SenderFacts, PhaseZero DEF PhaseInv
  <1>4. c \in 2 .. Len(f) /\ Len(f) \in Nat
      BY SenderFacts
  <1>5. Has(y.rx, f, c)
    <2>1. c - 1 \in Nat /\ (c - 1) + 1 = c
        BY <1>4
    <2>2. c - 1 <= MaxBytes * ByteBits
        BY <1>4, FrameFits
    <2>3. x.rx \in Seq({0, 1})
        BY NodeFacts DEF NodeType
    <2> QED BY <1>1, <1>2, <2>1, <2>2, <2>3, PushHas
  <1>6. Known(s, n)' = c
      BY <1>1, <1>3, LocalSender DEF Known, UseEffect
  <1> QED BY <1>1, <1>2, <1>5, <1>6 DEF Heard

-----------------------------------------------------------------------------
(* After it.                                                               *)

\* The compare interrupt adds a bit, once.
LEMMA SampleEnded ==
    ASSUME IInv, NEW n \in Nodes, Local(n), SampleEffect(node[n], node'[n]),
           RestInv, Ended(n), aired \in Seq({0, 1})
    PROVE  Ended(n)'
  <1> DEFINE x == node[n]
             y == node'[n]
  <1>1. /\ x.sample /\ ~y.sample /\ y.edge = x.edge
        /\ y.timeout = x.timeout /\ y.rx = Pushed(x.rx, x.rx[Len(x.rx)])
        /\ ~x.timeout.due /\ aired' = aired
      BY DEF SampleEffect, Silent, Local
  <1>2. x.timeout.run
      BY <1>1 DEF RestInv
  <1>3. /\ StartsWith(x.rx, aired) /\ Len(x.rx) <= Len(aired) + 1
        /\ ~x.edge /\ x.timeout.count = SampleAt
      BY <1>1, <1>2 DEF Ended
  <1>4. x.rx \in Seq({0, 1}) /\ x.rx[Len(x.rx)] \in {0, 1}
      BY NodeFacts, RxOps DEF NodeType, NodeInv
  <1>5. StartsWith(y.rx, aired) /\ Len(y.rx) <= Len(x.rx) + 1
      BY <1>1, <1>3, <1>4, PushStarts
  <1>6. Len(y.rx) <= Len(aired) + 2
    <2>1. y.rx \in Seq({0, 1})
        BY DEF Local, NodeType
    <2>2. Len(x.rx) \in Nat /\ Len(y.rx) \in Nat /\ Len(aired) \in Nat
        BY <1>4, <2>1
    <2> QED BY <1>3, <1>5, <2>2
  <1>7. ~(SampleAt < SampleAt)
      BY TimingAssumption
  <1> QED BY <1>1, <1>3, <1>5, <1>6, <1>7 DEF Ended

\* The last edge is the release of the line: it adds the first of the two bits.
LEMMA UseEnded ==
    ASSUME IInv, NEW n \in Nodes, Local(n), UseEffect(node[n], node'[n]),
           Ended(n), aired \in Seq({0, 1})
    PROVE  Ended(n)'
  <1> DEFINE x == node[n]
             y == node'[n]
  <1>1. /\ x.edge /\ ~y.edge /\ x.isHigh \in {0, 1} /\ y.sample = x.sample
        /\ y.rx = Pushed(x.rx, x.isHigh) /\ aired' = aired
      BY DEF UseEffect, Local
  <1>2. StartsWith(x.rx, aired) /\ Len(x.rx) = Len(aired) /\ ~x.sample
      BY <1>1 DEF Ended
  <1>3. x.rx \in Seq({0, 1}) /\ y.rx \in Seq({0, 1})
      BY NodeFacts DEF Local, NodeType
  <1>4. StartsWith(y.rx, aired) /\ Len(y.rx) <= Len(x.rx) + 1
      BY <1>1, <1>2, <1>3, PushStarts
  <1>5. Len(x.rx) \in Nat /\ Len(y.rx) \in Nat /\ Len(aired) \in Nat
      BY <1>3
  <1> QED BY <1>1, <1>2, <1>4, <1>5 DEF Ended

\* The first half of the handler only begins the count anew.
LEMMA ReadEnded ==
    ASSUME IInv, NEW n \in Nodes, Local(n), ReadEffect(node[n], node'[n]),
           Ended(n), aired \in Seq({0, 1})
    PROVE  Ended(n)'
  <1>1. /\ node[n].edge /\ node'[n].edge /\ aired' = aired
        /\ node'[n].rx = node[n].rx /\ node'[n].sample = node[n].sample
      BY DEF ReadEffect, SameRx, Local
  <1>2. Len(node[n].rx) = Len(aired) /\ ~node[n].sample /\ StartsWith(node[n].rx, aired)
      BY <1>1 DEF Ended
  <1>3. Len(aired) \in Nat
      OBVIOUS
  <1> QED BY <1>1, <1>2, <1>3 DEF Ended

\* The timeout handler ends the reception.
LEMMA TimeoutEnded ==
    ASSUME NEW n \in Nodes, TimeoutEffect(node[n], node'[n]), NEW s \in Nodes, Alone(s)
    PROVE  Ended(n)'
  <1>1. ~node[n].edge
      BY DEF TimeoutEffect, Alone, DueInv, Calm
  <1> QED BY <1>1 DEF TimeoutEffect, Ended

-----------------------------------------------------------------------------
(* The steps.                                                              *)

\* The frame just sent is a sequence of bits.
LEMMA AiredBits == IInv => aired \in Seq({0, 1})
  <1>1. << >> \in Seq({0, 1}) /\ \A n \in Nodes : Frame[n] \in Seq({0, 1})
      BY BusAssumption
  <1> QED BY <1>1 DEF IInv, TypeInv

\* A local step that leaves node n with what it knows keeps the invariant.
LEMMA LocalHear ==
    ASSUME IInv, LoneInv, HearInv, NEW n \in Nodes, Local(n), Kept(node[n], node'[n]),
           \A s \in Nodes : talkers = {s} /\ Inside(s) /\ Heard(s, n) => Heard(s, n)',
           \A s \in Nodes : Alone(s) /\ Ended(n) => Ended(n)'
    PROVE  HearInv'
  <1>1. ASSUME NEW s \in Nodes, talkers' = {s}, Inside(s)', NEW m \in Nodes
        PROVE  Heard(s, m)'
    <2>1. talkers = {s} /\ Inside(s)
        BY <1>1, LocalSender
    <2>2. Heard(s, m) /\ Heard(s, n)
        BY <2>1 DEF HearInv
    <2> QED BY <2>1, <2>2, OthersHeard
  <1>2. ASSUME aired' # << >>
        PROVE  (\E s \in Nodes : AiredBy(s)') /\ \A m \in Nodes : Ended(m)'
    <2>1. aired' = aired /\ talkers' = talkers
        BY DEF Local
    <2>2. PICK s \in Nodes : AiredBy(s)
        BY <1>2, <2>1 DEF HearInv
    <2>3. AiredBy(s)'
        BY <2>1, <2>2, LocalSender DEF AiredBy
    <2>4. \A m \in Nodes : Ended(m)
        BY <1>2, <2>1 DEF HearInv
    <2>5. Alone(s)
        BY <2>2 DEF AiredBy, LoneInv
    <2>6. \A m \in Nodes : Ended(m)'
        BY <2>4, <2>5, OthersHeard
    <2> QED BY <2>3, <2>6
  <1> QED BY <1>1, <1>2 DEF HearInv

\* Main and the end of a backoff do.
LEMMA SilentHear ==
    ASSUME IInv, LoneInv, HearInv, NEW n \in Nodes, Local(n), Silent(node[n], node'[n]),
           SameRx(node[n], node'[n])
    PROVE  HearInv'
    BY SilentHeard, LocalHear DEF Silent

\* So does the receiver.
LEMMA ReceiverHear ==
    ASSUME IInv, LoneInv, HearInv, NEW n \in Nodes, Local(n),
           \/ ReadEffect(node[n], node'[n]) \/ UseEffect(node[n], node'[n])
           \/ SampleEffect(node[n], node'[n])
    PROVE  HearInv'
  <1>1. Kept(node[n], node'[n])
      BY DEF ReadEffect, UseEffect, SampleEffect, Silent
  <1>2. ASSUME NEW s \in Nodes, talkers = {s}, Inside(s), Heard(s, n)
        PROVE  Heard(s, n)'
      BY <1>2, ReadHeard, UseHeard, SampleHeard
  <1>3. Ended(n) => Ended(n)'
      BY AiredBits, ReadEnded, UseEnded, SampleEnded DEF LoneInv
  <1> QED BY <1>1, <1>2, <1>3, LocalHear

\* The timeout does not expire inside the frame.
LEMMA TimeoutHear ==
    ASSUME IInv, LoneInv, HearInv, NEW n \in Nodes, Local(n),
           TimeoutEffect(node[n], node'[n])
    PROVE  HearInv'
  <1>1. Kept(node[n], node'[n]) /\ node[n].timeout.due
      BY DEF TimeoutEffect
  <1>2. ASSUME NEW s \in Nodes, talkers = {s}, Inside(s)
        PROVE  FALSE
      BY <1>1, <1>2, SenderFacts DEF PhaseInv
  <1>3. ASSUME NEW s \in Nodes, Alone(s) PROVE Ended(n)'
      BY <1>3, TimeoutEnded
  <1> QED BY <1>1, <1>2, <1>3, LocalHear

\* Time passes: the compare interrupt becomes pending when it is due, the edges and
\* the samples of the instant have been used.
LEMMA TickHear ==
    ASSUME IInv, LoneInv, HearInv, Tick
    PROVE  HearInv'
  <1>0. {SampleAt, TimeoutAt, HalfBit} \subseteq Nat /\ SampleAt < TimeoutAt
        /\ 2 * HalfBit < TimeoutAt /\ HalfBit < TimeoutAt /\ SampleAt > 0
      BY TimingAssumption
  <1>1. ASSUME NEW s \in Nodes, talkers' = {s}, Inside(s)', NEW m \in Nodes
        PROVE  Heard(s, m)'
    <2>1. talkers = {s} /\ Inside(s) /\ node'[s].cursor = node[s].cursor
          /\ (Same(s)' <=> Same(s))
        BY <1>1, TickSteps DEF Inside, Same
    <2>2. Heard(s, m)
        BY <2>1 DEF HearInv
    <2>3. Phase(s) \in Nat /\ Phase(s) + 1 <= (IF Same(s) THEN 2 * HalfBit ELSE HalfBit)
        BY <2>1, PhaseTick
    <2>4. ~node[m].edge /\ ~node[m].sample /\ ~node'[m].edge /\ node'[m].rx = node[m].rx
        BY TickSteps
    <2>5. node[m].timeout.run /\ node[m].timeout.count = Phase(s)
        BY <2>1, <2>4, SenderFacts DEF PhaseInv, Waits
    <2>6. node[m].timeout.count + 1 # TimeoutAt
        BY <1>0, <2>3, <2>5
    <2>7. /\ node'[m].timeout.count = node[m].timeout.count + 1
          /\ node'[m].sample <=> node[m].timeout.count + 1 = SampleAt
        BY <2>5, <2>6, TickSteps
    <2>8. node'[m].timeout.count < SampleAt \/ node'[m].sample <=> node[m].timeout.count < SampleAt
        BY <1>0, <2>3, <2>5, <2>7
    <2>9. Known(s, m)' = Known(s, m)
        BY <2>1, <2>4, <2>8 DEF Known
    <2> QED BY <2>2, <2>4, <2>7, <2>9 DEF Heard
  <1>2. ASSUME aired' # << >>
        PROVE  (\E s \in Nodes : AiredBy(s)') /\ \A m \in Nodes : Ended(m)'
    <2>1. aired' = aired /\ talkers' = talkers
        BY TickSteps
    <2>2. PICK s \in Nodes : AiredBy(s)
        BY <1>2, <2>1 DEF HearInv
    <2>3. AiredBy(s)'
        BY <2>1, <2>2, TickSteps DEF AiredBy, Inside
    <2>4. ASSUME NEW m \in Nodes PROVE Ended(m)'
      <3>1. Ended(m)
          BY <1>2, <2>1 DEF HearInv
      <3> SUFFICES ASSUME node'[m].timeout.run
                   PROVE  /\ StartsWith(node[m].rx, aired)
                          /\ Len(node[m].rx) <= Len(aired) + 2
                          /\ node'[m].sample => node'[m].timeout.count = SampleAt
                          /\ node'[m].sample \/ (node'[m].timeout.count < SampleAt /\ ~node'[m].timeout.due)
                                => Len(node[m].rx) <= Len(aired) + 1
          BY <2>1, TickSteps DEF Ended
      <3>2. node[m].timeout.run /\ ~node[m].timeout.due /\ node[m].timeout.count \in Nat
          BY TickSteps
      <3>3. /\ StartsWith(node[m].rx, aired) /\ Len(node[m].rx) <= Len(aired) + 2
            /\ node[m].timeout.count < SampleAt => Len(node[m].rx) <= Len(aired) + 1
          BY <3>1, <3>2 DEF Ended
      <3>4. CASE node[m].timeout.count + 1 = TimeoutAt
        <4>1. node'[m].timeout.due /\ ~node'[m].sample
            BY <1>0, <3>2, <3>4, TickSteps
        <4> QED BY <3>3, <4>1
      <3>5. CASE node[m].timeout.count + 1 # TimeoutAt
        <4>1. /\ node'[m].timeout.count = node[m].timeout.count + 1
              /\ node'[m].sample <=> node[m].timeout.count + 1 = SampleAt
            BY <3>2, <3>5, TickSteps
        <4>2. node'[m].sample \/ node'[m].timeout.count < SampleAt => node[m].timeout.count < SampleAt
            BY <1>0, <3>2, <4>1
        <4> QED BY <3>3, <4>1, <4>2
      <3> QED BY <3>4, <3>5
    <2> QED BY <2>3, <2>4
  <1> QED BY <1>1, <1>2 DEF HearInv

-----------------------------------------------------------------------------
(* TIM4's handler.                                                         *)

\* When a lone sender is due every node knows all it has sent.
LEMMA AllHeard ==
    ASSUME IInv, LoneInv, HearInv, NEW s \in Nodes, talkers = {s}, Inside(s), node[s].hb.due,
           NEW m \in Nodes
    PROVE  /\ Has(node[m].rx, Frame[s], node[s].cursor)
           /\ ~node[m].edge /\ ~node[m].sample /\ node[m].isHigh = None
           /\ node[m].timeout.run /\ ~node[m].timeout.due
           /\ ~Same(s) => node[m].timeout.count < SampleAt
  <1>1. /\ ~node[m].edge /\ node[m].isHigh = None
        /\ node[m].timeout.run /\ ~node[m].timeout.due
        /\ node[m].timeout.count = (IF Same(s) THEN 2 * HalfBit ELSE HalfBit)
      BY DueInside, SenderFacts
  <1>2. Heard(s, m)
      BY DEF HearInv
  <1>3. ~node[m].sample
      BY <1>1, <1>2, TimingAssumption DEF Heard
  <1>4. Same(s) => ~(node[m].timeout.count < SampleAt)
      BY <1>1, TimingAssumption
  <1>5. Known(s, m) = node[s].cursor
      BY <1>1, <1>3, <1>4 DEF Known
  <1>6. ~Same(s) => node[m].timeout.count < SampleAt
      BY <1>1, TimingAssumption
  <1> QED BY <1>1, <1>2, <1>3, <1>5, <1>6 DEF Heard

\* The next half-bit of a lone sender makes an edge, or is like the last.
LEMMA NextHeard ==
    ASSUME IInv, LoneInv, HearInv, NEW s \in Nodes, talkers = {s}, Inside(s),
           NEW y, Driven(s, y), y.cursor # 0, NEW m \in Nodes
    PROVE  Heard(s, m)'
  <1> DEFINE f == Frame[s]
             c == node[s].cursor
  <1>1. /\ Alone(s) /\ \A k \in Nodes \ {s} : ~Inside(k)
        /\ c \in 2 .. Len(f) /\ Line = f[c] /\ (Same(s) <=> f[c - 1] = f[c]) /\ Len(f) \in Nat
      BY SenderFacts
  <1>2. node[s].hb.due /\ HalfBitFrame(node[s], y, f)
      BY DEF Driven, HalfBitEffect
  <1>3. y.cursor = c + 1 /\ c + 1 <= Len(f) /\ y.out = f[c + 1]
      BY <1>2 DEF HalfBitFrame
  <1>4. node'[s].cursor = c + 1 /\ Line' = f[c + 1]
      BY <1>1, <1>3, DrivenLine DEF Driven
  <1>5. /\ node'[m].edge <=> (Line' # Line \/ node[m].edge)
        /\ node'[m].isHigh = node[m].isHigh /\ node'[m].timeout = node[m].timeout
        /\ node'[m].rx = node[m].rx /\ node'[m].sample = node[m].sample
      BY DEF Driven, SameRx
  <1>6. /\ Has(node[m].rx, f, c)
        /\ ~node[m].edge /\ ~node[m].sample /\ node[m].isHigh = None
        /\ ~Same(s) => node[m].timeout.count < SampleAt
      BY <1>2, AllHeard
  <1>7. (c + 1) - 1 = c
      BY <1>1
  <1>8. Same(s)' <=> f[c] = f[c + 1]
      BY <1>4, <1>7 DEF Same
  <1>9. Known(s, m)' = c
    <2>1. CASE f[c] # f[c + 1]
        BY <1>1, <1>4, <1>5, <1>7, <2>1 DEF Known
    <2>2. CASE f[c] = f[c + 1]
      <3>1. ~Same(s)
        <4>1. c - 1 \in 1 .. Len(f) - 2 /\ (c - 1) + 1 = c /\ (c - 1) + 2 = c + 1
            BY <1>1, <1>3
        <4>2. f[c - 1] # f[c] \/ f[c] # f[c + 1]
            BY <4>1, FrameFacts
        <4> QED BY <1>1, <2>2, <4>2
      <3> QED BY <1>4, <1>5, <1>6, <1>7, <1>8, <2>2, <3>1 DEF Known
    <2> QED BY <2>1, <2>2
  <1> QED BY <1>5, <1>6, <1>9 DEF Heard

\* The first fall is heard by nodes that hear nothing else.
LEMMA FallHeard ==
    ASSUME IInv, LoneInv, NEW s \in Nodes, NEW y, Driven(s, y), y.out = 0, ~Inside(s),
           talkers' = {s}, NEW m \in Nodes
    PROVE  Heard(s, m)'
  <1>1. Still /\ \A k \in Nodes : ~Inside(k)
      BY FallStill
  <1>2. node[s].out = 1 /\ Line = 1 /\ Line' = 0
      BY <1>1, LowIsInside, DrivenLine
  <1>3. /\ node'[m].edge /\ node'[m].isHigh = node[m].isHigh
        /\ node'[m].rx = node[m].rx /\ node'[m].sample = node[m].sample
      BY <1>2 DEF Driven, SameRx
  <1>4. /\ node[m].isHigh = None /\ node[m].rx = <<1>> /\ ~node[m].sample
      BY <1>1, NodeFacts DEF Still, LoneInv, RestInv, NodeInv, HandlerInv
  <1>5. node'[s].cursor = 2
    <2>1. node[s].cursor <= 1 /\ node[s].cursor \in Nat
        BY LowIsInside
    <2>2. y.cursor = node[s].cursor + 1 /\ y.out = Frame[s][y.cursor]
        BY DEF Driven, HalfBitEffect, HalfBitFrame
    <2>3. Frame[s][1] = 1
        BY FrameFacts
    <2>4. y.cursor = 2
        BY <2>1, <2>2, <2>3
    <2> QED BY <2>4 DEF Driven
  <1>6. Has(<<1>>, Frame[s], 1)
      BY FrameFacts DEF Has
  <1>7. Known(s, m)' = 1
      BY <1>3, <1>5 DEF Known
  <1> QED BY <1>3, <1>4, <1>6, <1>7 DEF Heard

\* A frame that ends leaves every node with all of it.
LEMMA EndHeard ==
    ASSUME IInv, LoneInv, HearInv, NEW s \in Nodes, talkers = {s}, Inside(s),
           NEW y, Driven(s, y), y.cursor = 0, aired' = Frame[s], NEW m \in Nodes
    PROVE  Ended(m)'
  <1> DEFINE f == Frame[s]
             c == node[s].cursor
  <1>1. /\ Alone(s) /\ node[s].hb.due /\ Len(f) \in Nat
        /\ node[s].state # "COLLISION"
      BY SenderFacts DEF Driven, HalfBitEffect, Alone, NoCollision
  <1>2. c = Len(f)
      BY <1>1 DEF Driven, HalfBitEffect
  <1>3. /\ node'[m].timeout = node[m].timeout
        /\ node'[m].rx = node[m].rx /\ node'[m].sample = node[m].sample
      BY DEF Driven, SameRx
  <1>4. Has(node[m].rx, f, c) /\ ~node[m].sample
      BY <1>1, AllHeard
  <1>5. StartsWith(node[m].rx, f) /\ Len(node[m].rx) = Len(f)
      BY <1>1, <1>2, <1>4 DEF Has, StartsWith
  <1> QED BY <1>1, <1>3, <1>4, <1>5 DEF Ended

\* TIM4's handler keeps the invariant.
LEMMA HalfBitHear ==
    ASSUME IInv, LoneInv, HearInv, NEW n \in Nodes, ServeHalfBit(n)
    PROVE  HearInv'
  <1>1. PICK y : Driven(n, y)
      BY HalfBitSteps
  <1>2. /\ y.out \in {0, 1} /\ (y.out = node[n].out => Line' = Line)
        /\ y.cursor \in Nat /\ (y.cursor = 0 \/ y.cursor = node[n].cursor + 1)
      BY <1>1, DrivenLine
  <1>3. /\ y.out = 1 => talkers' = talkers
        /\ y.out = 0 /\ Quiet => talkers' = {n}
        /\ y.out = 0 /\ ~Quiet => talkers' = talkers \cup {n}
      BY <1>1 DEF Driven, Recorded
  <1>4. Inside(n) => n \in talkers /\ ~Quiet
      BY LowIsInside DEF LoneInv, SpokenInv, Quiet, Inside
  <1>5. /\ HalfBitFrame(node[n], y, Frame[n]) /\ node'[n].cursor = y.cursor
        /\ \A m \in Nodes \ {n} : node'[m].cursor = node[m].cursor
        /\ y.out = 0 => aired' = << >>
        /\ aired' # aired /\ y.out = 1 => y.queued < node[n].queued /\ talkers = {n} /\ aired' = Frame[n]
      BY <1>1, <1>2 DEF Driven, HalfBitEffect, Recorded
  <1>6. ASSUME ~Inside(n), y.out = 1
        PROVE  /\ \A m \in Nodes : /\ node'[m].edge <=> node[m].edge
                                   /\ node'[m].isHigh = node[m].isHigh
                                   /\ node'[m].timeout = node[m].timeout
                                   /\ node'[m].rx = node[m].rx /\ node'[m].sample = node[m].sample
               /\ ~Inside(n)'
    <2>1. Line' = Line
        BY <1>2, <1>6, LowIsInside
    <2>2. y.cursor <= 1
      <3>1. node[n].cursor <= 1 /\ node[n].cursor \in Nat
          BY <1>6, LowIsInside
      <3>2. y.cursor # 2
          BY <1>5, <1>6, FrameFacts DEF HalfBitFrame
      <3> QED BY <1>2, <3>1, <3>2
    <2>3. ~Inside(n)'
        BY <1>2, <1>5, <2>2 DEF Inside
    <2> QED BY <1>1, <2>1, <2>3 DEF Driven, SameRx
  <1>7. ASSUME NEW s \in Nodes, talkers' = {s}, Inside(s)', NEW m \in Nodes
        PROVE  Heard(s, m)'
    <2>1. CASE y.out = 1 /\ ~Inside(n)
      <3>1. s # n /\ talkers = {s}
          BY <1>3, <1>6, <1>7, <2>1
      <3>2. node'[s].cursor = node[s].cursor /\ Inside(s) /\ (Same(s)' <=> Same(s))
          BY <1>5, <1>7, <3>1 DEF Inside, Same
      <3>3. Heard(s, m)
          BY <3>1, <3>2 DEF HearInv
      <3> QED BY <1>6, <2>1, <3>2, <3>3 DEF Heard, Known
    <2>2. CASE Inside(n)
      <3>1. s = n /\ talkers = {s}
          BY <1>2, <1>3, <1>4, <1>7, <2>2
      <3>2. y.cursor # 0
          BY <1>5, <1>7, <3>1 DEF Inside
      <3> QED BY <1>1, <2>2, <3>1, <3>2, NextHeard
    <2>3. CASE y.out = 0 /\ ~Inside(n)
        BY <1>1, <1>7, <2>3, FallStill, FallHeard
    <2> QED BY <1>2, <2>1, <2>2, <2>3
  <1>8. ASSUME aired' # << >>
        PROVE  (\E s \in Nodes : AiredBy(s)') /\ \A m \in Nodes : Ended(m)'
    <2>1. y.out = 1 /\ talkers' = talkers
        BY <1>2, <1>3, <1>5, <1>8
    <2>2. CASE aired' = aired
      <3>1. PICK s \in Nodes : AiredBy(s)
          BY <1>8, <2>2 DEF HearInv
      <3>2. ~Inside(n)
          BY <1>4, <3>1 DEF AiredBy
      <3>3. AiredBy(s)'
          BY <1>5, <1>6, <2>1, <2>2, <3>1, <3>2 DEF AiredBy, Inside
      <3>4. \A m \in Nodes : Ended(m)
          BY <1>8, <2>2 DEF HearInv
      <3>5. \A m \in Nodes : Ended(m)'
          BY <1>6, <2>1, <2>2, <3>2, <3>4 DEF Ended
      <3> QED BY <3>3, <3>5
    <2>3. CASE aired' # aired
      <3>1. talkers = {n} /\ aired' = Frame[n] /\ y.queued < node[n].queued
          BY <1>5, <2>1, <2>3
      <3>2. y.cursor = 0 /\ Inside(n)
        <4>1. node[n].queued \in Nat
            BY NodeFacts
        <4>2. y.cursor = 0 /\ node[n].cursor = Len(Frame[n])
            BY <1>5, <3>1, <4>1 DEF HalfBitFrame
        <4> QED BY <4>2, FrameFacts DEF Inside
      <3>3. AiredBy(n)'
          BY <1>5, <2>1, <3>1, <3>2 DEF AiredBy, Inside
      <3> QED BY <1>1, <3>1, <3>2, <3>3, EndHeard
    <2> QED BY <2>2, <2>3
  <1> QED BY <1>7, <1>8 DEF HearInv

-----------------------------------------------------------------------------
(* The theorem.                                                            *)

\* Every step keeps the invariant.
LEMMA NextHear == IInv /\ LoneInv /\ HearInv /\ [Next]_vars => HearInv'
  <1> SUFFICES ASSUME IInv, LoneInv, HearInv, [Next]_vars PROVE HearInv'
      OBVIOUS
  <1>1. CASE Tick
      BY <1>1, TickHear
  <1>2. ASSUME NEW n \in Nodes, NetworkTx(n) \/ NetworkTxNothing(n) \/ Main(n)
        PROVE  HearInv'
      BY <1>2, MainSteps, SilentHear DEF MainEffect
  <1>3. ASSUME NEW n \in Nodes, Handler(n)
        PROVE  HearInv'
    <2>1. CASE ReadEdge(n)
        BY <2>1, ReadSteps, ReceiverHear
    <2>2. CASE UseEdge(n)
        BY <2>2, UseSteps, ReceiverHear
    <2>3. CASE ServeTimeout(n)
        BY <2>3, TimeoutSteps, TimeoutHear
    <2>4. CASE ServeSample(n)
        BY <2>4, SampleSteps, ReceiverHear
    <2>5. CASE ServeBackoff(n)
        BY <2>5, BackoffSteps, SilentHear DEF BackoffEffect
    <2>6. CASE ServeHalfBit(n)
        BY <2>6, HalfBitHear
    <2> QED BY <1>3, <2>1, <2>2, <2>3, <2>4, <2>5, <2>6 DEF Handler
  <1>4. CASE UNCHANGED vars
    <2>1. node' = node /\ talkers' = talkers /\ aired' = aired
        BY <1>4 DEF vars, traffic
    <2>2. \A s \in Nodes : /\ Inside(s)' <=> Inside(s)
                           /\ AiredBy(s)' <=> AiredBy(s)
                           /\ Ended(s)' <=> Ended(s)
                           /\ \A m \in Nodes : Heard(s, m)' <=> Heard(s, m)
        BY <2>1 DEF Inside, AiredBy, Ended, Heard, Known, Same
    <2> QED BY <2>1, <2>2 DEF HearInv
  <1> QED BY <1>1, <1>2, <1>3, <1>4 DEF Next

\* The end of a reception hands over the frame.
LEMMA EndDelivers ==
    ASSUME IInv, LoneInv, HearInv, [Next]_vars, NEW n \in Nodes,
           aired # << >>, node[n].timeout.run, ~node'[n].timeout.run, Line = 1
    PROVE  node'[n].got = aired
  <1>1. ServeTimeout(n)
    <2>1. ASSUME NEW m \in Nodes, Local(m), m # n PROVE FALSE
        BY <2>1 DEF Local
    <2>2. ~Tick
        BY TickSteps
    <2>3. ASSUME NEW m \in Nodes, NetworkTx(m) \/ NetworkTxNothing(m) \/ Main(m)
          PROVE  FALSE
        BY <2>1, <2>3, MainSteps DEF MainEffect, Silent
    <2>4. ASSUME NEW m \in Nodes, Handler(m) PROVE ServeTimeout(n)
      <3>1. ~ReadEdge(m) /\ ~UseEdge(m)
          BY <2>1, ReadSteps, UseSteps DEF ReadEffect, UseEffect
      <3>2. ~ServeSample(m) /\ ~ServeBackoff(m)
          BY <2>1, SampleSteps, BackoffSteps DEF SampleEffect, BackoffEffect, Silent
      <3>3. ~ServeHalfBit(m)
          BY HalfBitSteps DEF Driven
      <3>4. ServeTimeout(m) => m = n
          BY <2>1, TimeoutSteps
      <3> QED BY <2>4, <3>1, <3>2, <3>3, <3>4 DEF Handler
    <2>5. ~UNCHANGED vars
        BY DEF vars
    <2> QED BY <2>2, <2>3, <2>4, <2>5 DEF Next
  <1> DEFINE r == node[n].rx
  <1>2. Ended(n) /\ \E s \in Nodes : aired = Frame[s]
      BY DEF HearInv, AiredBy
  <1>3. PICK s \in Nodes : aired = Frame[s]
      BY <1>2
  <1>4. PICK b \in Nat : MinBytes <= b /\ Len(aired) = ByteBits * b
      BY <1>3, FrameFits
  <1>5. r \in Seq({0, 1}) /\ aired \in Seq({0, 1})
      BY NodeFacts, AiredBits DEF NodeType
  <1>6. StartsWith(r, aired) /\ Len(r) <= Len(aired) + 2
      BY <1>2 DEF Ended
  <1>7. Bytes(r) = b
    <2>1. Len(r) \in Nat /\ Len(aired) \in Nat /\ Len(aired) <= Len(r)
        BY <1>5, <1>6 DEF StartsWith
    <2>2. Len(r) \in ByteBits * b .. ByteBits * b + 2
        BY <1>4, <1>6, <2>1
    <2> QED BY <2>1, <2>2, BytesOfFrame DEF Bytes
  <1>8. node'[n].got = SubSeq(r, 1, Len(aired))
    <2>1. Bytes(r) >= MinBytes
        BY <1>4, <1>7, BufferAssumption
    <2>2. TimeoutEffect(node[n], node'[n])
        BY <1>1, TimeoutSteps
    <2> QED BY <1>4, <1>7, <2>1, <2>2 DEF TimeoutEffect
  <1>9. SubSeq(r, 1, Len(aired)) = aired
    <2> DEFINE q == SubSeq(r, 1, Len(aired))
    <2>1. Len(aired) \in 0 .. Len(r)
        BY <1>5, <1>6 DEF StartsWith
    <2>2. q \in Seq({0, 1}) /\ Len(q) = Len(aired) /\ \A i \in 1 .. Len(aired) : q[i] = r[i]
        BY <1>5, <2>1
    <2>3. \A i \in 1 .. Len(aired) : q[i] = aired[i]
        BY <1>6, <2>2 DEF StartsWith
    <2> HIDE DEF q
    <2> QED BY <1>5, <2>2, <2>3
  <1> QED BY <1>8, <1>9

\* A frame sent by one node alone has been received, bit for bit, by every node, the
\* sender included, when the node sees the line idle again: for any number of nodes
\* and any frames of whole bytes.
THEOREM CleanFramesHeard == SafetySpec => CleanFrameHeard
  <1>1. Init => HearInv
    <2>1. Init => talkers = {} /\ aired = << >>
        BY DEF Init
    <2> QED BY <2>1 DEF HearInv
  <1>2. IInv /\ LoneInv /\ HearInv /\ [Next]_vars => HearInv'
      BY NextHear
  <1>3. SafetySpec => [](IInv /\ LoneInv /\ HearInv)
      BY <1>1, <1>2, LoneInvariance, PTL DEF SafetySpec
  <1> DEFINE Delivered ==
      \A n \in Nodes : aired # << >> /\ node[n].timeout.run /\ ~node'[n].timeout.run /\ Line = 1
                            => node'[n].got = aired
  <1>4. IInv /\ LoneInv /\ HearInv /\ [Next]_vars => [Delivered]_vars
      BY EndDelivers
  <1> QED BY <1>3, <1>4, PTL DEF SafetySpec, CleanFrameHeard
=============================================================================
