--------------------------- MODULE RxQueue_proofs ---------------------------
(***************************************************************************)
(* Proofs about the receive queue, for every size of the queue and of its  *)
(* buffers, every number of transmissions and every choice of noise.       *)
(***************************************************************************)
EXTENDS RxQueue, FrameRing_proofs, SequenceTheorems

-----------------------------------------------------------------------------
(* The inductive invariant, in parts.                                      *)

Free == {i \in Indices : i \notin Queued(pop, push) /\ i # pop /\ i # push}

\* From the poll to the end of the pop there is an element to take.
ReadInv == pc # "poll" => ~Empty

\* A slot that is opened while the queue is full is marked.
CrowdInv == Full => crowded

\* Slots between the push and the pop index are blank, and so is the slot of
\* the pop index once main has cleared it, unless it is being built.
BlankInv == /\ \A i \in Free : cells[i] = Blank
            /\ pc = "advance" /\ pop # push => cells[pop] = Blank

\* What the slot under construction holds: a slot opened with room is exactly
\* the lead bit and the bits received; a slot that was cleared since holds
\* nothing but bits received.
BuildInv ==
    /\ ~crowded => /\ cells[push][0] = {Lead}
                   /\ \A p \in 1 .. bit - 1 : cells[push][p] = {arriving}
    /\ ~Full \/ pc = "advance" =>
          \A p \in Positions : /\ p >= bit /\ p > 0 => cells[push][p] = {}
                               /\ p > 0 => cells[push][p] \subseteq {arriving}

\* What a queued slot holds.
HeldIntact(slot, size, own) ==
    own.fragile \/ /\ slot[0] = {Lead}
                   /\ \A p \in 1 .. size - 1 : slot[p] = {own.frame}

HeldOwn(slot, size, own) ==
    /\ \A p \in 1 .. size - 1 : slot[p] \subseteq {own.frame}
    /\ own.frame \in Frames
    /\ size >= 2
    /\ own.frame \in Noise => own.fragile

QueuedInv == \A i \in Queued(pop, push) : /\ HeldIntact(cells[i], sizes[i], owner[i])
                                          /\ HeldOwn(cells[i], sizes[i], owner[i])

\* What main has decoded so far of the oldest element.
DecodeInv ==
    /\ pc = "body" => decoded = owner[Reading].frame
    /\ pc \in {"clear", "advance"} =>
          IF decoded = Bad THEN owner[Reading].fragile ELSE decoded = owner[Reading].frame

IInv == /\ TypeOK /\ ReadInv /\ CrowdInv /\ BlankInv /\ BuildInv
        /\ QueuedInv /\ DecodeInv

-----------------------------------------------------------------------------
\* The ranges of indices and bits, in one place.
LEMMA Ranges ==
    ASSUME TypeOK
    PROVE  /\ push \in Indices /\ pop \in Indices
           /\ bit \in Nat /\ bit > 0 /\ MaxBits \in Nat
           /\ arriving \in Nat
           /\ OnAir => arriving \in Frames /\ arriving + 1 \in 1 .. MaxFrames + 1
  BY RxAssumption DEF TypeOK, OnAir, Frames

\* The invariant holds after reset.
LEMMA InitIInv == Init => IInv
  <1> SUFFICES ASSUME Init PROVE IInv
    OBVIOUS
  <1>1. /\ push \in Indices /\ pop \in Indices /\ push = 1 /\ pop = 0
        /\ 0 \in Positions
    BY QueueSizeAssumption, RxAssumption
    DEF Init, Indices, InitialPop, InitialPush, Positions
  <1>2. TypeOK
    <2>1. cells \in [Indices -> [Positions -> SUBSET (Frames \cup {Lead})]]
      BY <1>1 DEF Init, Opened, Blank
    <2>2. owner \in [Indices -> [frame : Frames \cup {Bad}, fragile : BOOLEAN]]
      BY DEF Init
    <2>3. sizes \in [Indices -> 0 .. MaxBits]
      BY RxAssumption DEF Init
    <2>4. bit \in 1 .. MaxBits + 1 /\ arriving \in 1 .. MaxFrames + 1
      BY RxAssumption DEF Init
    <2>5. delivered \in Seq(Frames)
      BY DEF Init
    <2> QED
      BY <1>1, <2>1, <2>2, <2>3, <2>4, <2>5 DEF Init, TypeOK, PCs
  <1>3. Empty /\ ~Full /\ Queued(pop, push) = {}
    <2>1. Count(pop, push) = 0
      BY <1>1 DEF Count
    <2> QED BY <1>1, <2>1, CountRange DEF Queued, Empty, Full, IsFull
  <1>4. BuildInv
    <2>1. cells[push] = Opened(Blank)
      BY <1>1 DEF Init
    <2>2. cells[push][0] = {Lead} /\ \A p \in Positions : p > 0 => cells[push][p] = {}
      BY <1>1, <2>1 DEF Opened, Blank, Positions
    <2>3. bit = 1 /\ 1 .. bit - 1 = {}
      BY DEF Init
    <2>4. \A p \in 1 .. bit - 1 : cells[push][p] = {arriving}
      BY <2>3
    <2> QED BY <2>2, <2>4 DEF BuildInv
  <1>5. BlankInv
    BY <1>1 DEF Init, BlankInv, Free
  <1> QED
    BY <1>2, <1>3, <1>4, <1>5
    DEF Init, IInv, ReadInv, CrowdInv, QueuedInv, DecodeInv

-----------------------------------------------------------------------------
(* The steps of the handlers.                                              *)

\* Writing to the slot under construction leaves the others alone.
LEMMA BuildingSparesOthers ==
    ASSUME TypeOK, NEW slot, cells' = [cells EXCEPT ![push] = slot]
    PROVE  /\ \A i \in Indices : i # push => cells'[i] = cells[i]
           /\ cells'[push] = slot
  BY DEF TypeOK

\* A bit pushed keeps the invariant: it is OR-ed into the slot under construction.
LEMMA PushBitStep == ASSUME IInv, PushBit PROVE IInv'
  <1>1. /\ push \in Indices /\ pop \in Indices /\ bit \in Nat /\ bit > 0
        /\ MaxBits \in Nat /\ arriving \in Frames
    BY Ranges DEF IInv, PushBit
  <1>2. /\ bit \in Positions /\ bit' = bit + 1
        /\ UNCHANGED <<sizes, push, pop, arriving, crowded, owner, pc, decoded, delivered>>
    BY <1>1 DEF PushBit, main, Positions
  <1> DEFINE slot == [cells[push] EXCEPT ![bit] = @ \cup {arriving}]
  <1>3. /\ cells' = [cells EXCEPT ![push] = slot]
        /\ cells[push] \in [Positions -> SUBSET (Frames \cup {Lead})]
    BY <1>1 DEF PushBit, IInv, TypeOK
  <1>4. /\ \A i \in Indices : i # push => cells'[i] = cells[i]
        /\ cells'[push] = slot
    BY <1>3, BuildingSparesOthers DEF IInv
  <1>5. /\ slot[bit] = cells[push][bit] \cup {arriving}
        /\ \A p \in Positions : p # bit => slot[p] = cells[push][p]
    BY <1>2, <1>3
  <1>6. TypeOK'
    <2>1. slot \in [Positions -> SUBSET (Frames \cup {Lead})]
      BY <1>1, <1>3
    <2>2. bit' \in 1 .. MaxBits + 1
      BY <1>1, <1>2 DEF PushBit
    <2>3. cells' \in [Indices -> [Positions -> SUBSET (Frames \cup {Lead})]]
      BY <1>3, <2>1 DEF IInv, TypeOK
    <2> QED BY <1>2, <2>2, <2>3 DEF IInv, TypeOK
  <1>7. Full' = Full /\ Empty' = Empty /\ Free' = Free /\ Reading' = Reading
    BY <1>2 DEF Full, Empty, Free, Reading
  <1>8. BlankInv'
    BY <1>1, <1>2, <1>4, <1>7 DEF IInv, BlankInv, Free
  <1>9. BuildInv'
    <2>1. 0 \in Positions /\ \A p \in 1 .. bit' - 1 : p \in Positions
      BY <1>1, <1>2 DEF PushBit, Positions
    <2>2. ASSUME ~crowded PROVE cells[push][bit] = {}
      BY <1>1, <1>2, <2>2 DEF IInv, CrowdInv, BuildInv
    <2>3. ASSUME ~crowded
          PROVE  slot[0] = {Lead} /\ \A p \in 1 .. bit' - 1 : slot[p] = {arriving}
      BY <1>1, <1>2, <1>5, <2>1, <2>2, <2>3 DEF IInv, BuildInv
    <2>4. ASSUME ~Full \/ pc = "advance", NEW p \in Positions
          PROVE  /\ p >= bit' /\ p > 0 => slot[p] = {}
                 /\ p > 0 => slot[p] \subseteq {arriving}
      <3>1. /\ p >= bit /\ p > 0 => cells[push][p] = {}
            /\ p > 0 => cells[push][p] \subseteq {arriving}
        BY <2>4 DEF IInv, BuildInv
      <3>2. CASE p = bit
        BY <1>1, <1>2, <1>5, <3>1, <3>2
      <3>3. CASE p # bit
        BY <1>1, <1>2, <1>5, <3>1, <3>3 DEF Positions
      <3> QED BY <3>2, <3>3
    <2> QED BY <1>2, <1>4, <1>7, <2>3, <2>4 DEF BuildInv
  <1>10. QueuedInv'
    BY <1>1, <1>2, <1>4, QueuedInIndices DEF IInv, QueuedInv
  <1> QED
    BY <1>2, <1>6, <1>7, <1>8, <1>9, <1>10 DEF IInv, ReadInv, CrowdInv, DecodeInv

\* The frame on the line is discarded: too short, no room, or a collision.
LEMMA ReopenStep ==
    ASSUME IInv, OnAir, Reopen, arriving' = arriving + 1, UNCHANGED main
    PROVE  IInv'
  <1>1. /\ push \in Indices /\ pop \in Indices /\ bit \in Nat /\ bit > 0
        /\ MaxBits \in Nat /\ arriving + 1 \in 1 .. MaxFrames + 1
    BY Ranges DEF IInv
  <1>2. /\ bit' = 1 /\ crowded' = Full
        /\ UNCHANGED <<sizes, push, pop, owner, pc, decoded, delivered>>
    BY DEF Reopen, main
  <1> DEFINE slot == Opened(Cleared(cells[push]))
  <1>3. /\ cells' = [cells EXCEPT ![push] = slot]
        /\ cells[push] \in [Positions -> SUBSET (Frames \cup {Lead})]
    BY <1>1 DEF Reopen, IInv, TypeOK
  <1>4. /\ \A i \in Indices : i # push => cells'[i] = cells[i]
        /\ cells'[push] = slot
    BY <1>3, BuildingSparesOthers DEF IInv
  <1>5. /\ slot[0] = {Lead}
        /\ \A p \in Positions : p > 0 => slot[p] = IF p <= bit THEN {} ELSE cells[push][p]
        /\ slot \in [Positions -> SUBSET (Frames \cup {Lead})]
    <2> DEFINE wiped == Cleared(cells[push])
    <2>1. wiped = [p \in Positions |-> IF p <= bit THEN {} ELSE cells[push][p]]
      BY DEF Cleared
    <2>2. wiped[0] = {} /\ 0 \in Positions
      BY <1>1, <2>1 DEF Positions
    <2>3. slot = [wiped EXCEPT ![0] = wiped[0] \cup {Lead}]
      BY DEF Opened
    <2>4. /\ slot[0] = {Lead}
          /\ slot \in [Positions -> SUBSET (Frames \cup {Lead})]
      BY <1>3, <2>1, <2>2, <2>3
    <2>5. \A p \in Positions : p # 0 => slot[p] = wiped[p]
      BY <2>1, <2>3
    <2> QED BY <1>1, <2>1, <2>4, <2>5 DEF Positions
  <1>6. TypeOK'
    <2>1. bit' \in 1 .. MaxBits + 1
      BY <1>1, <1>2
    <2>2. cells' \in [Indices -> [Positions -> SUBSET (Frames \cup {Lead})]]
      BY <1>3, <1>5 DEF IInv, TypeOK
    <2> QED BY <1>1, <1>2, <2>1, <2>2 DEF IInv, TypeOK, Full, IsFull
  <1>7. Full' = Full /\ Empty' = Empty /\ Free' = Free /\ Reading' = Reading
    BY <1>2 DEF Full, Empty, Free, Reading
  <1>8. BlankInv'
    BY <1>1, <1>2, <1>4, <1>7 DEF IInv, BlankInv, Free
  <1>9. BuildInv'
    <2>1. 1 .. bit' - 1 = {}
      BY <1>2
    <2>2. ASSUME ~Full \/ pc = "advance", NEW p \in Positions, p > 0
          PROVE  slot[p] = {}
      BY <1>1, <1>5, <2>2 DEF IInv, BuildInv, Positions
    <2> QED BY <1>2, <1>4, <1>5, <1>7, <2>1, <2>2 DEF BuildInv
  <1>10. QueuedInv'
    BY <1>1, <1>2, <1>4, QueuedInIndices DEF IInv, QueuedInv
  <1> QED
    BY <1>2, <1>6, <1>7, <1>8, <1>9, <1>10 DEF IInv, ReadInv, CrowdInv, DecodeInv

\* The frame on the line is queued and the next slot opened.
LEMMA PublishStep ==
    ASSUME IInv, OnAir, MayPublish, Publish, arriving' = arriving + 1, UNCHANGED main
    PROVE  IInv'
  <1> DEFINE next == Succ(push)
             item == [frame |-> arriving, fragile |-> crowded \/ arriving \in Noise]
  <1>1. /\ push \in Indices /\ pop \in Indices /\ bit \in Nat /\ bit > 0
        /\ MaxBits \in Nat /\ arriving \in Frames
        /\ arriving + 1 \in 1 .. MaxFrames + 1
        /\ ~Full /\ bit >= MinBits /\ next \in Indices /\ next # push
        /\ 0 \in Positions
    BY Ranges, SuccValue DEF IInv, MayPublish, LongEnough, Positions
  <1>2. /\ bit' = 1 /\ push' = next /\ crowded' = (pop = next)
        /\ sizes' = [sizes EXCEPT ![push] = Size]
        /\ owner' = [owner EXCEPT ![push] = item]
        /\ cells' = [cells EXCEPT ![next] = Opened(@)]
        /\ UNCHANGED <<pop, pc, decoded, delivered>>
    BY DEF Publish, main, IsFull
  <1>3. /\ \A i \in Indices : i # next => cells'[i] = cells[i]
        /\ cells'[next] = Opened(cells[next])
        /\ cells[next] \in [Positions -> SUBSET (Frames \cup {Lead})]
        /\ \A i \in Indices : i # push => owner'[i] = owner[i] /\ sizes'[i] = sizes[i]
        /\ owner'[push] = item /\ sizes'[push] = Size
    BY <1>1, <1>2 DEF IInv, TypeOK
  <1>4. /\ Queued(pop, next) = Queued(pop, push) \cup {push}
        /\ next \notin Queued(pop, push) /\ ~Empty'
    BY <1>1, <1>2, PushQueued, PushCount DEF Full, Empty
  <1>5. /\ Size \in 2 .. MaxBits /\ Size <= bit /\ Size \in 0 .. MaxBits
    BY <1>1, RxAssumption DEF Size
  <1>6. TypeOK'
    <2>1. Opened(cells[next]) \in [Positions -> SUBSET (Frames \cup {Lead})]
      BY <1>1, <1>3 DEF Opened
    <2>2. cells' \in [Indices -> [Positions -> SUBSET (Frames \cup {Lead})]]
      BY <1>1, <1>2, <2>1 DEF IInv, TypeOK
    <2>3. sizes' \in [Indices -> 0 .. MaxBits]
      BY <1>2, <1>5 DEF IInv, TypeOK
    <2>4. item \in [frame : Frames \cup {Bad}, fragile : BOOLEAN]
      BY <1>1 DEF IInv, TypeOK
    <2>5. owner' \in [Indices -> [frame : Frames \cup {Bad}, fragile : BOOLEAN]]
      BY <1>2, <2>4 DEF IInv, TypeOK
    <2>6. bit' \in 1 .. MaxBits + 1 /\ crowded' \in BOOLEAN
      BY <1>1, <1>2
    <2> QED BY <1>1, <1>2, <2>2, <2>3, <2>5, <2>6 DEF IInv, TypeOK
  <1>7. CrowdInv'
    BY <1>2 DEF CrowdInv, Full, IsFull
  <1>8. BlankInv'
    <2>1. Free' \subseteq Free /\ next \notin Free'
      BY <1>2, <1>4 DEF Free
    <2>2. \A i \in Free' : cells'[i] = Blank
      BY <1>3, <2>1 DEF IInv, BlankInv, Free
    <2>3. ASSUME pc = "advance", pop # next PROVE cells'[pop] = Blank
      BY <1>1, <1>3, <2>3 DEF IInv, BlankInv, Full, IsFull
    <2> QED BY <1>2, <2>2, <2>3 DEF BlankInv
  <1>9. BuildInv'
    <2>1. 1 .. bit' - 1 = {}
      BY <1>2
    <2>2. next # pop => next \in Free
      BY <1>1, <1>4 DEF Free
    <2>3. ASSUME next # pop \/ pc = "advance" PROVE cells[next] = Blank
      BY <1>1, <2>2, <2>3 DEF IInv, BlankInv, Full, IsFull
    <2>4. ASSUME next # pop \/ pc = "advance"
          PROVE  /\ cells'[next][0] = {Lead}
                 /\ \A p \in Positions : p > 0 => cells'[next][p] = {}
      BY <1>1, <1>3, <2>3, <2>4 DEF Opened, Blank, Positions
    <2> QED BY <1>2, <2>1, <2>4 DEF BuildInv, Full, IsFull
  <1>10. QueuedInv'
    <2>1. ASSUME NEW i \in Queued(pop, push)
          PROVE  /\ HeldIntact(cells'[i], sizes'[i], owner'[i])
                 /\ HeldOwn(cells'[i], sizes'[i], owner'[i])
      <3>1. i \in Indices /\ i # push /\ i # next
        BY <1>1, <1>4, QueuedInIndices
      <3> QED BY <1>3, <3>1 DEF IInv, QueuedInv
    <2>2. \A p \in 1 .. Size - 1 : p \in 1 .. bit - 1 /\ p \in Positions
      BY <1>1, <1>5 DEF Positions
    <2>3. HeldIntact(cells[push], Size, item)
      BY <2>2 DEF IInv, BuildInv, HeldIntact
    <2>4. HeldOwn(cells[push], Size, item)
      <3>1. \A p \in 1 .. Size - 1 : cells[push][p] \subseteq {arriving}
        BY <1>1, <2>2 DEF IInv, BuildInv
      <3>2. item.frame = arriving
        OBVIOUS
      <3>3. arriving \in Noise => item.fragile
        BY Zenon
      <3> QED BY <1>1, <1>5, <3>1, <3>2, <3>3 DEF HeldOwn
    <2>5. /\ cells'[push] = cells[push] /\ sizes'[push] = Size /\ owner'[push] = item
      BY <1>1, <1>3
    <2>6. \A i \in Queued(pop, next) : /\ HeldIntact(cells'[i], sizes'[i], owner'[i])
                                       /\ HeldOwn(cells'[i], sizes'[i], owner'[i])
      BY <1>4, <2>1, <2>3, <2>4, <2>5
    <2> QED BY <1>2, <2>6 DEF QueuedInv
  <1>11. DecodeInv'
    <2>1. pc # "poll" => Reading # push /\ Reading \in Indices
      BY <1>1, SuccValue DEF IInv, ReadInv, Empty, IsEmpty, Reading
    <2> QED BY <1>2, <1>3, <2>1 DEF IInv, TypeOK, PCs, DecodeInv, Reading
  <1> QED
    BY <1>4, <1>6, <1>7, <1>8, <1>9, <1>10, <1>11 DEF IInv, ReadInv

-----------------------------------------------------------------------------
(* The steps of main.                                                      *)

\* The element main decodes is queued as long as main is at it.
LEMMA ReadingIsQueued ==
    ASSUME IInv, pc # "poll"
    PROVE  /\ Reading \in Queued(pop, push) /\ Reading \in Indices
           /\ HeldIntact(cells[Reading], sizes[Reading], owner[Reading])
           /\ HeldOwn(cells[Reading], sizes[Reading], owner[Reading])
  <1>1. push \in Indices /\ pop \in Indices /\ ~Empty
    BY Ranges DEF IInv, ReadInv
  <1>2. Reading \in Queued(pop, push)
    BY <1>1, PopQueued DEF Empty, Reading
  <1> QED BY <1>1, <1>2, QueuedInIndices DEF IInv, QueuedInv

\* The steps that write to no slot and move no index.
LEMMA DecodeSteps ==
    ASSUME IInv, Poll \/ DecodeHeader \/ DecodeBody
    PROVE  IInv'
  <1>1. UNCHANGED <<building, pop, delivered>> /\ pc # "advance" /\ pc' # "advance"
    BY DEF Poll, DecodeHeader, DecodeBody
  <1>2. /\ Full' = Full /\ Empty' = Empty /\ Free' = Free /\ Reading' = Reading
        /\ UNCHANGED <<cells, sizes, push, bit, arriving, crowded, owner>>
    BY <1>1 DEF Full, Empty, Free, Reading, building
  <1>3. CrowdInv' /\ BlankInv' /\ BuildInv' /\ QueuedInv'
    BY <1>1, <1>2 DEF IInv, CrowdInv, BlankInv, BuildInv, QueuedInv
  <1>4. CASE Poll
    BY <1>1, <1>2, <1>3, <1>4
    DEF Poll, IInv, TypeOK, PCs, ReadInv, DecodeInv
  <1>5. CASE DecodeHeader
    <2> DEFINE slot == cells[Reading]
               own  == owner[Reading]
    <2>1. HeldIntact(slot, sizes[Reading], own) /\ HeldOwn(slot, sizes[Reading], own)
          /\ Reading \in Indices /\ sizes[Reading] \in Nat
      BY <1>5, ReadingIsQueued DEF DecodeHeader, IInv, TypeOK
    <2>2. slot[1] \subseteq {own.frame} /\ own.frame \in Frames
          /\ (own.frame \in Noise => own.fragile) /\ 1 \in 1 .. sizes[Reading] - 1
      BY <2>1 DEF HeldOwn
    <2>3. decoded' = HeaderOf(slot)
      BY <1>5 DEF DecodeHeader
    <2>4. HeaderOf(slot) = Bad \/ HeaderOf(slot) = own.frame
      <3>1. ASSUME NEW f \in Frames, slot[1] = {f} PROVE f = own.frame
        BY <2>2, <3>1
      <3> QED BY <2>2, <3>1 DEF HeaderOf
    <2>5. ASSUME ~own.fragile PROVE HeaderOf(slot) # Bad
      <3>1. slot[0] = {Lead} /\ slot[1] = {own.frame}
        BY <2>1, <2>2, <2>5 DEF HeldIntact
      <3>2. own.frame \in Frames \ Noise
        BY <2>2, <2>5
      <3>3. HeaderOf(slot) = own.frame
        BY <2>2, <3>1, <3>2 DEF HeaderOf
      <3> QED BY <3>2, <3>3, RxAssumption DEF Frames, Bad
    <2>6. /\ pc' \in {"clear", "body"} /\ (pc' = "clear" <=> decoded' = Bad)
          /\ own' = own /\ pc = "header"
      BY <1>2, <1>5 DEF DecodeHeader
    <2>7. DecodeInv'
      BY <1>2, <2>3, <2>4, <2>5, <2>6 DEF DecodeInv
    <2>8. TypeOK' /\ ReadInv'
      BY <1>1, <1>2, <2>2, <2>3, <2>4, <2>6 DEF IInv, TypeOK, PCs, ReadInv
    <2> QED BY <1>3, <2>7, <2>8 DEF IInv
  <1>6. CASE DecodeBody
    <2>1. /\ decoded' = IF BodyMatches THEN decoded ELSE Bad
          /\ pc' = "clear" /\ pc = "body"
      BY <1>6 DEF DecodeBody
    <2>2. decoded = owner[Reading].frame
      BY <2>1 DEF IInv, DecodeInv
    <2>3. ~owner[Reading].fragile => BodyMatches
      BY <2>1, <2>2, ReadingIsQueued DEF HeldIntact, BodyMatches
    <2>4. owner[Reading].frame # Bad
      BY <2>1, ReadingIsQueued, RxAssumption DEF HeldOwn, Frames, Bad
    <2>5. DecodeInv'
      BY <1>2, <2>1, <2>2, <2>3, <2>4 DEF DecodeInv
    <2>6. TypeOK' /\ ReadInv'
      BY <1>1, <1>2, <2>1 DEF IInv, TypeOK, PCs, ReadInv
    <2> QED BY <1>3, <2>5, <2>6 DEF IInv
  <1> QED BY <1>4, <1>5, <1>6

\* The clearing of a slot by main does: on a full queue the slot under
\* construction, which then counts as crowded.
LEMMA PopClearStep == ASSUME IInv, PopClear PROVE IInv'
  <1>1. /\ push \in Indices /\ pop \in Indices
    BY Ranges DEF IInv
  <1>2. /\ pc = "clear" /\ pc' = "advance"
        /\ cells' = [cells EXCEPT ![pop] = Blank]
        /\ UNCHANGED <<sizes, push, bit, arriving, crowded, owner, pop, decoded, delivered>>
    BY DEF PopClear, ClearPopped
  <1>3. /\ \A i \in Indices : i # pop => cells'[i] = cells[i]
        /\ cells'[pop] = Blank
    BY <1>1, <1>2 DEF IInv, TypeOK
  <1>4. Full' = Full /\ Empty' = Empty /\ Free' = Free /\ Reading' = Reading
    BY <1>2 DEF Full, Empty, Free, Reading
  <1>5. TypeOK'
    <2>1. Blank \in [Positions -> SUBSET (Frames \cup {Lead})]
      BY DEF Blank
    <2>2. cells' \in [Indices -> [Positions -> SUBSET (Frames \cup {Lead})]]
      BY <1>2, <2>1 DEF IInv, TypeOK
    <2> QED BY <1>2, <2>2 DEF IInv, TypeOK, PCs
  <1>6. BlankInv'
    BY <1>2, <1>3, <1>4 DEF IInv, BlankInv, Free
  <1>7. BuildInv'
    <2>1. CASE pop = push
      <3>1. Full /\ crowded
        BY <2>1 DEF Full, IsFull, IInv, CrowdInv
      <3>2. \A p \in Positions : cells'[push][p] = {}
        BY <1>3, <2>1 DEF Blank
      <3> QED BY <1>2, <3>1, <3>2 DEF BuildInv
    <2>2. CASE pop # push
      <3>1. cells'[push] = cells[push] /\ ~Full
        BY <1>1, <1>3, <2>2 DEF Full, IsFull
      <3> QED BY <1>2, <1>4, <3>1 DEF IInv, BuildInv
    <2> QED BY <2>1, <2>2
  <1>8. QueuedInv'
    BY <1>1, <1>2, <1>3, QueuedInIndices DEF IInv, QueuedInv
  <1>9. ReadInv' /\ CrowdInv' /\ DecodeInv'
    BY <1>2, <1>4 DEF IInv, ReadInv, CrowdInv, DecodeInv
  <1> QED BY <1>5, <1>6, <1>7, <1>8, <1>9 DEF IInv

\* The pop does: the element main has decoded leaves the queue.
LEMMA PopAdvanceStep == ASSUME IInv, PopAdvance PROVE IInv'
  <1>1. /\ push \in Indices /\ pop \in Indices /\ ~Empty /\ Succ(pop) \in Indices
    BY Ranges, SuccValue DEF IInv, ReadInv, PopAdvance
  <1>2. /\ pc = "advance" /\ pc' = "poll" /\ pop' = Succ(pop)
        /\ delivered' = IF decoded = Bad THEN delivered ELSE Append(delivered, decoded)
        /\ decoded' = Bad
        /\ UNCHANGED <<cells, sizes, push, bit, arriving, crowded, owner>>
    BY DEF PopAdvance, building
  <1>3. /\ Queued(pop', push) = Queued(pop, push) \ {pop'}
        /\ pop' # push /\ ~Full'
    BY <1>1, <1>2, PopQueued DEF Empty, IsEmpty, Full, IsFull
  <1>4. TypeOK'
    <2>1. decoded # Bad => decoded \in Frames
      BY DEF IInv, TypeOK
    <2>2. delivered' \in Seq(Frames)
      BY <1>2, <2>1, AppendProperties DEF IInv, TypeOK
    <2> QED BY <1>1, <1>2, <2>2 DEF IInv, TypeOK, PCs
  <1>5. BlankInv'
    <2>1. ASSUME NEW i \in Free' PROVE cells[i] = Blank
      <3>1. i \in Free \/ (i = pop /\ pop # push)
        BY <1>2, <1>3, <2>1 DEF Free
      <3> QED BY <1>2, <3>1 DEF IInv, BlankInv
    <2> QED BY <1>2, <2>1 DEF BlankInv
  <1>6. BuildInv'
    BY <1>2 DEF IInv, BuildInv
  <1>7. QueuedInv'
    BY <1>2, <1>3 DEF IInv, QueuedInv
  <1> QED
    BY <1>2, <1>3, <1>4, <1>5, <1>6, <1>7
    DEF IInv, ReadInv, CrowdInv, DecodeInv

-----------------------------------------------------------------------------
(* The safety theorems.                                                    *)

\* Both ends of the timeout either publish the slot or reopen it.
LEMMA HandlerCases ==
    ASSUME LineIdle \/ Collision
    PROVE  /\ OnAir /\ arriving' = arriving + 1 /\ UNCHANGED main
           /\ (MayPublish /\ Publish) \/ Reopen
  BY DEF LineIdle, Collision

\* Every step keeps the invariant.
LEMMA StepIInv == IInv /\ [Next]_vars => IInv'
  <1> SUFFICES ASSUME IInv, [Next]_vars PROVE IInv'
    OBVIOUS
  <1>1. CASE PushBit
    BY <1>1, PushBitStep
  <1>2. CASE LineIdle \/ Collision
    BY <1>2, HandlerCases, PublishStep, ReopenStep
  <1>3. CASE Poll \/ DecodeHeader \/ DecodeBody
    BY <1>3, DecodeSteps
  <1>4. CASE PopClear
    BY <1>4, PopClearStep
  <1>5. CASE PopAdvance
    BY <1>5, PopAdvanceStep
  <1>6. CASE UNCHANGED vars
    <2>1. UNCHANGED <<cells, sizes, push, bit, arriving, crowded, owner,
                      pop, pc, decoded, delivered>>
      BY <1>6 DEF vars, building, main
    <2> QED
      BY <2>1 DEF IInv, TypeOK, ReadInv, CrowdInv, BlankInv, BuildInv, QueuedInv,
                  DecodeInv, Full, Empty, Free, Reading
  <1> QED BY <1>1, <1>2, <1>3, <1>4, <1>5, <1>6 DEF Next, Handler, Main

\* The invariant of slots, owners and what main has decoded holds always.
THEOREM Invariance == Spec => []IInv
  BY InitIInv, StepIInv, PTL DEF Spec, SafetySpec

\* Every variable stays in its range: no index leaves the array, and no bit
\* goes further than one position past the buffer.
THEOREM TypeCorrect == Spec => []TypeOK
  <1>1. IInv => TypeOK
    BY DEF IInv
  <1> QED BY Invariance, <1>1, PTL

\* Handlers never write to the element that main decodes in place.
THEOREM NeverOverlap == Spec => []NoOverlap
  <1>1. IInv => NoOverlap
    BY DEF IInv, ReadInv, NoOverlap, Empty, IsEmpty
  <1> QED BY Invariance, <1>1, PTL

\* A frame whose slot was opened with room stays whole until main takes it.
THEOREM AlwaysIntact == Spec => []QueuedIntact
  <1>1. IInv => QueuedIntact
    BY DEF IInv, QueuedInv, HeldIntact, QueuedIntact
  <1> QED BY Invariance, <1>1, PTL

-----------------------------------------------------------------------------
(* The receive queue implements the inbox.                                 *)

\* A frame queued is an arrival of the inbox.
LEMMA PublishArrives ==
    ASSUME IInv, OnAir, MayPublish, Publish, UNCHANGED main
    PROVE  Inbox!Next
  <1> DEFINE n    == Count(pop, push)
             frag == crowded \/ arriving \in Noise
             item == [frame |-> arriving, fragile |-> frag]
  <1>1. /\ push \in Indices /\ pop \in Indices /\ arriving \in Frames /\ ~Full
        /\ push' = Succ(push) /\ owner' = [owner EXCEPT ![push] = item]
        /\ UNCHANGED <<pop, delivered>>
    BY Ranges DEF IInv, MayPublish, Publish, main
  <1>2. /\ Count(pop, push') = n + 1 /\ SlotAt(pop, n + 1) = push
        /\ n \in Nat /\ n < QueueSize - 1
    BY <1>1, PushCount, CountRange, QueueSizeAssumption DEF Full
  <1>3. /\ owner'[push] = item
        /\ \A k \in 1 .. n : owner'[SlotAt(pop, k)] = owner[SlotAt(pop, k)]
    <2>1. \A k \in 1 .. n : SlotAt(pop, k) \in Indices /\ SlotAt(pop, k) # push
      BY <1>1, PushSlotIsFree
    <2> QED BY <1>1, <2>1 DEF IInv, TypeOK
  <1>4. Waiting' = Append(Waiting, item)
    <2>1. Waiting' = [k \in 1 .. n + 1 |-> owner'[SlotAt(pop, k)]]
      BY <1>1, <1>2 DEF Waiting
    <2>2. Waiting = [k \in 1 .. n |-> owner[SlotAt(pop, k)]]
      BY DEF Waiting
    <2>3. Append(Waiting, item) =
            [k \in 1 .. n + 1 |-> IF k <= n THEN owner[SlotAt(pop, k)] ELSE item]
      BY <1>2, <2>2
    <2>4. ASSUME NEW k \in 1 .. n + 1
          PROVE  owner'[SlotAt(pop, k)] = IF k <= n THEN owner[SlotAt(pop, k)] ELSE item
      <3>1. CASE k <= n
        BY <1>2, <1>3, <3>1
      <3>2. CASE ~(k <= n)
        <4>1. k = n + 1
          BY <1>2, <3>2
        <4> HIDE DEF n, item
        <4> QED BY <1>2, <1>3, <3>2, <4>1
      <3> QED BY <3>1, <3>2
    <2> HIDE DEF item
    <2> QED BY <2>1, <2>3, <2>4
  <1>5. Len(Waiting) = n
    BY <1>2 DEF Waiting
  <1>6. frag \in BOOLEAN
    BY DEF IInv, TypeOK
  <1>7. Inbox!Arrive(arriving, frag)
    BY <1>1, <1>2, <1>4, <1>5 DEF Inbox!Arrive
  <1> QED BY <1>1, <1>6, <1>7 DEF Inbox!Next

\* A pop is a delivery or a loss of the inbox.
LEMMA AdvanceTakes == ASSUME IInv, PopAdvance PROVE Inbox!Next
  <1> DEFINE n == Count(pop, push)
             item == owner[Reading]
  <1>1. /\ push \in Indices /\ pop \in Indices /\ ~Empty /\ pc = "advance"
        /\ pop' = Succ(pop) /\ UNCHANGED <<push, owner>>
        /\ delivered' = IF decoded = Bad THEN delivered ELSE Append(delivered, decoded)
    BY Ranges DEF IInv, ReadInv, PopAdvance, building
  <1>2. n \in Nat /\ n > 0 /\ SlotAt(pop, 1) = Reading
    BY <1>1, CountRange, PopCount DEF Empty, Reading
  <1>3. IF decoded = Bad THEN item.fragile ELSE decoded = item.frame
    BY <1>1 DEF IInv, DecodeInv
  <1>4. /\ Count(pop', push) = n - 1
        /\ \A k \in 1 .. n - 1 : SlotAt(pop', k) = SlotAt(pop, k + 1)
    BY <1>1, PopCount DEF Empty
  <1>5. Waiting = [k \in 1 .. n |-> owner[SlotAt(pop, k)]]
    BY DEF Waiting
  <1>6. Waiting' = [k \in 1 .. n - 1 |-> owner[SlotAt(pop, k + 1)]]
    BY <1>1, <1>4 DEF Waiting
  <1>7. /\ Waiting # << >> /\ Head(Waiting) = item
        /\ Tail(Waiting) = [k \in 1 .. n - 1 |-> owner[SlotAt(pop, k + 1)]]
    BY <1>2, <1>5
  <1>8. CASE decoded = Bad
    BY <1>1, <1>3, <1>6, <1>7, <1>8 DEF Inbox!Next, Inbox!Lose
  <1>9. CASE decoded # Bad
    BY <1>1, <1>3, <1>6, <1>7, <1>9 DEF Inbox!Next, Inbox!Deliver
  <1> QED BY <1>8, <1>9

\* Main gets the frames in order, once each, and only noise and frames whose
\* slot was opened on a full queue are lost between the queue and main.
THEOREM Refinement == Spec => ImplementsInbox
  <1>1. Init => Inbox!Init
    BY DEF Init, Inbox!Init, Waiting, Count, InitialPop, InitialPush
  <1>2. IInv /\ [Next]_vars => [Inbox!Next]_<<Waiting, delivered>>
    <2> SUFFICES ASSUME IInv, [Next]_vars
                 PROVE  Inbox!Next \/ UNCHANGED <<Waiting, delivered>>
      OBVIOUS
    <2>1. CASE LineIdle \/ Collision
      <3>1. CASE MayPublish /\ Publish
        BY <2>1, <3>1, HandlerCases, PublishArrives
      <3>2. CASE Reopen
        <4>1. UNCHANGED <<push, pop, owner, delivered>>
          BY <2>1, <3>2, HandlerCases DEF Reopen, main
        <4> QED BY <4>1 DEF Waiting
      <3> QED BY <2>1, <3>1, <3>2, HandlerCases
    <2>2. CASE PopAdvance
      BY <2>2, AdvanceTakes
    <2>3. ASSUME PushBit \/ Poll \/ DecodeHeader \/ DecodeBody \/ PopClear \/ UNCHANGED vars
          PROVE  UNCHANGED <<Waiting, delivered>>
      <3>1. UNCHANGED <<push, pop, owner, delivered>>
        BY <2>3 DEF PushBit, Poll, DecodeHeader, DecodeBody, PopClear, building, main, vars
      <3> QED BY <3>1 DEF Waiting
    <2> QED BY <2>1, <2>2, <2>3 DEF Next, Handler, Main
  <1> QED
    BY Invariance, <1>1, <1>2, PTL DEF Spec, SafetySpec, ImplementsInbox, Inbox!Spec
=============================================================================
