------------------------------ MODULE RxQueue ------------------------------
(***************************************************************************)
(* The receive queue of network.c and its two users.  The interrupt        *)
(* handlers build the frame that is arriving, bit by bit, in the slot of   *)
(* the push index: the channel monitor and the compare interrupt of the    *)
(* timeout timer push bits, the end of the timeout pushes the frame (line  *)
(* idle) or discards it (collision).  Main takes frames out (network_rx).  *)
(*                                                                         *)
(* A handler is one step.  Main can be interrupted between the accesses of *)
(* network_rx, so that is cut at each of them.  Bits are OR-ed into the    *)
(* buffer; a position holds the set of those that contributed to it: the   *)
(* lead bit, written when the slot is opened, and the frames, numbered in  *)
(* the order of arrival.  Lengths count bits; the code's sizes are whole   *)
(* bytes.                                                                  *)
(***************************************************************************)
EXTENDS FrameRing, Sequences

CONSTANTS MaxBits,          \* the length of a buffer
          MinBits,          \* the shortest frame queued (14 bytes)
          MaxFrames,        \* bound: the transmissions on the line
          Noise             \* the transmissions that are no valid frame

ASSUME RxAssumption == /\ MaxBits \in Nat
                       /\ MinBits \in 2 .. MaxBits
                       /\ MaxFrames \in Nat
                       /\ Noise \subseteq 1 .. MaxFrames

Frames == 1 .. MaxFrames
Lead   == 0                 \* the bit pushed when a slot is opened
Bad    == 0                 \* no frame: what main has decoded is not valid

\* A push may reach one position past the buffer, the size member.
Positions == 0 .. MaxBits

VARIABLES
    cells,                  \* rx_queue[..].buffer
    sizes,                  \* rx_queue[..].size
    push, pop,              \* rx_queue_push_idx, rx_queue_pop_idx
    bit,                    \* rx_queue_push_byte_idx and _bit_idx, in bits
    arriving,               \* the number of the transmission on the line
    pc,                     \* where main is in network_rx
    decoded,                \* the frame main is decoding, or Bad
    crowded,                \* history: the queue was full when the slot under
                            \* construction was opened
    owner,                  \* history: the frame queued in each slot
    delivered               \* history: the frames handed to main, in order

building == <<cells, sizes, push, bit, arriving, crowded, owner>>
main     == <<pop, pc, decoded, delivered>>
vars     == <<building, main>>

Blank == [p \in Positions |-> {}]

Opened(slot) == [slot EXCEPT ![0] = @ \cup {Lead}]

Init == /\ cells = [i \in Indices |-> IF i = InitialPush THEN Opened(Blank) ELSE Blank]
        /\ sizes = [i \in Indices |-> 0]
        /\ push = InitialPush
        /\ pop = InitialPop
        /\ bit = 1
        /\ arriving = 1
        /\ pc = "poll"
        /\ decoded = Bad
        /\ crowded = FALSE
        /\ owner = [i \in Indices |-> [frame |-> Bad, fragile |-> TRUE]]
        /\ delivered = << >>

Full  == IsFull(pop, push)
Empty == IsEmpty(pop, push)

-----------------------------------------------------------------------------
(* The handlers.                                                           *)

OnAir == arriving <= MaxFrames

\* An edge, or three quarters of a bit time without one.  The bound of
\* network_rx_queue_push_bit is tested with ">".
PushBit == /\ OnAir
           /\ bit <= MaxBits
           /\ cells' = [cells EXCEPT ![push][bit] = @ \cup {arriving}]
           /\ bit' = bit + 1
           /\ UNCHANGED <<sizes, push, arriving, crowded, owner, main>>

\* Slip (no part of the model, see README.md): the discarded bits stay.
NotCleared(slot) == slot

\* network_rx_queue_reset: clears the bytes written so far.
Cleared(slot) == [p \in Positions |-> IF p <= bit THEN {} ELSE slot[p]]

Reopen == /\ cells' = [cells EXCEPT ![push] = Opened(Cleared(@))]
          /\ bit' = 1
          /\ crowded' = Full
          /\ UNCHANGED <<sizes, push, owner>>

\* The buffer has whole bytes only: a bit past its end is not counted.
Size == IF bit > MaxBits THEN MaxBits ELSE bit

Publish == LET next == Succ(push) IN
           /\ sizes' = [sizes EXCEPT ![push] = Size]
           /\ push' = next
           /\ bit' = 1
           /\ cells' = [cells EXCEPT ![next] = Opened(@)]
           /\ owner' = [owner EXCEPT ![push] =
                          [frame |-> arriving, fragile |-> crowded \/ arriving \in Noise]]
           /\ crowded' = IsFull(pop, next)

\* network_rx_queue_push.
LongEnough == bit >= MinBits

\* Slip: no test for a full queue.
MayPublishUnchecked == LongEnough

MayPublish == ~Full /\ LongEnough

\* The timeout timer runs only after an edge, so at least one bit has come.
LineIdle == /\ OnAir
            /\ bit > 1
            /\ IF MayPublish THEN Publish ELSE Reopen
            /\ arriving' = arriving + 1
            /\ UNCHANGED main

Collision == /\ OnAir
             /\ bit > 1
             /\ Reopen
             /\ arriving' = arriving + 1
             /\ UNCHANGED main

Handler == PushBit \/ LineIdle \/ Collision

-----------------------------------------------------------------------------
(* main: network_rx.                                                       *)

Reading == Succ(pop)        \* the element main decodes

Poll == /\ pc = "poll"
        /\ ~Empty
        /\ pc' = "header"
        /\ UNCHANGED <<pop, decoded, delivered, building>>

\* The first encoded bit of a frame is the lead bit and a received one.
HeaderOf(slot) == IF slot[0] = {Lead} /\ \E f \in Frames \ Noise : slot[1] = {f}
                  THEN CHOOSE f \in Frames : slot[1] = {f}
                  ELSE Bad

\* Slip: an invalid frame is not popped.
DecodeHeaderStuck == /\ pc = "header"
                     /\ decoded' = HeaderOf(cells[Reading])
                     /\ pc' = IF decoded' = Bad THEN "poll" ELSE "body"
                     /\ UNCHANGED <<pop, delivered, building>>

DecodeHeader == /\ pc = "header"
                /\ decoded' = HeaderOf(cells[Reading])
                /\ pc' = IF decoded' = Bad THEN "clear" ELSE "body"
                /\ UNCHANGED <<pop, delivered, building>>

BodyMatches == \A p \in 1 .. sizes[Reading] - 1 : cells[Reading][p] = {decoded}

DecodeBody == /\ pc = "body"
              /\ decoded' = IF BodyMatches THEN decoded ELSE Bad
              /\ pc' = "clear"
              /\ UNCHANGED <<pop, delivered, building>>

\* Slip: the popped slot is not cleared.
ClearNone == UNCHANGED cells

\* network_rx_queue_pop: clears the slot of the pop index, which is the one
\* popped before, and then moves the index to the one just decoded.
ClearPopped == cells' = [cells EXCEPT ![pop] = Blank]

PopClear == /\ pc = "clear"
            /\ ClearPopped
            /\ pc' = "advance"
            /\ UNCHANGED <<sizes, push, bit, arriving, crowded, owner>>
            /\ UNCHANGED <<pop, decoded, delivered>>

PopAdvance == /\ pc = "advance"
              /\ pop' = Succ(pop)
              /\ delivered' = IF decoded = Bad THEN delivered
                                               ELSE Append(delivered, decoded)
              /\ decoded' = Bad
              /\ pc' = "poll"
              /\ UNCHANGED building

Main == Poll \/ DecodeHeader \/ DecodeBody \/ PopClear \/ PopAdvance

-----------------------------------------------------------------------------
Next == Handler \/ Main

\* Main runs whenever no handler does; nothing makes the line talk.
Fairness == WF_vars(Main)

SafetySpec == Init /\ [][Next]_vars
Spec == SafetySpec /\ Fairness

-----------------------------------------------------------------------------
(* Properties.                                                             *)

PCs == {"poll", "header", "body", "clear", "advance"}

\* The indices stay inside the array and every variable in its range.
TypeOK ==
    /\ cells \in [Indices -> [Positions -> SUBSET (Frames \cup {Lead})]]
    /\ sizes \in [Indices -> 0 .. MaxBits]
    /\ push \in Indices /\ pop \in Indices
    /\ bit \in 1 .. MaxBits + 1
    /\ arriving \in 1 .. MaxFrames + 1
    /\ pc \in PCs /\ decoded \in Frames \cup {Bad}
    /\ crowded \in BOOLEAN
    /\ owner \in [Indices -> [frame : Frames \cup {Bad}, fragile : BOOLEAN]]
    /\ delivered \in Seq(Frames)

\* While main decodes an element in place, no handler writes to its slot.
NoOverlap == pc \in {"header", "body"} => Succ(pop) # push

\* A frame whose slot was opened while the queue had room is in the queue as
\* it was received: lead bit first, no bit missing, none of another frame.
QueuedIntact ==
    \A i \in Queued(pop, push) :
        owner[i].fragile \/ /\ cells[i][0] = {Lead}
                            /\ \A p \in 1 .. sizes[i] - 1 : cells[i][p] = {owner[i].frame}

\* The queued frames, the oldest first.
Waiting == [k \in 1 .. Count(pop, push) |-> owner[SlotAt(pop, k)]]

Inbox == INSTANCE FrameInbox WITH Capacity <- QueueSize - 1,
                                  waiting <- Waiting

\* Frames are handed to main in the order of arrival, once each, and only
\* noise and the frames whose slot was opened on a full queue can be lost.
ImplementsInbox == Inbox!Spec

IsWaiting(f) == \E i \in Queued(pop, push) : owner[i] = [frame |-> f, fragile |-> FALSE]

\* Main gets to every queued frame, whatever the line does meanwhile.
WaitingIsDelivered ==
    \A f \in Frames : IsWaiting(f) ~> \E n \in DOMAIN delivered : delivered[n] = f

\* network_rx_queue_pop: "zero out popped element", so not the one that the
\* handlers are building.
PopSparesConstruction == [][PopClear => cells'[push] = cells[push]]_vars
=============================================================================
