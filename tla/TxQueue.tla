------------------------------ MODULE TxQueue ------------------------------
(***************************************************************************)
(* The transmit queue of network.c and its two users.  The main loop pushes*)
(* a frame (network_tx) and tries to start the half-bit timer; the handler *)
(* of that timer (TIM4) reads the frame out half-bit by half-bit, pops it  *)
(* when it is done and keeps it when the bus reports a collision.          *)
(*                                                                         *)
(* All interrupts have one priority, so a handler is one step; main can be *)
(* interrupted between any two of its accesses to shared variables, so     *)
(* network_tx is cut at each of them.  Frame n is the one of the n-th call *)
(* of network_tx.  A buffer is the number of the frame it holds, or Torn.  *)
(***************************************************************************)
EXTENDS FrameRing, Sequences

CONSTANTS MaxCalls,         \* bound: the lines the user sends
          MaxCollisions,    \* bound: the collisions the bus reports
          HalfBits          \* the encoded length of each frame

ASSUME TxAssumption == /\ MaxCalls \in Nat
                       /\ MaxCollisions \in Nat
                       /\ HalfBits \in [1 .. MaxCalls -> Nat \ {0, 1}]

Frames == 1 .. MaxCalls
Torn   == 0                 \* a buffer that is not (yet) one whole frame

VARIABLES
    slots,                  \* tx_queue
    push, pop,              \* tx_queue_push_idx, tx_queue_pop_idx
    hb,                     \* the half-bit timer is running
    cursor,                 \* byteIdx and bitIdx of the handler, in half-bits
    state,                  \* current_state
    timeout,                \* the timeout timer (TIM3) is running
    edge,                   \* a line edge that is bound to come
    backoff,                \* the backoff timer (TIM5) is running
    pc,                     \* where main is in network_tx
    calls,                  \* the calls of network_tx so far
    fatal,                  \* ERROR_HANDLE_FATAL saw an error
    collisions,             \* the collisions so far
    onWire,                 \* history: the buffers the handler took bits from
    sent                    \* history: the frames completed, in order

queue == <<slots, push, pop>>
bus   == <<state, timeout, edge, backoff, collisions>>
main  == <<pc, calls, fatal>>
air   == <<hb, cursor, onWire, sent>>
vars  == <<queue, bus, main, air>>

Init == /\ slots = [i \in Indices |-> [buffer |-> Torn, size |-> 0]]
        /\ push = InitialPush
        /\ pop = InitialPop
        /\ hb = FALSE
        /\ cursor = 0
        /\ state = "IDLE"
        /\ timeout = FALSE
        /\ edge = "none"
        /\ backoff = FALSE
        /\ pc = "idle"
        /\ calls = 0
        /\ fatal = FALSE
        /\ collisions = 0
        /\ onWire = {}
        /\ sent = << >>

Full  == IsFull(pop, push)
Empty == IsEmpty(pop, push)

-----------------------------------------------------------------------------
(* main: ERROR_HANDLE_FATAL(network_tx(...)).                              *)

Return == IF fatal THEN "halted" ELSE "idle"

NetworkTx == /\ pc = "idle"
             /\ calls < MaxCalls
             /\ calls' = calls + 1
             /\ pc' = "push"
             /\ UNCHANGED <<fatal, queue, bus, air>>

\* A line that holds an address and no text: the loop of network_tx queues
\* nothing and the call only tries to start a transmission.
NetworkTxNothing == /\ pc = "idle"
                    /\ pc' = "check"
                    /\ UNCHANGED <<calls, fatal, queue, bus, air>>

\* The macro names its argument twice: on an error it prints the result of a
\* second call of network_tx and then halts, whatever that result is.
PushFull == /\ pc = "push"
            /\ Full
            /\ fatal' = TRUE
            /\ pc' = IF fatal THEN "halted" ELSE "push"
            /\ UNCHANGED <<calls, queue, bus, air>>

\* Slip (no part of the model, see README.md): no test for a full queue.
PushUnchecked == /\ pc = "push"
                 /\ pc' = "copy"
                 /\ UNCHANGED <<calls, fatal, queue, bus, air>>

PushNotFull == /\ pc = "push"
               /\ ~Full
               /\ pc' = "copy"
               /\ UNCHANGED <<calls, fatal, queue, bus, air>>

\* memcpy: an interrupt may see any part of the copy done.
CopyBegin == /\ pc = "copy"
             /\ slots' = [slots EXCEPT ![push].buffer = Torn]
             /\ pc' = "copying"
             /\ UNCHANGED <<push, pop, calls, fatal, bus, air>>

CopyEnd == /\ pc = "copying"
           /\ slots' = [slots EXCEPT ![push].buffer = calls]
           /\ pc' = "size"
           /\ UNCHANGED <<push, pop, calls, fatal, bus, air>>

SetSize == /\ pc = "size"
           /\ slots' = [slots EXCEPT ![push].size = HalfBits[calls]]
           /\ pc' = "publish"
           /\ UNCHANGED <<push, pop, calls, fatal, bus, air>>

Publish == /\ pc = "publish"
           /\ push' = Succ(push)
           /\ pc' = "check"
           /\ UNCHANGED <<slots, pop, calls, fatal, bus, air>>

\* Slip: no test for an empty queue.
MayStartUntested == state = "IDLE" /\ ~backoff

\* network_start_tx, the test and then hb_timer_start.
MayStart == ~Empty /\ state = "IDLE" /\ ~backoff

StartRefused == /\ pc = "check"
                /\ ~MayStart
                /\ pc' = Return
                /\ UNCHANGED <<calls, fatal, queue, bus, air>>

StartAllowed == /\ pc = "check"
                /\ MayStart
                /\ pc' = "start"
                /\ UNCHANGED <<calls, fatal, queue, bus, air>>

Start == /\ pc = "start"
         /\ hb' = TRUE
         /\ pc' = Return
         /\ UNCHANGED <<calls, fatal, queue, bus, cursor, onWire, sent>>

Main == \/ PushFull \/ PushNotFull \/ CopyBegin \/ CopyEnd \/ SetSize
        \/ Publish \/ StartRefused \/ StartAllowed \/ Start

-----------------------------------------------------------------------------
(* TIM4_IRQHandler.                                                        *)

Sending == Succ(pop)        \* msg_idx

\* A frame counts as sent only if every half-bit of it, and nothing else,
\* was put on the wire.
Emitted == IF \E f \in Frames : onWire = {f} /\ cursor = HalfBits[f]
           THEN CHOOSE f \in Frames : onWire = {f}
           ELSE Torn

\* Reads a half-bit.  The second half-bit of a frame is a 0, because the
\* preamble starts with one encoded as "1, 0": it makes the line fall, and
\* the channel monitor sees that before the timer ticks again.
SendHalfBit == /\ hb
               /\ edge # "fall"
               /\ state # "COLLISION"
               /\ cursor # slots[Sending].size
               /\ cursor' = cursor + 1
               /\ onWire' = onWire \cup {slots[Sending].buffer}
               /\ edge' = IF cursor = 1 THEN "fall" ELSE edge
               /\ UNCHANGED <<hb, sent, queue, main>>
               /\ UNCHANGED <<state, timeout, backoff, collisions>>

PopSent == pop' = IF Empty THEN pop ELSE Succ(pop)

\* Assumed: the tick that ends a frame does not fall between the test and the
\* start of network_start_tx.  The line was idle at the test, so a whole frame
\* would have to go by in between.  Bus, which has time, assumes neither this
\* nor what TimeoutIdle does: both are its property TxQueueAssumes.
FrameDone == /\ hb
             /\ edge # "fall"
             /\ pc # "start"
             /\ state # "COLLISION"
             /\ cursor = slots[Sending].size
             /\ hb' = FALSE
             /\ cursor' = 0
             /\ PopSent
             /\ onWire' = {}
             /\ sent' = Append(sent, Emitted)
             /\ UNCHANGED <<slots, push, bus, main>>

\* Slip: the aborted frame is resumed.
CursorKept == UNCHANGED cursor

CursorReset == cursor' = 0

Abort == /\ hb
         /\ edge # "fall"
         /\ state = "COLLISION"
         /\ hb' = FALSE
         /\ CursorReset
         /\ onWire' = {}
         /\ backoff' = TRUE
         /\ UNCHANGED <<sent, queue, main>>
         /\ UNCHANGED <<state, timeout, edge, collisions>>

TIM4 == SendHalfBit \/ FrameDone \/ Abort

-----------------------------------------------------------------------------
(* The other handlers, as far as they touch what the queue's users share:  *)
(* the channel monitor, the timeout timer and the backoff timer.           *)

AfterEdge(kind) == /\ timeout' = TRUE
                   /\ state' = IF kind = "fall" THEN "BUSY" ELSE state
                   /\ UNCHANGED <<backoff, collisions, queue, main, air>>

\* The edge the node's own transmission, or the end of a collision, makes.
ExpectedEdge == /\ edge # "none"
                /\ AfterEdge(edge)
                /\ edge' = "none"

\* An edge some other node makes.
ForeignEdge == /\ \E kind \in {"fall", "rise"} : AfterEdge(kind)
               /\ UNCHANGED edge

\* Slip: the handler starts nothing.
StartForgotten == UNCHANGED hb

StartFromHandler == hb' = (hb \/ (~Empty /\ state' = "IDLE" /\ ~backoff'))

\* Assumed: not once the node's own frame has made the line fall, as it then
\* changes at least every two half-bits, less than the timeout, or else is held
\* low.  Bus has the exception, a line that changes as the timer expires.
TimeoutIdle == /\ timeout
               /\ edge # "fall"
               /\ cursor <= 1
               /\ timeout' = FALSE
               /\ state' = "IDLE"
               /\ UNCHANGED <<edge, backoff, collisions>>
               /\ StartFromHandler
               /\ UNCHANGED <<cursor, onWire, sent, queue, main>>

\* The line is low: it will rise when the nodes that hold it let go.
TimeoutCollision == /\ timeout
                    /\ edge # "fall"
                    /\ collisions < MaxCollisions
                    /\ collisions' = collisions + 1
                    /\ timeout' = FALSE
                    /\ state' = "COLLISION"
                    /\ edge' = "rise"
                    /\ UNCHANGED <<backoff, queue, main, air>>

BackoffOver == /\ backoff
               /\ backoff' = FALSE
               /\ UNCHANGED <<state, timeout, edge, collisions>>
               /\ StartFromHandler
               /\ UNCHANGED <<cursor, onWire, sent, queue, main>>

-----------------------------------------------------------------------------
Next == \/ NetworkTx \/ NetworkTxNothing
        \/ Main
        \/ TIM4
        \/ ExpectedEdge \/ ForeignEdge
        \/ TimeoutIdle \/ TimeoutCollision
        \/ BackoffOver

\* Main runs whenever no handler does; a running timer expires; an edge that
\* is bound to come comes.  Nothing makes a user type, another node talk or
\* a collision happen.
Fairness == /\ WF_vars(Main)
            /\ WF_vars(TIM4)
            /\ WF_vars(ExpectedEdge)
            /\ WF_vars(TimeoutIdle)
            /\ WF_vars(BackoffOver)

SafetySpec == Init /\ [][Next]_vars
Spec == SafetySpec /\ Fairness

-----------------------------------------------------------------------------
(* Properties.                                                             *)

PCs    == {"idle", "push", "copy", "copying", "size", "publish", "check",
           "start", "halted"}
States == {"IDLE", "BUSY", "COLLISION"}

\* The indices stay inside the array and every variable in its range.
TypeOK ==
    /\ slots \in [Indices -> [buffer : Frames \cup {Torn}, size : Nat]]
    /\ push \in Indices /\ pop \in Indices
    /\ hb \in BOOLEAN /\ cursor \in Nat
    /\ state \in States /\ timeout \in BOOLEAN /\ backoff \in BOOLEAN
    /\ edge \in {"none", "fall", "rise"}
    /\ pc \in PCs /\ calls \in 0 .. MaxCalls /\ fatal \in BOOLEAN
    /\ collisions \in 0 .. MaxCollisions
    /\ onWire \subseteq Frames \cup {Torn}
    /\ sent \in Seq(Frames \cup {Torn})

\* "There is always a message present" when the half-bit timer ticks: the
\* comment on the pop in TIM4_IRQHandler, which ignores an empty queue.
TickFindsFrame == hb => ~Empty

\* The handler never takes a half-bit from a buffer main is still filling,
\* nor, within one attempt, from two different frames.
NoTornRead == onWire \subseteq {slots[Succ(pop)].buffer} \ {Torn}

\* The frames that wait, the oldest first.
Waiting == [k \in 1 .. Count(pop, push) |-> slots[SlotAt(pop, k)].buffer]

Fifo == INSTANCE BoundedFifo WITH Capacity <- QueueSize - 1,
                                  waiting <- Waiting

\* Whatever main and the handlers do to each other, frames leave in the order
\* of the calls, once each and whole.
ImplementsFifo == Fifo!Spec

Accepted == Len(sent) + Count(pop, push)

\* A frame that was queued is sent once the bus stops reporting collisions:
\* no interleaving of the push with the end of a transmission, the end of a
\* backoff or the return to IDLE loses the wake-up.
QueuedIsSent == \A f \in Frames : (Accepted >= f) ~> (Len(sent) >= f)
=============================================================================
