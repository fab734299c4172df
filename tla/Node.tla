-------------------------------- MODULE Node --------------------------------
(***************************************************************************)
(* One node of the bus: its three timers, its channel state, the frame it  *)
(* sends and the frame it receives, and the interrupt handlers of          *)
(* channel_monitor.c, timeout.c, network.c and backoff.c as operators from *)
(* a node to a node.  All interrupts have one priority, so a handler is    *)
(* never interrupted: it is one step, or two if an edge can come in        *)
(* between.                                                                *)
(*                                                                         *)
(* Time is counted in ticks.  The transmit and receive queues are reduced  *)
(* to the number of frames waiting and the last frame received: TxQueue    *)
(* and RxQueue are about what happens inside them.                         *)
(***************************************************************************)
EXTENDS Integers, Sequences

CONSTANTS HalfBit,          \* half-bit timer period, HALF_BIT_PERIOD_US
          SampleAt,         \* compare value of the timeout timer, 750 us
          TimeoutAt,        \* period of the timeout timer, 1100 us
          TicksPerMs,       \* ticks in a millisecond
          ByteBits,         \* half-bits in a byte of the receive buffer
          MinBytes,         \* the shortest element queued, 14 bytes
          MaxBytes          \* the size of the receive buffer

ASSUME TimingAssumption ==
    /\ {HalfBit, SampleAt, TimeoutAt, TicksPerMs} \subseteq Nat
    /\ 0 < HalfBit /\ HalfBit < SampleAt /\ SampleAt < 2 * HalfBit
    /\ 2 * HalfBit < TimeoutAt /\ TimeoutAt < 3 * HalfBit

ASSUME BufferAssumption == /\ ByteBits \in Nat /\ ByteBits > 0
                           /\ MinBytes \in Nat /\ MaxBytes \in Nat
                           /\ 0 < MinBytes /\ MinBytes <= MaxBytes

\* A timer: enabled, its count, its period and its pending update interrupt.
\* The hardware loads the prescaler at an update, so a timer is raw until its
\* first one and counts to any period within a tick.
Stopped(period) == [run |-> FALSE, count |-> 0, period |-> period, due |-> FALSE,
                    raw |-> TRUE]

\* hb_timer_reset, timeout_reset and backoff_reset; the starts; the stops.
Rewound(timer) == [timer EXCEPT !.count = 0]
Started(timer) == [timer EXCEPT !.run = TRUE]
Halted(timer)  == [timer EXCEPT !.run = FALSE]
Served(timer)  == [timer EXCEPT !.due = FALSE]

\* A tick of the hardware counter; a period of 0 blocks it.
Counted(timer) ==
    IF ~timer.run \/ timer.period = 0 THEN timer
    ELSE IF timer.raw \/ timer.count + 1 = timer.period
         THEN [timer EXCEPT !.count = 0, !.due = TRUE, !.raw = FALSE]
         ELSE [timer EXCEPT !.count = @ + 1]

None == 2                                  \* no level

\* A node after reset: main has sent its start-up blip, which has started TIM3
\* and let it expire, and the line is idle.
Fresh == [ state   |-> "IDLE",              \* current_state
           out     |-> 1,                   \* the level PC11 drives
           edge    |-> FALSE,               \* EXTI line 12 pending
          isHigh  |-> None,                \* the level its handler has read
           hb      |-> Stopped(HalfBit),    \* TIM4
           timeout |-> [Stopped(TimeoutAt) EXCEPT !.raw = FALSE], \* TIM3
           sample  |-> FALSE,               \* TIM3 compare interrupt pending
           backoff |-> Stopped(100 * TicksPerMs), \* TIM5, set to 100 ms
           cursor  |-> 0,                   \* byteIdx, bitIdx of TIM4's handler
           queued  |-> 0,                   \* network_tx_queue_count
           rx      |-> <<1>>,               \* the element under construction
           got     |-> << >>,               \* the element queued last
           pc      |-> "idle" ]             \* where main is in network_start_tx

-----------------------------------------------------------------------------
(* The receive queue.                                                      *)

RxReset(node) == [node EXCEPT !.rx = <<1>>]

\* Slip (no part of the model, see README.md): no bound.
RxPushBitUnbounded(node, b) == [node EXCEPT !.rx = Append(@, b)]

RxPushBit(node, b) == IF Len(node.rx) > MaxBytes * ByteBits
                      THEN node
                      ELSE [node EXCEPT !.rx = Append(@, b)]

Bytes(bits) == Len(bits) \div ByteBits

RxPush(node) == IF Bytes(node.rx) < MinBytes
                THEN RxReset(node)
                ELSE RxReset([node EXCEPT !.got = SubSeq(node.rx, 1, ByteBits * Bytes(node.rx))])

-----------------------------------------------------------------------------
(* network_start_tx, as the handlers call it, and state_set.               *)

\* The tests of network_start_tx, in the order of the code.
HasFrame(node)    == node.queued > 0
ChannelIdle(node) == node.state = "IDLE"
BackedOff(node)   == ~node.backoff.run

\* hb_timer_reset unless the timer runs, then hb_timer_start.
Launched(node) == IF node.hb.run THEN node
                  ELSE [node EXCEPT !.hb = Started(Rewound(@))]

\* Slip: no test for an empty queue.
StartTxUntested(node) == IF ChannelIdle(node) /\ BackedOff(node)
                         THEN Launched(node) ELSE node

\* Slip: the handler starts nothing.
StartTxForgotten(node) == node

StartTx(node) == IF HasFrame(node) /\ ChannelIdle(node) /\ BackedOff(node)
                 THEN Launched(node) ELSE node

SetState(node, s) == IF s = "IDLE" THEN StartTx([node EXCEPT !.state = s])
                                   ELSE [node EXCEPT !.state = s]

-----------------------------------------------------------------------------
(* The handlers.  `line` is the level they read from PC12.                 *)

\* Slip: only rising edges rewind the timer.
EdgeTimedOnRise(node, line) ==
    [node EXCEPT !.isHigh = line,
                 !.timeout = IF line = 1 THEN Started(Rewound(@)) ELSE Started(@)]

\* Slip: the edge starts the timer and does not rewind it.
EdgeNotRewound(node, line) == [node EXCEPT !.isHigh = line, !.timeout = Started(@)]

\* EXTI15_10_IRQHandler up to the write to EXTI->PR, which clears the pending bit
\* and with it an edge that has come since the level was read.
EdgeRead(node, line) == [node EXCEPT !.isHigh = line, !.timeout = Started(Rewound(@))]

\* Slip: the level of the line is ignored.
EdgeBusyAnyway(node, level) == SetState(node, "BUSY")

EdgeState(node, level) == IF level = 0 THEN SetState(node, "BUSY") ELSE node

\* The rest of it, from that write on.
EdgeUsed(node) ==
    RxPushBit(EdgeState([node EXCEPT !.edge = FALSE, !.isHigh = None], node.isHigh), node.isHigh)

\* Slip: the level of the line is ignored.
TimeoutUnread(node, line) == RxPush(SetState([node EXCEPT !.timeout = Halted(Served(@))], "IDLE"))

\* TIM3_IRQHandler: the update interrupt first.
TimeoutHandler(node, line) ==
    LET stopped == [node EXCEPT !.timeout = Halted(Served(@))] IN
    IF line = 1 THEN RxPush(SetState(stopped, "IDLE"))
                ELSE RxReset(SetState(stopped, "COLLISION"))

\* Slip: the bit is not pushed.
SampleDropped(node) == [node EXCEPT !.sample = FALSE]

\* The compare interrupt: the level has not changed for three quarters of a bit.
SampleHandler(node) == RxPushBit([node EXCEPT !.sample = FALSE], node.rx[Len(node.rx)])

\* TIM4_IRQHandler.  The backoff period is a random byte scaled to a second.
BackoffMs(random) == (random * 1000) \div 255

FrameDone(node) == [node EXCEPT !.hb = Halted(Rewound(@)), !.cursor = 0,
                                !.queued = IF @ = 0 THEN 0 ELSE @ - 1,
                                !.out = 1]

NextHalfBit(node, frame) == [node EXCEPT !.hb = Started(Rewound(@)),
                                         !.out = frame[node.cursor + 1],
                                         !.cursor = @ + 1]

Abort(node, random) ==
    [node EXCEPT !.hb = Halted(@), !.cursor = 0, !.out = 1,
                 !.backoff = Started([@ EXCEPT !.period = BackoffMs(random) * TicksPerMs,
                                               !.count = 0])]

HalfBitHandler(node, frame, random) ==
    LET served == [node EXCEPT !.hb = Served(@)] IN
    IF node.state = "COLLISION"        THEN Abort(served, random)
    ELSE IF node.cursor = Len(frame)   THEN FrameDone(served)
    ELSE NextHalfBit(served, frame)

\* TIM5_IRQHandler.
BackoffHandler(node) == StartTx([node EXCEPT !.backoff = Halted(Served(@))])

-----------------------------------------------------------------------------
(* Time.                                                                   *)

Ticked(node) == [node EXCEPT
    !.hb = Counted(@),
    !.backoff = Counted(@),
    !.timeout = Counted(@),
    !.sample = @ \/ (node.timeout.run /\ node.timeout.count + 1 = SampleAt)]

Pending(node) == node.edge \/ node.sample \/ node.hb.due \/ node.timeout.due
                           \/ node.backoff.due
=============================================================================
