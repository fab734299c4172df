# TLA+ verification of the CE4951 network interface

The program is the firmware of a node on a shared bus (STM32F446, no operating
system): carrier sense, collision detection and random backoff over an
open-drain line, Manchester-encoded frames at 500 us per half-bit, and a
serial console. This directory models it, checks the models with TLC and proves
their main properties with TLAPS. Paths below are relative to `src/src/` unless
they start with `src/`.

## 1. The system

One CPU runs `main`'s endless loop and five interrupt handlers. All
interrupts are in one priority group (`system/stm32f4xx_hal_msp.c:73`,
`NVIC_PRIORITYGROUP_0`, no priority is ever set), so a handler is never
interrupted by another, but `main` can be interrupted between any two
instructions. There are no locks and no critical sections.

| component | state | operations | talks to |
|---|---|---|---|
| transmit queue (`driver/network/network.c`) | ring of 10 slots, push and pop index; the bit cursor of TIM4's handler | `network_tx`, `network_start_tx`, push/pop/is_full/is_empty, `TIM4_IRQHandler` | main pushes; TIM4 reads in place and pops; starts the half-bit and the backoff timer |
| receive queue (`driver/network/network.c`) | ring of 10 slots, push and pop index, bit index of the frame under construction | `network_rx`, push_bit, get_last_bit, push, reset, pop | the channel monitor and TIM3 build and publish; main decodes in place and pops |
| channel monitor (`driver/network/channel_monitor.c`) | EXTI line 12 pending | `EXTI15_10_IRQHandler` on every edge | rewinds the timeout timer, sets BUSY, pushes a bit |
| channel state (`state.c`) | `current_state`: IDLE, BUSY, COLLISION | `state_set`, `state_get` | IDLE calls `network_start_tx` |
| timers (`driver/timer/`) | TIM4 half-bit (500 us), TIM3 timeout (1100 us, compare at 750 us), TIM5 backoff (0 to 1000 ms); a running flag each | start, stop, reset, `TIM3_IRQHandler`, `TIM5_IRQHandler` | timeout: idle or collision; compare: a bit without an edge; backoff over: `network_start_tx` |
| codec (`network.c:609-824`) | none | Manchester encoding and decoding, CRC-8, validation of the header | called by `network_tx`, `network_rx` |
| console (`main.c`) | line buffers | polls `network_rx`, then the serial input; parses a line, calls `network_tx` | a failing `network_tx` is fatal: main halts, the handlers go on |
| serial input (`driver/serial/uart.c`, `util/circular_queue.c`) | 2048-byte ring with two indices and two flags | `USART2_IRQHandler`, `cq_push`, `cq_pull`, `_read`, `uartRxReady`, `uartRxReprint` | the handler pushes; main polls, pulls, and shows again what is typed |
| serial output, LEDs, clocks, HAL configuration, fault handlers, syscalls | | output or set-up only | |

What is hard here: main and the handlers share three rings without a lock; main
decodes frames in the very slots the handlers rotate through; a transmission
is started from three places (main, return to IDLE, end of backoff) and a
missed wake-up leaves a frame waiting; nodes learn of each other only through
edges and timers, at any relative phase; an expiring timer can coincide with
the edge that should have rewound it; a handler clears the interrupt of an edge
it has not seen; two flags stand for the fill of the serial ring and are written
by both sides. `PROJECT.json` lists each of these hazards at its line with the
properties that would catch it.

What makes the components correct:

* transmit queue: frames leave whole, once, in the order of the calls; the
  handler never sees a slot main is filling; the timer never runs over an
  empty queue; a queued frame is eventually sent;
* receive queue: no handler writes to the element main decodes; a queued frame
  holds its own bits only; frames reach main in order, at most once, and a loss
  is confined to noise and a full queue; main gets to every queued frame;
* channel and timers: a collision is reported only if there was one, and then
  stops the sender; idle means quiet; a frame sent alone is heard by all, bit
  for bit; a collided frame is tried again;
* codec: what is sent undamaged is returned as it was sent; what a collision
  nobody noticed has mixed is rejected; a changed message is not accepted;
* serial input: characters are read in order, none twice and none skipped; a
  complete line is seen, and reaches the parser whole; what is typed is shown
  again after a message.

## 2. Modules

| module | models |
|---|---|
| `FrameRing` | the index arithmetic both frame queues share |
| `TxQueue` | `network_tx`, `network_start_tx`, `TIM4_IRQHandler`, and the other handlers as far as they touch what these share |
| `BoundedFifo` | the abstract specification `TxQueue` implements |
| `RxQueue` | the receive queue, the handlers that build it, `network_rx` |
| `FrameInbox` | the abstract specification `RxQueue` implements |
| `Node` | a node's timers, channel state and handlers as functions from node to node |
| `Bus` | nodes on the open-drain line, with time |
| `Codec` | Manchester, CRC, the frame `network_tx` builds, the tests of `network_rx` |
| `Link` | a frame from one node's `network_tx` to another's `network_rx`, with faults |
| `Console` | the serial ring, its handler, and main's loop |
| `MCTxQueue`, `MCRxQueue`, `MCBus`, `MCLink`, `MCConsole` | instances for TLC |
| `FrameRing_proofs`, `TxQueue_proofs`, `RxQueue_proofs`, `Link_proofs`, `Console_proofs` | lemmas, invariants and theorems about the module named |
| `Bus_proofs`, `BusCollision_proofs`, `BusHeard_proofs` | the same about `Bus`, each extending the one before: carrier sense; collisions; what is heard |

`Node` and `FrameRing` are extended by what they are part of; `Bus` composes
any number of nodes, `Link` composes `Codec` with the receiver. `TxQueue` and
`RxQueue` are the two queues that `Bus` reduces to a number and a frame, and
`Console` is the rest of main, for which a whole call of `network_tx` or
`network_rx` is one step.

Definitions under a comment *Slip* are no part of a specification: each is a
plausible mistake in the definition that follows it, and `PROJECT.json`
("mutants") names the property that notices it.

### TxQueue

`network_tx` is cut at each access to shared memory: the test for a full queue
(`PushFull`, `PushNotFull`), the copy (`CopyBegin`, `CopyEnd`; a handler in
between sees a torn buffer), the size, the index (`Publish`), the test and the
start of `network_start_tx` (`StartRefused`, `StartAllowed`, `Start`). The three
tests of `network_start_tx` are one step here and three in `Bus`. A
handler is one action. A buffer is the number of the call that filled it, or
`Torn`; the encoded length is a constant per frame. `ERROR_HANDLE_FATAL` names
its argument twice, so a full queue leads to a second call of `network_tx` and
then to the halt whatever the second call returns.

The other handlers appear as their effect on `state`, `timeout`, `edge` and
`backoff`. Two timing assumptions, each marked *Assumed* at its action, stand
for what an untimed model cannot see: the timeout does not expire on a high
line once the node's own frame has made it fall, and the tick that ends a frame
does not fall between main's test and its start. `SendHalfBit` records the
falling edge every frame makes with its second half-bit and the next tick waits
until the channel monitor has seen it: it takes microseconds, a tick 500 us.
`Bus` makes none of these assumptions. Its property `TxQueueAssumes` states the two, a run checks
it and a theorem proves it for any number of nodes and any frames; section 4
shows the one case it leaves out.

`Waiting` (the buffers from pop to push) is the refinement mapping to
`BoundedFifo`; `sent` is a history variable that records a frame only if every
half-bit of it, and nothing else, went out.

### RxQueue

`cells` holds, per position of a slot, the set of sources whose bit was OR-ed
into it: the lead bit, or the number of a transmission. A frame is intact when
each position has exactly one source. `LineIdle` and `Collision` are the two
ends of a timeout (`network_rx_queue_push`, `network_rx_queue_reset`).
`network_rx` is cut at each access: `Poll`, `DecodeHeader`, `DecodeBody`,
`PopClear`, `PopAdvance`. Decoding is abstracted to whether the element
consists of the bits of one valid frame (`Codec` has the rest); `Noise` are
transmissions that are none. Positions go one past the buffer because
`network_rx_queue_push_bit` does.

`network_rx_queue_pop` clears the slot popped *before*; `ClearPopped` does the
same. This is harmless but for one case, a full queue, where that slot is the
one under construction; history variable `crowded` marks frames begun in this
situation, and they are the ones `FrameInbox` allows to be lost (`fragile`).

### Node and Bus

A handler in `Node` is an operator from a node to a node with the names of the
code; `Bus` applies one per step and sets the edge interrupt of every node when
the level of the line changes. `Tick` advances all counters. Handlers and
main's three tests are prompt: `Tick` waits until none is pending. Any order of
handlers of all nodes, and any of them between two of main's steps, happens
within an instant. The queues are reduced to a number and to the last
frame received.

The edge handler is two steps. `ReadEdge` reads the level of the line and
rewinds the timeout timer; `UseEdge` clears the pending bit, and with it that of
an edge another node has made in between, then sets the state and pushes the
bit. No other handler and no step of main of the same node comes in between
(`Free`).

A timer is `raw` until its first update, because the hardware loads the
prescaler then: its first period is over within a tick. The start-up blip
(`main.c:89`) has done this for TIM3 but not for TIM4 and TIM5; so the first
half-bit after reset is cut short, and the first backoff has no length.

`BusAssumption` says what Manchester guarantees: a
frame begins with a fall and never has three equal half-bits in a row.
`LengthAssumption` says what `network_tx` guarantees: whole bytes, no more than
the buffer takes.

History: `talkers` (who pulled the line low since it was last
idle everywhere), `aired` (the frame just finished by a lone sender), `level`
(the line at the beginning of the instant) and `raced` (the nodes whose timeout
expired in the instant the line changed).

### Codec and Link

`Codec` follows the code byte by byte on the way in and bit by bit on the way
out: `Encode`, `Decode` (which zeroes the buffer and stops at the first symbol
that is neither 01 nor 10), `Crc8`, `EncodedFrame`, and `Accepts` for the tests
`network_rx` makes on an element of the receive queue, errors of the message and
the trailer ignored as the code ignores them.

`Link` puts one frame on the line, damages it up to `MaxFaults[sent]` times and
receives it. A fault is a frame of another node that overlaps in phase
(`Overlap`: low where either is low), a half-bit or a whole bit changed
(`FlipHalfBit`, `FlipBit`), or a half-bit lost or doubled (`LoseHalfBit`,
`DoubleHalfBit`), which is what a compare interrupt served late or twice does to
the elements. Then `Receive` goes through the line, an element a step, until no
edge is left. An element is the bit pushed in advance and the half-bits from the
first edge after the last timeout on (`FirstEdge`), and it ends at three equal
half-bits (`FirstStill`), which is where the timeout expires, or in front of
them where the buffer is full (`Capacity`). On a high line it is pushed if it
has 14 bytes, and `network_rx` decodes it (`Outcome`); on a low line it is a
collision, and the element is reset. Either way the next edge begins another
element: what is left of a frame after a timeout in mid-frame is one. `heard`
counts the half-bits the receiver has been through, and `delivered` lists what
`network_rx` has returned: the frame, whether a symbol of it could not be read
(`blind`), and whether the element was such a rest (`tail`). A line that does
not change any more makes no interrupt, and `Receive` is not taken. The receive
queue has room for every element; `RxQueue` is about one that has not.

### Console

A character is its number in the order of typing; `newlines` says which ones end
a line. `Typed` is USART2's handler with `cq_push`, one step. Main is cut at
each access to the ring: `FindInput`, `Ready` and `NotReady` are `uartRxReady`,
which reads the flag and the index in one step and the last character in
another. (A push between the first two reads is as if it came before both: main
goes on only if the ring is not empty, and a push leaves it so.) `Await`
to `ReadReturns` are `_read` with `cq_pull` in five accesses (the character, the
wrap, the comparison, the two flags), so that a push can come between the
comparison and the store of its result. `Refill` and `TakeLine` are the
library's `fgets` and `fflush(stdin)` as main uses them; the library's buffer
(`input`) has no bound, see section 7. `HandleLine` and `HandleFatal` stand for
the handling of a line: an address set, a complaint, or a message queued, and
the halt when the transmit queue is full. `Message` is the receipt of a message
with the reprint that follows it.

`TypedOnFull` is the handler on a full ring: it returns without reading the data
register, so the interrupt is pending again at once and main never runs
(`storm`). `fault` is where the reprint ends that has run off the array.
History: `hurried` (something was typed while main was reading, or behind a line
not yet read) and `overrun` (the handler has overwritten an unread character).

## 3. Runs

| run | question | bounds |
|---|---|---|
| `tx` | type, `TickFindsFrame`, `NoTornRead`, refinement of `BoundedFifo`, `QueuedIsSent` | 3 slots (full at 2 frames), 5 calls: every slot is used twice, the queue is full and wraps; 2 collisions: one abort and a second one of the retry; frames of 2 and 3 half-bits (13,267 states) |
| `rx` | type, `NoOverlap`, `QueuedIntact`, refinement of `FrameInbox`, `WaitingIsDelivered` | 3 slots, 6 transmissions, the third noise; a buffer of 3 bits reached and exceeded (199,291 states) |
| `bus` | type, `CollisionHasTwoParties`, `CleanFrameHeard` | two senders with different frames, two calls of the first and one of the second, at every phase in ticks of 125 us; a third node that only listens (4,277,358 states) |
| `bus_same` | `SendsQueued`, `IdleIsQuiet`, `CollisionStopsSender`, `TxQueueAssumes`, `Retried` | the two senders with equal frames, which can end together (106,927 states) |
| `console` | type, `NoneStranded`, `InOrder`, `WholeLines`, `LineTaken`, `ReprintWhole` | a ring of 4, a line of at most 3, 7 characters, one message (531,852 states) |
| `link` | type, `DeliveredWhole`, `OverlapRejected`, `CrcNotices`, `WrongOnlyIfBlind` | two frames of one byte, two faults in any combination and place; one of seven bytes that holds a frame, one fault (499,485 states) |
| `rx_pop`, `bus_wakeup`, `bus_zero`, `console_ready`, `console_reprint`, `link_blind` | what a comment or the README says - violated | the same or smaller: 5 characters, `Randoms` with 0 |

Bus: half-bit, compare, timeout and millisecond are 4, 6, 9 and 8 ticks for
500, 750, 1100 (rounded up to 1125) and 1000 us, which keeps the order
1 half-bit < compare < 2 half-bits < timeout < 3 half-bits that the protocol
rests on (`TimingAssumption`). A frame has four encoded bits, enough for both
kinds of symbol boundary and for a low phase of two half-bits; the buffer
holds exactly a frame and a reception longer than it occurs under collisions.
`Randoms` are 1 and 2 (3 and 7 ms): equal and different backoffs. Three calls
let a frame wait behind another of the same node and behind one of the other.

Console: with four slots a newline falls into each of them, the ring wraps,
fills and overflows while main is in the middle of a pull; seven characters are
a line, the next one, and what is typed behind it; a line of three is cut by
`fgets` before the ring is full.

Link: two of the frames differ in the last bit of the source only. They never
make a low phase long enough to be noticed as a collision, which is the hardest
case for `OverlapRejected`. Their message, 176, becomes 183 with two half-bits
doubled, and both have the same CRC, the case `CrcNotices` is about. The message
of the third frame is 231 and a frame with an empty message. When the last bit
of 231 is changed to two high half-bits, a timeout comes before that frame, and
it is delivered, the case `WrongOnlyIfBlind` allows for tails. One fault is enough
for that, so `MaxFaults` is 1 for this longer frame and 2 for the others.

The deadlock check is off in three models. `rx`: transmissions are bounded by
`MaxFrames` and main, which polls an empty queue forever, then has no step
left. `console`: main halts after a fatal error, dies in a fault, is starved by
the storm, or polls an empty ring when all characters are typed. `link`: the
receiver has been through the line. In the other models something can always
happen.

## 4. What the runs found

Each violation run refutes what a comment or the README says:

* **Pop erases the frame under construction** (`network.c:594`, run `rx_pop`)
  when the queue is full: the slot cleared is not the one popped.
* **A lost wake-up** (`timeout.c:240`, run `bus_wakeup`). Two frames, a fraction
  of a half-bit apart, can hold the line low for the whole timeout and release
  it as it expires. If the handler of that edge runs first, the timeout handler
  stops the timer the edge has just rewound. If it was the last edge of the
  frame, no timer is left, and the next queued frame waits for an unrelated
  event. The window is the few cycles between an edge and `TIM3->CNT = 0`.
  The nodes are told IDLE in the middle of their frames; the properties
  about a node's idea of the channel leave out nodes to which this has happened
  (`raced`).
* **A backoff of 0 never ends** (`network.c:912`, run `bus_zero`): TIM5 with a
  period of 0 does not count, and `backoff_is_running()` stays true.
* **A newline in the last slot is not seen** (`uart.c:205`, run
  `console_ready`): `buffer[pusher - 1]` with `pusher` 0 is the byte before the
  array. The line waits until more is typed, and for a newline again.
* **The reprint runs off the array** (`uart.c:221`, run `console_reprint`) when
  the typed characters wrap: `i + 1 % CIRCULAR_QUEUE_SIZE` is `i + 1`.
* **A damaged message is accepted** (`network.c:640`, run `link_blind`): an
  invalid symbol in the message cuts it short, the error is printed and
  dropped, and the CRC of the bits before it, followed by zeros, can fit.

Other behaviour the models have, which no text of the repository excludes:

* A full transmit queue is fatal for main (`main.c:167`, `HandleFatal`,
  `PushFull`): the tenth undelivered line halts the console for good.
* The receive bound is one bit too far (`network.c:505`): the bit is OR-ed into
  the element's size, which `network_rx_queue_push` overwrites later. `TypeOK` of
  `RxQueue` and `Bus` allow exactly that one position.
* Main can start on a busy line (`network.c:345`): a falling edge between the
  test and the start. The result is an ordinary collision.
* The first backoff after reset has no length, so two nodes whose first frames
  collide try again at once.
* With three senders a sender that has found a collision can be set back to BUSY
  by the first edge of the third, before its half-bit timer looks at the state
  (`channel_monitor.c:55`). `CollisionStopsSender` is therefore about two.
* A node whose timeout met the first edge of a frame (a `raced` one) can forget a
  collision among two senders as well: it is IDLE with its timeout running, so it
  may start a frame; if the first fall of the other one meets that timeout, it
  is set to COLLISION and by the edge handler to BUSY in the same instant. TLC
  found this with frames of different data and two calls of each sender;
  `CollisionStopsSender` leaves `raced` out like the other properties about a
  node's idea of the channel.
* The header is not covered by the CRC (`network.c:640`): a changed address bit
  (both half-bits) is delivered to the wrong node, and a changed bit of the flag
  turns the CRC off, after which any trailer of 0xAA is good. `CrcNotices` and
  `WrongOnlyIfBlind` are about headers that arrive (`HeaderWhole`).
* A half-bit lost or doubled, which is what a late compare interrupt does
  (`timeout.c:251`), moves all bits behind it, and that is a pattern a CRC of
  eight bits can miss. Two doubled half-bits turn a message of 176 into 183 with
  every symbol valid and the CRC the same. One lost half-bit would turn a message of 31
  zero bytes into one of ones: the 254 bits changed are a multiple of the
  polynomial, which is a factor of x^127 + 1. `WrongOnlyIfBlind` excludes such faults;
  `CrcNotices` covers them and says what they can do at most.
* A frame inside a message can be received on its own (`timeout.c:237`, run
  `link`). If noise keeps the line high for three half-bits in mid-frame,
  the timeout takes it for idle; what follows is built into another element, and
  the loop of `network_rx` decodes that too. One changed half-bit is enough: 11
  for the last bit of a byte in front of an embedded preamble. What comes before
  is too short or fails the test of the length. The shortest case is a message
  of seven bytes, `m 55 01 S D 00 01` with `m` such that the CRC is 0: it is
  delivered as an empty message from S. In general the outer CRC must be 0 in
  front of the embedded message (flag 01), or the outer trailer 0xAA (flag 00).
  `WrongOnlyIfBlind` therefore excludes tails of messages of 6 bytes or
  more (what is left of a shorter one has not the 14 bytes of a frame);
  `CrcNotices`, which compares with what was sent, is about elements that begin
  a frame.
* `fflush(stdin)` (undefined in C, modelled as dropping the library's buffer)
  discards a line that was typed ahead of the poll; a character typed while main
  reads can be left in the ring with the empty flag set (`circular_queue.c:65`),
  unseen until the next one comes; a full ring can lose its full flag the same way
  and is then overwritten. `hurried` and `overrun` mark these cases.
* A full serial ring starves main (`uart.c:348`, `storm`).

## 5. Fairness

`TxQueue`: weak fairness of main's steps (main runs whenever no handler does),
of TIM4, the end of the timeout and the end of the backoff (a running timer
expires) and of an expected edge (the node's own output, or the release of the
line after a collision). None for `NetworkTx`, foreign edges and collisions:
nothing makes a user type or another node talk, and `MaxCollisions` bounds the
collisions because a bus that collides forever sends nothing.
`RxQueue`: weak fairness of main only. `Bus`: weak fairness of `Tick`, of each
node's handlers and of main inside `network_start_tx`. `Console`: weak fairness
of main, which runs whenever the handler does not; none of the user, and a
storm disables main instead of being assumed away. `Link` has safety properties
only.

## 6. Proofs

Checked by `tlapm`, for every value of the constants under the modules'
assumptions: `QueueSizeAssumption` (at least two slots), `TxAssumption` (every
frame has at least two half-bits), `RxAssumption` (a frame has at least two bits
and fits the buffer), `ConsoleAssumption` (a ring of at least two),
`LinkAssumption` (messages of 1 to 255 bytes), `TimingAssumption` (the order of
the periods), `BufferAssumption` (the size of the buffer), `BusAssumption` and
`LengthAssumption` (frames as Manchester and `network_tx` make them). None bounds
the number of nodes, slots, calls or frames.

* `FrameRing_proofs`: what the ring functions return, that the push slot is
  free, and how a push and a pop change `Count` and `Queued`. The `%` is
  eliminated once (`SuccValue`, `SlotAtValue`).
* `TxQueue_proofs`: the properties are not inductive. That the timer never
  runs over an empty queue needs that main, having passed the tests, still has a
  frame (`StartInv`); that the handler reads a whole frame needs that the slot
  main writes to is free (`SpaceInv`: the test for a full queue stays true,
  since nobody else pushes), that it is complete when it is published
  (`BuildInv`), that queued slots stay whole (`QueuedInv`) and that the cursor is
  0 between attempts (`CursorInv`). `IInv` is their conjunction; `Invariance`
  proves it and yields `TypeCorrect`, `TickAlwaysFindsFrame` and `NeverTorn`.
  `Refinement` proves `Spec => ImplementsFifo`: `Publish` is `Accept`,
  `FrameDone` is `Send`, every other action leaves `Waiting` and `sent` alone.
* `RxQueue_proofs`: `IInv` says what every slot holds: free ones are blank
  (`BlankInv`), the one under construction holds the lead bit and the bits
  received so far unless it was opened on a full queue (`BuildInv`, `CrowdInv`),
  queued ones hold their owner's bits (`QueuedInv`); and it ties `decoded` to
  the owner of the element main reads (`DecodeInv`). `Invariance` yields
  `TypeCorrect`, `NeverOverlap` and `AlwaysIntact`; `Refinement` proves
  `Spec => ImplementsInbox`: a frame that is not fragile passes the decoder, so
  `Lose` is taken only for fragile ones.
* `Bus_proofs`: carrier sense for any number of nodes, `SendsAreQueued` and
  `IdleMeansQuiet`, the node's own frame included. The argument is one about time. A high phase of the line
  inside a frame is at most two half-bits, less than the timeout, and no node's
  timeout has counted longer than the sender has been driving it (`ClockInv`);
  so no timeout expires on a high line inside a frame (`NoTimeoutInv`). Within
  an instant a line that was high only falls (`FallInv`), so an edge whose
  interrupt is lost tells nothing new: who has handled one knows that the line
  is low (`LowInv`), and a frame that has begun is known to every node
  (`HeardInv`). `MainInv` carries this through main's three tests. A node in
  `raced` is exempt from all but the clocks; `bus_wakeup` shows why.
  `TxQueueMayAssume` discharges what `TxQueue` assumes: a timeout answered on a
  high line is the one `NoTimeoutInv` speaks of, and main about to start the timer
  has its cursor at the fall at most (`MainInv`), while a frame leaves the queue at
  its end, which is later. `OthersWait` shows that no other handler matters.
* `BusCollision_proofs`: a *session* is the time from the first fall on an idle
  line until all timeouts are over; `talkers` are its senders.
  `CollisionsHaveTwoParties` is about sessions of one. Inside its frame every
  node's timeout has counted exactly as long as the line has been at its level
  (`PhaseInv`), which is at most two half-bits; after the frame all timeouts count
  from the same edge (`SyncInv`) and expire together (`DueInv`), and the sender
  begins its next frame only then (`SenderInv`). So no timeout expires on a
  low line.
  `CollisionsStopSenders` is about sessions of two. A timeout that expires on a
  low line has counted since the fall, and a fall is the beginning of a half-bit
  of one of the two (`FellInv`, `BeganInv`). The timeout is longer than two
  half-bits and shorter than three, so the sender that made the fall is in the
  middle of a half-bit when it expires. Of the two, the one that holds the line
  low has begun its half-bit after the one that has let it go; so the timer of
  the latter comes first, finds COLLISION and stops it. That no new fall comes
  before is `StopInv`; it needs that no frame is started on a low line
  (`LaunchInv`) and what a timeout that meets a rise can do (`RiseInv`).
* `BusHeard_proofs`: `CleanFramesHeard`. In a session of one every node has
  received exactly the half-bits sent, but for one whose edge it has still to use
  or which it has still to sample (`HearInv`). After the frame the compare
  interrupt and the rise to the idle level add at most two bits. They are less than
  a byte, and `network_rx_queue_push` counts bytes.
* `Link_proofs`: `RoundTrip`, for any bits, and `CollisionsRejected`: without
  other faults the header region of the line is the wired-AND of the frames on
  it (`WiredInv`); at a bit in which two sources differ, both half-bits are low,
  and 00 is no symbol; so the header of the first element is never clean. Nor is
  that of a later one: a frame has no three high half-bits in a row, so the line
  of several has none (`Falls`), and a timeout before its end finds it low; the
  next edge then rises, and with the bit pushed in advance the element begins
  with 11 (`AfterCollision`). `SentIsDelivered` follows an undamaged frame
  (`Untouched`) to main. No three half-bits of a frame are equal, so the element
  ends after its trailer and is cut to whole bytes; the bits decode to what was
  encoded, and every test of `network_rx` passes, the CRC included. The CRC is a
  recursive function over the bits. The library's induction theorems cannot be
  used here, because they take an operator; `SetInduction` is induction on
  membership in a *set* of numbers, derived from the well-foundedness of `<`,
  and gives the lemmas on recursive functions (`Runs`) from which `CrcOfItself`
  follows: a byte run through a register that begins with it leaves 0.
  `CrcTellsApart` says what the CRC is worth, for any length. The register is
  linear in the bits (`DifferStep`), so two sequences with one CRC differ by one
  whose CRC is 0. The polynomial, x^8 + x^2 + x + 1, has four terms, so a shift
  changes the parity of the register with that of the bit taken in (`Parity`):
  the bits that differ are even in number. Its last term is not 0, so a step can
  be undone (`StepBack`) and a register with something in it stays so through
  zeros (`ZerosAfter`): the bits that differ are not all within a byte
  (`NoBurst`). Its powers of x are all different up to 126 (`Powers`, one step
  each): two bits that differ are at least 127 apart (`NoPair`).
  `WhatTheCrcNotices` carries this to the line. Two elements whose symbols were
  all read hold what was encoded bit for bit, and an accepted one has a register
  of 0 at its end, as has the one sent (`AcceptedMisses`, `HeaderSent`).
  `WrongIsBlind` counts: a fault that changes a value changes at most one bit
  (`FewAltered`), and in a message of up to 14 bytes with its trailer, 120 bits,
  no two bits are 127 apart; so four of them must change (`FourAtLeast`). About
  a tail it counts otherwise: a header that has arrived has no three equal
  half-bits, so the first timeout comes after it (`PastHeader`), and what is
  left of a message of up to 5 bytes has fewer than the 14 bytes of an element
  (`TailIsLong`). The invariant is `NoticeInv`: `FewAltered`, `PastHeader` and
  the two properties, which stay true because nothing happens to a line that is
  being received.
* `Console_proofs`: the ring is a window of the numbers typed (`RingInv`, with
  lemmas on remainders, since the indices are the numbers modulo the size,
  `IndexInv`). `FlagInv` and `CalmInv` say what the two flags are worth at each
  of main's cuts. `Invariance` yields `TypeCorrect`, `NeverStranded` and
  `PullsInOrder`; with what the reprint has shown so far it yields
  `ReprintsAll`. For `LinesArriveWhole`, `LineInv` says that, unless main was
  hurried, what `fgets` holds starts after a newline and has no gap, and that
  the only newline behind it is the character typed last.

Only model-checked: liveness (`QueuedIsSent`, `WaitingIsDelivered`, `Retried`,
`LineTaken`), since the prover does not handle fairness. Every invariant, every
action property and both refinements of the passing runs are proved. That the
refinements also keep the liveness of the abstract specifications is not claimed:
they have none.

## 7. Not modelled

* Time: handlers that take longer than a tick, and propagation delay.
  `Link` has the effect of the first (half-bits lost or doubled), not its cause.
* The size of the library's buffer. `_read` (`uart.c:320`) ignores `len` and
  copies all that is in the ring, which may be more than `fgets` has room for;
  the rest would overwrite what lies behind. In `Console` `input` takes what
  comes, so its properties hold as long as no more is typed between two reads
  than that buffer holds.
* How a line is parsed into an address and a message. The copy of a fixed size
  from an offset reads behind the buffer, which is undefined. Two effects of
  it are visible without a model: 255 characters and an address are more than
  `fgets` takes, and the last is lost; a `/setaddr` without an argument takes the
  address from what an earlier line has left in the buffer (`main.c:129`).
* Initialisation. Every model starts after it; `Bus` starts with the timers as
  the start-up blip leaves them.
* Serial output and the echo: polled, and only the picture on the terminal
  depends on it. LEDs follow the channel state. Fault handlers print and halt.
* Clocks, pins, the HAL configuration, CMSIS, the STM32 HAL and the start-up
  code. They are third-party or generated and more than nine tenths of the
  repository's lines; the program of the node itself is some five thousand, headers and set-up included.

## 8. Plan

Done, in this order: the two queues with their abstract specifications and
proofs; the bus, with the edge handler in two steps and the prescalers; the
console and its ring; the codec and the link; the proofs about console, link
and bus; a run for each claim the code does not keep; the proofs about
collisions, heard frames, delivery and whole lines; about what the CRC notices, and
that `Bus` keeps what `TxQueue` assumes.

Left:

1. A variant of `Bus` in which a handler may be late by some ticks, to see from
   which latency on `CleanFrameHeard` fails, and the start-up sequence.
2. The parsing of a line, composed with `Console` and `TxQueue`.
