-------------------------------- MODULE Bus ---------------------------------
(***************************************************************************)
(* Nodes on the shared line.  The outputs are open drain, so the line is   *)
(* low as long as any node pulls it low.  Nodes do not hear each other in  *)
(* any other way: carrier sense, collision detection and the reception of  *)
(* frames all come from the edges of the line and from timers.             *)
(*                                                                         *)
(* A tick advances every timer.  Handlers are prompt: time waits until no  *)
(* interrupt is pending.  So is main inside network_start_tx, but a        *)
(* handler may run between any two of its steps.                           *)
(***************************************************************************)
EXTENDS Node

CONSTANTS Nodes,
          Frame,            \* the half-bits of the frame each node sends
          MaxCalls,         \* bound: the calls of network_tx of each node
          Randoms           \* the low bytes of SysTick read on a collision

ASSUME BusAssumption ==
    /\ Frame \in [Nodes -> Seq({0, 1})]
    /\ \A n \in Nodes : Len(Frame[n]) > 2 /\ Frame[n][1] = 1 /\ Frame[n][2] = 0
    \* No three half-bits are equal: there is an edge in every Manchester symbol.
    /\ \A n \in Nodes : \A k \in 1 .. Len(Frame[n]) - 2 :
          Frame[n][k] # Frame[n][k + 1] \/ Frame[n][k + 1] # Frame[n][k + 2]
    /\ MaxCalls \in [Nodes -> Nat]
    /\ Randoms \subseteq 0 .. 255

\* network_encode_frame_manchester makes whole bytes, as many as a receive
\* buffer holds at most; the test of network_rx_queue_push lets the shortest
\* frame pass.
ASSUME LengthAssumption ==
    /\ ByteBits > 2
    /\ \A n \in Nodes : \E bytes \in MinBytes .. MaxBytes : Len(Frame[n]) = ByteBits * bytes

VARIABLES node,             \* the nodes
          calls,            \* the calls of network_tx so far
          level,            \* history: the level of the line when time last
                            \* passed
          raced,            \* history: the nodes whose timeout timer expired
                            \* at the instant the line changed
          talkers,          \* history: the nodes that pulled the line low
                            \* since it was last idle
          aired             \* history: the frame just sent by one node alone

traffic == <<level, raced, talkers, aired>>
vars == <<node, calls, traffic>>

Init == /\ node = [n \in Nodes |-> Fresh]
        /\ calls = [n \in Nodes |-> 0]
        /\ level = 1
        /\ raced = {}
        /\ talkers = {}
        /\ aired = << >>

Level(ns) == IF \A n \in Nodes : ns[n].out = 1 THEN 1 ELSE 0

Line == Level(node)

\* Node n changes to `new`; a change of the line interrupts every node.
Step(n, new) ==
    LET ns == [node EXCEPT ![n] = new] IN
    node' = IF Level(ns) = Line THEN ns
            ELSE [m \in Nodes |-> [ns[m] EXCEPT !.edge = TRUE]]

-----------------------------------------------------------------------------
(* main: network_tx and network_start_tx, one step per test.               *)

\* No handler of n is at work.
Free(n) == node[n].isHigh = None

At(n, here, there, new) == /\ node[n].pc = here
                           /\ Free(n)
                           /\ Step(n, [new EXCEPT !.pc = there])
                           /\ UNCHANGED traffic

NetworkTx(n) == /\ calls[n] < MaxCalls[n]
                /\ calls' = [calls EXCEPT ![n] = @ + 1]
                /\ At(n, "idle", "queue", [node[n] EXCEPT !.queued = @ + 1])

\* A line with an address and no text: only network_start_tx is called.
NetworkTxNothing(n) == /\ calls[n] < MaxCalls[n]
                       /\ calls' = [calls EXCEPT ![n] = @ + 1]
                       /\ At(n, "idle", "queue", node[n])

Test(n, here, holds, there) == /\ At(n, here, IF holds THEN there ELSE "idle", node[n])
                               /\ UNCHANGED calls

TestQueue(n)   == Test(n, "queue", HasFrame(node[n]), "state")
TestState(n)   == Test(n, "state", ChannelIdle(node[n]), "backoff")
TestBackoff(n) == Test(n, "backoff", BackedOff(node[n]), "start")

Start(n) == /\ At(n, "start", "idle", Launched(node[n]))
            /\ UNCHANGED calls

Main(n) == TestQueue(n) \/ TestState(n) \/ TestBackoff(n) \/ Start(n)

-----------------------------------------------------------------------------
(* The handlers.                                                           *)

ReadEdge(n) == /\ node[n].edge
               /\ Free(n)
               /\ Step(n, EdgeRead(node[n], Line))
               /\ UNCHANGED <<calls, traffic>>

UseEdge(n) == /\ ~Free(n)
              /\ Step(n, EdgeUsed(node[n]))
              /\ UNCHANGED <<calls, traffic>>

ServeTimeout(n) == /\ node[n].timeout.due /\ Free(n)
                   /\ Step(n, TimeoutHandler(node[n], Line))
                   /\ raced' = IF Line = level THEN raced ELSE raced \cup {n}
                   /\ UNCHANGED <<calls, level, talkers, aired>>

ServeSample(n) == /\ node[n].sample /\ Free(n)
                  /\ ~node[n].timeout.due
                  /\ Step(n, SampleHandler(node[n]))
                  /\ UNCHANGED <<calls, traffic>>

ServeBackoff(n) == /\ node[n].backoff.due /\ Free(n)
                   /\ Step(n, BackoffHandler(node[n]))
                   /\ UNCHANGED <<calls, traffic>>

\* The line is idle: it is high, no node waits for an edge, none is inside a
\* frame.
Quiet == Line = 1 /\ \A n \in Nodes : ~node[n].timeout.run /\ ~node[n].edge
                                                          /\ node[n].cursor <= 1

Recorded(n, new) ==
    /\ talkers' = IF new.out = 1 THEN talkers
                  ELSE IF Quiet THEN {n} ELSE talkers \cup {n}
    /\ aired' = IF new.out = 0 THEN << >>
                ELSE IF new.queued < node[n].queued /\ talkers = {n} THEN Frame[n]
                ELSE aired

ServeHalfBit(n) == /\ node[n].hb.due /\ Free(n)
                   /\ \E r \in Randoms :
                         LET new == HalfBitHandler(node[n], Frame[n], r) IN
                         Step(n, new) /\ Recorded(n, new)
                   /\ UNCHANGED <<calls, level, raced>>

Handler(n) == \/ ReadEdge(n) \/ UseEdge(n) \/ ServeTimeout(n) \/ ServeSample(n)
              \/ ServeBackoff(n) \/ ServeHalfBit(n)

-----------------------------------------------------------------------------
Tick == /\ \A n \in Nodes : ~Pending(node[n]) /\ node[n].pc = "idle"
        /\ node' = [n \in Nodes |-> Ticked(node[n])]
        /\ level' = Line
        /\ UNCHANGED <<calls, raced, talkers, aired>>

Next == \/ Tick
        \/ \E n \in Nodes : NetworkTx(n) \/ NetworkTxNothing(n) \/ Main(n) \/ Handler(n)

\* Time passes, pending interrupts are taken and main goes on; nothing makes
\* a user type.
Fairness == /\ WF_vars(Tick)
            /\ \A n \in Nodes : WF_vars(Main(n)) /\ WF_vars(Handler(n))

SafetySpec == Init /\ [][Next]_vars
Spec == SafetySpec /\ Fairness

-----------------------------------------------------------------------------
(* Properties.  Those about a node's idea of the channel leave the nodes in*)
(* `raced` out, whose timeout expired as the line changed: EveryFrameTried *)
(* below shows what may happen to them.                                    *)

States == {"IDLE", "BUSY", "COLLISION"}

TimerOK(timer) == /\ timer \in [run : BOOLEAN, count : Nat, period : Nat, due : BOOLEAN,
                                  raw : BOOLEAN]
                  /\ timer.count < timer.period \/ timer.count = 0

\* Counts stay below periods, the cursor inside the frame, the receive index
\* at most one past the buffer.
TypeOK ==
    /\ talkers \subseteq Nodes /\ raced \subseteq Nodes /\ level \in {0, 1}
    /\ aired \in {Frame[n] : n \in Nodes} \cup {<< >>}
    /\ \A n \in Nodes :
          /\ node[n].state \in States /\ node[n].out \in {0, 1}
          /\ {node[n].edge, node[n].sample} \subseteq BOOLEAN
          /\ node[n].isHigh \in {0, 1, None} /\ (node[n].edge \/ Free(n))
          /\ TimerOK(node[n].hb) /\ TimerOK(node[n].timeout) /\ TimerOK(node[n].backoff)
          /\ node[n].cursor \in 0 .. Len(Frame[n])
          /\ calls[n] \in 0 .. MaxCalls[n] /\ node[n].queued \in 0 .. calls[n]
          /\ Len(node[n].rx) \in 1 .. MaxBytes * ByteBits + 1
          /\ node[n].pc \in {"idle", "queue", "state", "backoff", "start"}

\* A node reports a collision only when two nodes have pulled the line low
\* since it was idle: a lone sender, whatever it sends, is never taken for one.
CollisionHasTwoParties ==
    \A n \in Nodes : node[n].state = "COLLISION" => \E a, b \in talkers : a # b

\* A node that has served its edges and calls the channel idle is right: no
\* node, itself included, is inside a frame.
IdleIsQuiet ==
    \A n \in Nodes \ raced : node[n].state = "IDLE" /\ ~node[n].edge =>
        \A m \in Nodes : node[m].cursor <= 1

\* Of two senders that collide, one that has detected it stops: no later edge
\* makes it forget the collision before its half-bit timer has seen it.  (The
\* first edge of a third sender can.)
CollisionStopsSender ==
    [][\A n \in Nodes \ raced :
          (\E a, b \in Nodes : talkers \subseteq {a, b})
                 /\ node[n].state = "COLLISION" /\ node[n].hb.run /\ node'[n].hb.run
             => node'[n].state = "COLLISION"]_vars

\* A frame sent by one node alone has been received, bit for bit, by every
\* node, the sender included, when the node sees the line idle again.
CleanFrameHeard ==
    [][\A n \in Nodes :
          aired # << >> /\ node[n].timeout.run /\ ~node'[n].timeout.run /\ Line = 1
             => node'[n].got = aired]_vars

\* The half-bit timer runs only over a queue with a frame, whatever ends a
\* transmission while main or a handler starts one.
SendsQueued == \A n \in Nodes \ raced : node[n].hb.run => node[n].queued > 0

\* What the model of the transmit queue, which has no time, assumes of it: no
\* timeout reports the channel idle in the middle of the node's own frame, and
\* no frame leaves the queue while main is between the last test of
\* network_start_tx and the start of the timer.
TxQueueAssumes ==
    [][\A n \in Nodes \ raced' :
          /\ node[n].timeout.due /\ ~node'[n].timeout.due /\ Line = 1
                => node[n].cursor <= 1
          /\ node'[n].queued < node[n].queued => node[n].pc # "start"]_vars

\* A queued frame is tried, and tried again after each collision: some edge,
\* timer or call of network_tx always starts the half-bit timer again.
Retried == \A n \in Nodes : (node[n].queued > 0) ~> (node[n].hb.run \/ n \in raced)

-----------------------------------------------------------------------------
(* What the repository says and the code does not do.                      *)

\* README.md: "will send a message on the bus once the line is detected to be
\* idle", so every queued message is at least tried.
EveryFrameTried == \A n \in Nodes : (node[n].queued > 0) ~> node[n].hb.run
=============================================================================
