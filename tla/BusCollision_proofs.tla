------------------------- MODULE BusCollision_proofs -------------------------
(***************************************************************************)
(* Proofs about the collisions of Bus, for any number of nodes and any     *)
(* frames: a sender that is alone on the line is never taken for one, and  *)
(* of two senders that collide one that has detected it stops.             *)
(*                                                                         *)
(* Both arguments are about one session, from the first fall of the line   *)
(* to the next.  While one node alone has pulled the line low, all nodes   *)
(* have heard the same edges in the same instants, so their timeouts count *)
(* together: inside the frame they count what the sender's half-bit timer  *)
(* does, which is less than the timeout; after it they expire together, on *)
(* a line that is high; and the sender starts its next frame only when they*)
(* have, so that its first fall finds no timeout running.                  *)
(*                                                                         *)
(* With two senders a timeout expires on a low line.  The clock of a low   *)
(* phase began with a half-bit of one of them, so when it expires that one *)
(* is in the middle of another.  The node whose timeout it is sends, and   *)
(* either it is that one, or the other is; either way its own half-bit     *)
(* timer comes before the other sender can let the line fall again.        *)
(***************************************************************************)
EXTENDS Bus_proofs

-----------------------------------------------------------------------------
(* One sender: the invariant.                                              *)

\* Node m has an edge to serve and has not begun.
Waits(m) == node[m].edge /\ node[m].isHigh = None

\* No node hears anything, or will; or only the end of what it has heard.
Still == \A m \in Nodes : ~node[m].edge /\ ~node[m].timeout.run

Calm == \A m \in Nodes : ~node[m].edge /\ (node[m].timeout.run => node[m].timeout.due)

\* The half-bit that node s drives is the same as the one before.
Same(s) == Frame[s][node[s].cursor - 1] = Frame[s][node[s].cursor]

\* How long a lone sender's line has been at its level.
Phase(s) == (IF Same(s) THEN HalfBit ELSE 0)
            + (IF node[s].hb.due THEN HalfBit ELSE node[s].hb.count)

\* Inside the frame of a lone sender every timeout that has been rewound by the
\* last edge has counted since that edge.
PhaseInv(s) == Inside(s) => \A m \in Nodes :
     /\ ~node[m].timeout.due
     /\ node[m].edge => Phase(s) = 0
     /\ ~Waits(m) => node[m].timeout.run /\ node[m].timeout.count = Phase(s)

\* All the timeouts that run have counted from the same edge.
SyncInv == \A m, k \in Nodes :
     /\ ~Waits(m) /\ ~Waits(k) /\ node[m].timeout.run /\ node[k].timeout.run
           => node[m].timeout.count = node[k].timeout.count
     /\ node[k].edge => Waits(m) \/ (node[m].timeout.run /\ node[m].timeout.count = 0)

\* So they expire together.
DueInv == (\E k \in Nodes : node[k].timeout.due) => Calm

\* The sender begins its next frame when they have.
SenderInv(s) ==
   /\ node[s].state = "IDLE" => Calm \/ (node[s].out = 0 /\ node[s].edge /\ node[s].isHigh # 1)
   /\ node[s].pc \in {"backoff", "start"} => Calm \/ (node[s].hb.run /\ ~node[s].hb.due)
   /\ node[s].hb.run /\ node[s].cursor <= 1 => Calm
   /\ node[s].cursor <= 1 /\ (node[s].hb.due \/ node[s].cursor = 1) => Still

NoCollision == \A m \in Nodes : node[m].state # "COLLISION"

Alone(s) == NoCollision /\ PhaseInv(s) /\ SyncInv /\ DueInv /\ SenderInv(s)

\* The history of the talkers is right.
SpokenInv == \A m \in Nodes : Inside(m) => m \in talkers

\* A collision is remembered while something is heard.
KeptInv == \A m \in Nodes : node[m].state = "COLLISION" =>
               node[m].timeout.run \/ node[m].edge \/ Line = 0

\* A timer that stands still has nothing to serve, and nothing has been received.
RestInv == \A m \in Nodes :
     /\ node[m].timeout.due => node[m].timeout.run
     /\ node[m].sample => node[m].timeout.run /\ ~node[m].timeout.due
     /\ ~node[m].timeout.run => node[m].rx = <<1>>

LoneInv == /\ SpokenInv /\ KeptInv /\ RestInv
           /\ talkers = {} => Still
           /\ \A s \in Nodes : talkers = {s} => Alone(s)

-----------------------------------------------------------------------------
(* The steps, as changes of one node.                                      *)

\* The effect of the receive queue's push on its bits.
Pushed(r, b) == IF Len(r) > MaxBytes * ByteBits THEN r ELSE Append(r, b)

\* What no step but TIM4's handler changes: the output, the place in the frame
\* and a half-bit timer that runs.
Kept(x, y) == /\ y \in NodeType
              /\ y.out = x.out /\ y.cursor = x.cursor
              /\ y.hb.due = x.hb.due /\ (x.hb.run => y.hb = x.hb)
              /\ Begun(x.hb, y.hb)

\* A step that touches neither edges nor the timeout.
Silent(x, y) == /\ Kept(x, y) /\ y.state = x.state
                /\ y.edge = x.edge /\ y.isHigh = x.isHigh /\ y.timeout = x.timeout

SameRx(x, y) == y.rx = x.rx /\ y.sample = x.sample /\ y.got = x.got

MainEffect(x, y) ==
    /\ Silent(x, y) /\ SameRx(x, y)
    /\ y.pc \in {"backoff", "start"} => x.state = "IDLE" \/ x.pc \in {"backoff", "start"}
    /\ y.hb.run => x.hb.run \/ x.pc = "start"

ReadEffect(x, y) ==
    /\ Kept(x, y) /\ SameRx(x, y) /\ x.edge /\ x.isHigh = None
    /\ y.state = x.state /\ y.edge /\ y.isHigh = Line /\ y.pc = x.pc /\ y.hb = x.hb
    /\ y.timeout.run /\ y.timeout.count = 0 /\ y.timeout.due = x.timeout.due

UseEffect(x, y) ==
    /\ Kept(x, y) /\ x.edge /\ x.isHigh \in {0, 1}
    /\ x.timeout.run /\ x.timeout.count = 0
    /\ y.state = (IF x.isHigh = 0 THEN "BUSY" ELSE x.state)
    /\ ~y.edge /\ y.isHigh = None /\ y.pc = x.pc /\ y.hb = x.hb /\ y.timeout = x.timeout
    /\ y.rx = Pushed(x.rx, x.isHigh) /\ y.sample = x.sample /\ y.got = x.got

TimeoutEffect(x, y) ==
    /\ Kept(x, y) /\ x.timeout.due /\ x.isHigh = None
    /\ y.state = (IF Line = 1 THEN "IDLE" ELSE "COLLISION")
    /\ y.edge = x.edge /\ y.isHigh = None /\ y.pc = x.pc
    /\ ~y.timeout.run /\ ~y.timeout.due /\ y.timeout.count = x.timeout.count
    /\ y.rx = <<1>> /\ y.sample = x.sample
    /\ Line = 0 => y.hb = x.hb
    /\ Line = 1 /\ Bytes(x.rx) >= MinBytes =>
           y.got = SubSeq(x.rx, 1, ByteBits * Bytes(x.rx))

SampleEffect(x, y) ==
    /\ Silent(x, y) /\ y.pc = x.pc /\ y.hb = x.hb
    /\ x.sample /\ x.isHigh = None /\ ~x.timeout.due
    /\ y.rx = Pushed(x.rx, x.rx[Len(x.rx)]) /\ ~y.sample /\ y.got = x.got

BackoffEffect(x, y) ==
    /\ Silent(x, y) /\ SameRx(x, y) /\ y.pc = x.pc
    /\ y.hb.run => x.hb.run \/ x.state = "IDLE"

\* TIM4's handler, which in a node without a collision goes on to the next half-bit
\* until the frame ends.
HalfBitEffect(x, y, f) ==
    /\ HalfBitFrame(x, y, f) /\ SameRx(x, y)
    /\ x.hb.due /\ x.isHigh = None
    /\ x.state # "COLLISION" => (y.cursor = 0 <=> x.cursor = Len(f))
    /\ x.state = "COLLISION" => y.cursor = 0
    /\ ~y.hb.raw

\* Of the nodes, a step changes n only, and the line and the history not at all.
Local(n) == /\ node'[n] \in NodeType /\ \A m \in Nodes \ {n} : node'[m] = node[m]
            /\ Line' = Line /\ level' = level /\ talkers' = talkers /\ aired' = aired

\* TIM4's handler of n changes the pending bit of every node if the line changes.
Driven(n, y) ==
    /\ \A m \in Nodes :
          /\ node'[m].edge <=> (Line' # Line \/ node[m].edge)
          /\ node'[m].state = node[m].state /\ node'[m].isHigh = node[m].isHigh
          /\ node'[m].timeout = node[m].timeout /\ node'[m].pc = node[m].pc
          /\ SameRx(node[m], node'[m])
    /\ \A m \in Nodes \ {n} : /\ node'[m].out = node[m].out /\ node'[m].hb = node[m].hb
                              /\ node'[m].cursor = node[m].cursor
    /\ node'[n].out = y.out /\ node'[n].hb = y.hb /\ node'[n].cursor = y.cursor
    /\ level' = level /\ Recorded(n, y)
    /\ HalfBitEffect(node[n], y, Frame[n])

-----------------------------------------------------------------------------
(* What the steps do to a node.                                            *)

\* A step of node n that leaves its output alone is one of n only.
LEMMA LocalStep ==
    ASSUME node \in [Nodes -> NodeType], NEW n \in Nodes, NEW y \in NodeType, Step(n, y),
           y.out = node[n].out
    PROVE  /\ node'[n] = y /\ Line' = Line
           /\ \A m \in Nodes \ {n} : node'[m] = node[m]
  <1> DEFINE ns == [node EXCEPT ![n] = y]
  <1>1. \A m \in Nodes : ns[m].out = node[m].out
      OBVIOUS
  <1>2. ns[n] = y /\ \A m \in Nodes \ {n} : ns[m] = node[m]
      OBVIOUS
  <1>3. node' = (IF Level(ns) = Line THEN ns ELSE [m \in Nodes |-> [ns[m] EXCEPT !.edge = TRUE]])
      BY DEF Step
  <1> HIDE DEF ns
  <1>4. Level(ns) = Line
    <2>1. (\A m \in Nodes : ns[m].out = 1) <=> \A m \in Nodes : node[m].out = 1
        BY <1>1
    <2> QED BY <2>1, Zenon DEF Level, Line
  <1>5. node' = ns
      BY <1>3, <1>4
  <1>6. Line' = Line
      BY <1>4, <1>5 DEF Line
  <1> QED BY <1>2, <1>5, <1>6

\* The push of a bit.
LEMMA PushEffect ==
    ASSUME NEW x \in NodeType, NEW b \in {0, 1}, RxInv(x)
    PROVE  /\ RxPushBit(x, b) = [x EXCEPT !.rx = Pushed(x.rx, b)]
           /\ Pushed(x.rx, b) \in Seq({0, 1})
  <1>1. x.rx \in Seq({0, 1}) /\ Append(x.rx, b) \in Seq({0, 1})
      BY DEF NodeType
  <1>2. x = [x EXCEPT !.rx = x.rx]
      BY DEF NodeType
  <1> QED BY <1>1, <1>2 DEF RxPushBit, Pushed

\* The steps of main.
LEMMA MainSteps ==
    ASSUME IInv, NEW n \in Nodes, NetworkTx(n) \/ NetworkTxNothing(n) \/ Main(n)
    PROVE  Local(n) /\ MainEffect(node[n], node'[n])
  <1> DEFINE x == node[n]
  <1>1. node \in [Nodes -> NodeType] /\ x \in NodeType /\ NodeInv(x, Frame[n])
      BY NodeFacts DEF IInv, TypeInv
  <1>2. ASSUME NEW here \in PCs, NEW there \in PCs, NEW z, At(n, here, there, z),
               z \in NodeType, Silent(x, z), SameRx(x, z), z.pc = x.pc,
               there \in {"backoff", "start"} => x.state = "IDLE" \/ x.pc \in {"backoff", "start"},
               z.hb.run => x.hb.run \/ x.pc = "start"
        PROVE  Local(n) /\ MainEffect(x, node'[n])
    <2> DEFINE y == [z EXCEPT !.pc = there]
    <2>1. /\ y \in NodeType /\ y.pc = there /\ y.state = z.state /\ y.out = z.out
          /\ y.cursor = z.cursor /\ y.hb = z.hb /\ y.edge = z.edge /\ y.isHigh = z.isHigh
          /\ y.timeout = z.timeout /\ y.rx = z.rx /\ y.sample = z.sample /\ y.got = z.got
        BY <1>2 DEF NodeType
    <2>2. Step(n, y) /\ level' = level /\ talkers' = talkers /\ aired' = aired
        BY <1>2 DEF At, traffic
    <2> HIDE DEF y
    <2>3. node'[n] = y /\ Line' = Line /\ \A m \in Nodes \ {n} : node'[m] = node[m]
        BY <1>1, <1>2, <2>1, <2>2, LocalStep DEF Silent, Kept
    <2>4. MainEffect(x, y)
        BY <1>2, <2>1 DEF MainEffect, Silent, Kept, SameRx
    <2> QED BY <2>1, <2>2, <2>3, <2>4 DEF Local
  <1>3. Silent(x, x) /\ SameRx(x, x)
      BY <1>1 DEF Silent, Kept, SameRx, Begun
  <1>4. {"idle", "queue", "state", "backoff", "start"} \subseteq PCs
      BY DEF PCs
  <1>5. CASE NetworkTx(n)
    <2> DEFINE q == x.queued + 1
               z == [x EXCEPT !.queued = q]
    <2>0. q \in Nat
        BY <1>1 DEF NodeType
    <2> HIDE DEF q
    <2>1. /\ z \in NodeType /\ z.pc = x.pc /\ z.state = x.state /\ z.out = x.out
          /\ z.cursor = x.cursor /\ z.hb = x.hb /\ z.edge = x.edge /\ z.isHigh = x.isHigh
          /\ z.timeout = x.timeout /\ z.rx = x.rx /\ z.sample = x.sample /\ z.got = x.got
        BY <1>1, <2>0 DEF NodeType
    <2>2. At(n, "idle", "queue", z)
        BY <1>5 DEF NetworkTx, q
    <2> HIDE DEF z
    <2> QED BY <1>2, <1>4, <2>1, <2>2 DEF Silent, Kept, SameRx, Begun
  <1>6. CASE NetworkTxNothing(n)
      BY <1>1, <1>2, <1>3, <1>4, <1>6 DEF NetworkTxNothing
  <1>7. CASE TestQueue(n)
      BY <1>1, <1>2, <1>3, <1>4, <1>7 DEF TestQueue, Test
  <1>8. CASE TestState(n)
      BY <1>1, <1>2, <1>3, <1>4, <1>8 DEF TestState, Test, ChannelIdle
  <1>9. CASE TestBackoff(n)
      BY <1>1, <1>2, <1>3, <1>4, <1>9 DEF TestBackoff, Test, At
  <1>10. CASE Start(n)
    <2> DEFINE z == Launched(x)
    <2>1. /\ z \in NodeType /\ z = [x EXCEPT !.hb = z.hb] /\ (x.hb.run => z = x)
          /\ z.hb.due = x.hb.due /\ Begun(x.hb, z.hb)
        BY <1>1, LaunchedOK
    <2>2. At(n, "start", "idle", z) /\ x.pc = "start"
        BY <1>10 DEF Start, At
    <2> HIDE DEF z
    <2>3. /\ z.pc = x.pc /\ z.state = x.state /\ z.out = x.out
          /\ z.cursor = x.cursor /\ z.edge = x.edge /\ z.isHigh = x.isHigh
          /\ z.timeout = x.timeout /\ z.rx = x.rx /\ z.sample = x.sample /\ z.got = x.got
        BY <1>1, <2>1 DEF NodeType
    <2> QED BY <1>2, <1>4, <2>1, <2>2, <2>3 DEF Silent, Kept, SameRx
  <1> QED BY <1>5, <1>6, <1>7, <1>8, <1>9, <1>10 DEF Main

\* The first half of the edge handler.
LEMMA ReadSteps ==
    ASSUME IInv, NEW n \in Nodes, ReadEdge(n)
    PROVE  Local(n) /\ ReadEffect(node[n], node'[n])
  <1> DEFINE x == node[n]
             t == Started(Rewound(x.timeout))
             y == EdgeRead(x, Line)
  <1>1. /\ node \in [Nodes -> NodeType] /\ x \in NodeType /\ NodeInv(x, Frame[n])
        /\ Line \in {0, 1} /\ x.edge /\ x.isHigh = None /\ Step(n, y)
        /\ level' = level /\ talkers' = talkers /\ aired' = aired
      BY NodeFacts, LineValue DEF IInv, TypeInv, ReadEdge, Free, traffic
  <1>2. t \in TimerType /\ t.run /\ t.count = 0 /\ t.due = x.timeout.due
    <2>1. x.timeout \in TimerType
        BY <1>1 DEF NodeType
    <2> QED BY <2>1 DEF TimerType, Started, Rewound
  <1>3. y = [x EXCEPT !.isHigh = Line, !.timeout = t]
      BY DEF EdgeRead
  <1> HIDE DEF t, y
  <1>4. /\ y \in NodeType /\ y.isHigh = Line /\ y.timeout = t
        /\ y.state = x.state /\ y.out = x.out /\ y.edge = x.edge /\ y.hb = x.hb
        /\ y.cursor = x.cursor /\ y.pc = x.pc /\ SameRx(x, y)
      BY <1>1, <1>2, <1>3 DEF NodeType, SameRx
  <1>5. node'[n] = y /\ Line' = Line /\ \A m \in Nodes \ {n} : node'[m] = node[m]
      BY <1>1, <1>4, LocalStep
  <1> QED BY <1>1, <1>2, <1>4, <1>5 DEF Local, ReadEffect, Kept, Begun

\* The second half.
LEMMA UseSteps ==
    ASSUME IInv, NEW n \in Nodes, UseEdge(n)
    PROVE  Local(n) /\ UseEffect(node[n], node'[n])
  <1> DEFINE x == node[n]
             b == x.isHigh
             u == [x EXCEPT !.edge = FALSE, !.isHigh = None]
             v == EdgeState(u, b)
             y == RxPushBit(v, b)
  <1>1. /\ node \in [Nodes -> NodeType] /\ x \in NodeType /\ NodeInv(x, Frame[n])
        /\ b \in {0, 1} /\ Step(n, y)
        /\ level' = level /\ talkers' = talkers /\ aired' = aired
      BY NodeFacts DEF IInv, TypeInv, UseEdge, Free, NodeType, traffic, EdgeUsed
  <1>2. x.edge /\ x.timeout.run /\ x.timeout.count = 0
      BY <1>1 DEF NodeInv, HandlerInv, None
  <1>3. /\ u \in NodeType /\ u.state = x.state /\ u.out = x.out /\ ~u.edge /\ u.isHigh = None
        /\ u.hb = x.hb /\ u.timeout = x.timeout /\ u.cursor = x.cursor
        /\ u.pc = x.pc /\ u.rx = x.rx /\ u.sample = x.sample /\ u.got = x.got
      BY <1>1 DEF NodeType, None
  <1> HIDE DEF u
  <1>4. v = IF b = 0 THEN [u EXCEPT !.state = "BUSY"] ELSE u
      BY DEF EdgeState, SetState
  <1> HIDE DEF v
  <1>5. /\ v \in NodeType /\ v.out = x.out /\ ~v.edge /\ v.isHigh = None
        /\ v.hb = x.hb /\ v.timeout = x.timeout /\ v.cursor = x.cursor
        /\ v.pc = x.pc /\ v.rx = x.rx /\ v.sample = x.sample /\ v.got = x.got
        /\ v.state = (IF b = 0 THEN "BUSY" ELSE x.state)
    <2>1. CASE b = 0
        BY <1>3, <1>4, <2>1 DEF NodeType, States
    <2>2. CASE b # 0
        BY <1>3, <1>4, <2>2
    <2> QED BY <2>1, <2>2
  <1>6. RxInv(v)
      BY <1>1, <1>5 DEF NodeInv, RxInv
  <1>7. y = [v EXCEPT !.rx = Pushed(v.rx, b)] /\ Pushed(v.rx, b) \in Seq({0, 1})
      BY <1>1, <1>5, <1>6, PushEffect
  <1> HIDE DEF y
  <1>8. /\ y \in NodeType /\ y.out = x.out /\ ~y.edge /\ y.isHigh = None
        /\ y.hb = x.hb /\ y.timeout = x.timeout /\ y.cursor = x.cursor
        /\ y.pc = x.pc /\ y.rx = Pushed(x.rx, b) /\ y.sample = x.sample /\ y.got = x.got
        /\ y.state = (IF b = 0 THEN "BUSY" ELSE x.state)
      BY <1>5, <1>7 DEF NodeType
  <1>9. node'[n] = y /\ Line' = Line /\ \A m \in Nodes \ {n} : node'[m] = node[m]
      BY <1>1, <1>8, LocalStep
  <1> QED BY <1>1, <1>2, <1>8, <1>9 DEF Local, UseEffect, Kept, Begun

\* The timeout handler.
LEMMA TimeoutSteps ==
    ASSUME IInv, NEW n \in Nodes, ServeTimeout(n)
    PROVE  Local(n) /\ TimeoutEffect(node[n], node'[n])
  <1> DEFINE x == node[n]
             t == Halted(Served(x.timeout))
             u == [x EXCEPT !.timeout = t]
             s == IF Line = 1 THEN "IDLE" ELSE "COLLISION"
             z == [u EXCEPT !.state = s]
             v == SetState(u, s)
             y == TimeoutHandler(x, Line)
  <1>1. /\ node \in [Nodes -> NodeType] /\ x \in NodeType /\ NodeInv(x, Frame[n])
        /\ Line \in {0, 1} /\ x.timeout.due /\ x.isHigh = None /\ Step(n, y)
        /\ level' = level /\ talkers' = talkers /\ aired' = aired
      BY NodeFacts, LineValue DEF IInv, TypeInv, ServeTimeout, Free
  <1>2. t \in TimerType /\ TimerOK(t) /\ t.period = x.timeout.period /\ ~t.raw = ~x.timeout.raw
        /\ ~t.run /\ ~t.due /\ t.count = x.timeout.count
    <2>1. x.timeout \in TimerType /\ TimerOK(x.timeout)
        BY <1>1 DEF NodeType, NodeInv, TimersInv
    <2> QED BY <2>1 DEF TimerType, TimerOK, Halted, Served
  <1> HIDE DEF t
  <1>3. /\ u \in NodeType
        /\ u.state = x.state /\ u.out = x.out /\ u.edge = x.edge /\ u.isHigh = x.isHigh
        /\ u.hb = x.hb /\ u.timeout = t /\ u.cursor = x.cursor /\ u.backoff = x.backoff
        /\ u.pc = x.pc /\ u.rx = x.rx /\ u.sample = x.sample /\ u.got = x.got
      BY <1>1, <1>2 DEF NodeType
  <1>4. NodeInv(u, Frame[n])
      BY <1>1, <1>2, <1>3 DEF NodeInv, TimersInv, CursorInv, RxInv, HandlerInv
  <1>5. s \in States
      BY DEF States
  <1>6. y = (IF Line = 1 THEN RxPush(v) ELSE RxReset(v))
      BY DEF TimeoutHandler, t
  <1> HIDE DEF u, s, y
  <1>7. NodeInv(v, Frame[n]) /\ StateFrame(u, v, s) /\ v \in NodeType /\ RxInv(v)
      BY <1>3, <1>4, <1>5, SetStateOK DEF StateFrame, NodeInv
  <1>8. v.rx = x.rx /\ v.sample = x.sample
    <2>1. z \in NodeType /\ z.rx = x.rx /\ z.sample = x.sample
        BY <1>3, <1>5 DEF NodeType
    <2>2. v = z \/ v = [z EXCEPT !.hb = Started(Rewound(@))]
        BY DEF SetState, StartTx, Launched
    <2> HIDE DEF z, v
    <2> QED BY <2>1, <2>2 DEF NodeType
  <1>14. Line = 0 => v.hb = x.hb
    <2>1. Line = 0 => v = z
        BY DEF SetState, s
    <2>2. z.hb = x.hb
        BY <1>3, <1>5 DEF NodeType
    <2> QED BY <2>1, <2>2
  <1> HIDE DEF v
  <1>9. y \in NodeType /\ RxSame(v, y)
      BY <1>6, <1>7, RxOps
  <1>10. /\ y.state = s /\ y.out = x.out /\ y.edge = x.edge
         /\ y.isHigh = None /\ y.timeout = t /\ y.cursor = x.cursor
         /\ y.pc = x.pc /\ y.hb.due = x.hb.due /\ (x.hb.run => y.hb = x.hb)
         /\ Begun(x.hb, y.hb) /\ y.hb = v.hb
    <2>1. PICK r, g : y = [v EXCEPT !.rx = r, !.got = g]
        BY <1>9 DEF RxSame
    <2>2. /\ y.state = v.state /\ y.out = v.out /\ y.edge = v.edge /\ y.isHigh = v.isHigh
          /\ y.hb = v.hb /\ y.timeout = v.timeout /\ y.cursor = v.cursor /\ y.pc = v.pc
        BY <1>7, <2>1 DEF NodeType
    <2> QED BY <1>1, <1>3, <1>7, <2>2 DEF StateFrame
  <1>11. y.rx = <<1>> /\ y.sample = x.sample
      BY <1>6, <1>7, <1>8 DEF RxPush, RxReset, NodeType
  <1>12. ASSUME Line = 1, Bytes(x.rx) >= MinBytes
         PROVE  y.got = SubSeq(x.rx, 1, ByteBits * Bytes(x.rx))
    <2>1. Bytes(x.rx) \in Int /\ MinBytes \in Int
      <3>1. Len(x.rx) \in Nat /\ ByteBits \in Nat /\ ByteBits > 0 /\ MinBytes \in Int
          BY <1>1, BufferAssumption DEF NodeType
      <3> QED BY <3>1 DEF Bytes
    <2>2. ~(Bytes(v.rx) < MinBytes)
        BY <1>8, <1>12, <2>1
    <2>3. y = RxReset([v EXCEPT !.got = SubSeq(v.rx, 1, ByteBits * Bytes(v.rx))])
        BY <1>6, <1>12, <2>2 DEF RxPush
    <2>4. y.got = SubSeq(v.rx, 1, ByteBits * Bytes(v.rx))
        BY <1>7, <2>3 DEF RxReset, NodeType
    <2> QED BY <1>8, <2>4
  <1>13. node'[n] = y /\ Line' = Line /\ \A m \in Nodes \ {n} : node'[m] = node[m]
      BY <1>1, <1>9, <1>10, LocalStep
  <1> QED BY <1>1, <1>2, <1>9, <1>10, <1>11, <1>12, <1>13, <1>14
         DEF Local, TimeoutEffect, Kept, s

\* The compare interrupt.
LEMMA SampleSteps ==
    ASSUME IInv, NEW n \in Nodes, ServeSample(n)
    PROVE  Local(n) /\ SampleEffect(node[n], node'[n])
  <1> DEFINE x == node[n]
             u == [x EXCEPT !.sample = FALSE]
             b == x.rx[Len(x.rx)]
             y == RxPushBit(u, b)
  <1>1. /\ node \in [Nodes -> NodeType] /\ x \in NodeType /\ NodeInv(x, Frame[n])
        /\ x.isHigh = None /\ x.sample /\ ~x.timeout.due /\ Step(n, y)
        /\ level' = level /\ talkers' = talkers /\ aired' = aired
      BY NodeFacts DEF IInv, TypeInv, ServeSample, Free, traffic, SampleHandler
  <1>2. b \in {0, 1}
      BY <1>1, RxOps DEF NodeInv
  <1> HIDE DEF b
  <1>3. /\ u \in NodeType
        /\ u.state = x.state /\ u.out = x.out /\ u.edge = x.edge /\ u.isHigh = x.isHigh
        /\ u.hb = x.hb /\ u.timeout = x.timeout /\ u.cursor = x.cursor
        /\ u.pc = x.pc /\ u.rx = x.rx /\ ~u.sample /\ u.got = x.got
      BY <1>1 DEF NodeType
  <1> HIDE DEF u
  <1>4. RxInv(u)
      BY <1>1, <1>3 DEF NodeInv, RxInv
  <1>5. y = [u EXCEPT !.rx = Pushed(u.rx, b)] /\ Pushed(u.rx, b) \in Seq({0, 1})
      BY <1>2, <1>3, <1>4, PushEffect
  <1> HIDE DEF y
  <1>6. /\ y \in NodeType
        /\ y.state = x.state /\ y.out = x.out /\ y.edge = x.edge /\ y.isHigh = x.isHigh
        /\ y.hb = x.hb /\ y.timeout = x.timeout /\ y.cursor = x.cursor
        /\ y.pc = x.pc /\ y.rx = Pushed(x.rx, b) /\ ~y.sample /\ y.got = x.got
      BY <1>3, <1>5 DEF NodeType
  <1>7. node'[n] = y /\ Line' = Line /\ \A m \in Nodes \ {n} : node'[m] = node[m]
      BY <1>1, <1>6, LocalStep
  <1> QED BY <1>1, <1>6, <1>7 DEF Local, SampleEffect, Silent, Kept, Begun, b

\* The end of a backoff.
LEMMA BackoffSteps ==
    ASSUME IInv, NEW n \in Nodes, ServeBackoff(n)
    PROVE  Local(n) /\ BackoffEffect(node[n], node'[n])
  <1> DEFINE x == node[n]
             t == Halted(Served(x.backoff))
             u == [x EXCEPT !.backoff = t]
             y == StartTx(u)
  <1>1. /\ node \in [Nodes -> NodeType] /\ x \in NodeType /\ NodeInv(x, Frame[n])
        /\ Step(n, y) /\ level' = level /\ talkers' = talkers /\ aired' = aired
      BY NodeFacts DEF IInv, TypeInv, ServeBackoff, traffic, BackoffHandler
  <1>2. t \in TimerType /\ TimerOK(t)
    <2>1. x.backoff \in TimerType /\ TimerOK(x.backoff)
        BY <1>1 DEF NodeType, NodeInv, TimersInv
    <2> QED BY <2>1 DEF TimerType, TimerOK, Halted, Served
  <1> HIDE DEF t
  <1>3. /\ u \in NodeType
        /\ u.state = x.state /\ u.out = x.out /\ u.edge = x.edge /\ u.isHigh = x.isHigh
        /\ u.hb = x.hb /\ u.timeout = x.timeout /\ u.cursor = x.cursor /\ u.backoff = t
        /\ u.pc = x.pc /\ u.rx = x.rx /\ u.sample = x.sample /\ u.got = x.got
      BY <1>1, <1>2 DEF NodeType
  <1> HIDE DEF u
  <1>4. NodeInv(u, Frame[n])
      BY <1>1, <1>2, <1>3 DEF NodeInv, TimersInv, CursorInv, RxInv, HandlerInv
  <1>5. NodeInv(y, Frame[n]) /\ StartFrame(u, y)
      BY <1>3, <1>4, StartTxOK
  <1>6. SameRx(u, y) /\ (y.hb.run => u.hb.run \/ u.state = "IDLE")
    <2>1. y = u \/ (y = [u EXCEPT !.hb = Started(Rewound(@))] /\ u.state = "IDLE")
        BY DEF StartTx, Launched, ChannelIdle
    <2> QED BY <1>3, <2>1 DEF NodeType, SameRx
  <1> HIDE DEF y
  <1>7. Silent(x, y) /\ y.pc = x.pc
      BY <1>3, <1>5 DEF Silent, Kept, StartFrame
  <1>8. BackoffEffect(x, y)
      BY <1>3, <1>6, <1>7 DEF BackoffEffect, SameRx
  <1>9. node'[n] = y /\ Line' = Line /\ \A m \in Nodes \ {n} : node'[m] = node[m]
      BY <1>1, <1>7, LocalStep DEF Silent, Kept
  <1> QED BY <1>1, <1>7, <1>8, <1>9 DEF Local, Silent, Kept

\* TIM4's handler.
LEMMA HalfBitSteps ==
    ASSUME IInv, NEW n \in Nodes, ServeHalfBit(n)
    PROVE  \E y : Driven(n, y)
  <1> DEFINE x == node[n]
             f == Frame[n]
  <1>1. x \in NodeType /\ NodeInv(x, f) /\ x.hb.due /\ x.isHigh = None
      BY NodeFacts DEF ServeHalfBit, Free
  <1>2. PICK r \in Randoms : /\ Step(n, HalfBitHandler(x, f, r))
                             /\ Recorded(n, HalfBitHandler(x, f, r))
      BY DEF ServeHalfBit
  <1> DEFINE y == HalfBitHandler(x, f, r)
  <1>3. HalfBitFrame(x, y, f) /\ Step(n, y) /\ Recorded(n, y)
      BY <1>1, <1>2, HalfBitOK
  <1>4. /\ SameRx(x, y) /\ (x.state # "COLLISION" => (y.cursor = 0 <=> x.cursor = Len(f)))
        /\ (x.state = "COLLISION" => y.cursor = 0) /\ ~y.hb.raw
    <2> DEFINE u == [x EXCEPT !.hb = Served(@)]
    <2>1. /\ u.rx = x.rx /\ u.sample = x.sample /\ u.got = x.got /\ u.cursor = x.cursor
          /\ DOMAIN u = DOMAIN x
          /\ x.cursor \in Nat /\ ~u.hb.raw /\ {"run", "count", "raw"} \subseteq DOMAIN u.hb
        BY <1>1 DEF NodeType, NodeInv, TimersInv, TimerType, Served
    <2>2. y = IF x.state = "COLLISION" THEN Abort(u, r)
              ELSE IF x.cursor = Len(f) THEN FrameDone(u) ELSE NextHalfBit(u, f)
        BY DEF HalfBitHandler
    <2>3. {"rx", "sample", "got", "cursor", "hb", "out", "queued", "backoff"} \subseteq DOMAIN u
        BY <1>1, <2>1 DEF NodeType
    <2> HIDE DEF u, y, f
    <2>4. SameRx(u, Abort(u, r)) /\ Abort(u, r).cursor = 0 /\ ~Abort(u, r).hb.raw
        BY <2>1, <2>3 DEF SameRx, Abort, Halted
    <2>5. SameRx(u, FrameDone(u)) /\ FrameDone(u).cursor = 0 /\ ~FrameDone(u).hb.raw
        BY <2>1, <2>3 DEF SameRx, FrameDone, Halted, Rewound
    <2>6. /\ SameRx(u, NextHalfBit(u, f)) /\ NextHalfBit(u, f).cursor = u.cursor + 1
          /\ ~NextHalfBit(u, f).hb.raw
        BY <2>1, <2>3 DEF SameRx, NextHalfBit, Started, Rewound
    <2>7. u.cursor + 1 # 0
        BY <2>1
    <2> QED BY <2>1, <2>2, <2>4, <2>5, <2>6, <2>7 DEF SameRx
  <1> HIDE DEF y
  <1>5. HalfBitEffect(x, y, f)
      BY <1>1, <1>3, <1>4 DEF HalfBitEffect
  <1>6. node \in [Nodes -> NodeType] /\ y \in NodeType /\ level' = level
      BY <1>3 DEF HalfBitFrame, IInv, TypeInv, ServeHalfBit
  <1> DEFINE ns == [node EXCEPT ![n] = y]
  <1>7. /\ node' \in [Nodes -> NodeType]
        /\ Line' = Line => node' = ns
        /\ Line' # Line => node' = [m \in Nodes |-> [ns[m] EXCEPT !.edge = TRUE]]
      BY <1>3, <1>6, StepEffect
  <1>8. ns[n] = y /\ \A m \in Nodes \ {n} : ns[m] = node[m]
      BY <1>6
  <1>9. \A m \in Nodes : ns[m] \in NodeType
      BY <1>6
  <1> HIDE DEF ns
  <1>10. \A m \in Nodes : /\ ns[m].edge = node[m].edge /\ ns[m].state = node[m].state
                          /\ ns[m].isHigh = node[m].isHigh /\ ns[m].timeout = node[m].timeout
                          /\ ns[m].pc = node[m].pc /\ SameRx(node[m], ns[m])
      BY <1>3, <1>4, <1>8 DEF HalfBitFrame, SameRx
  <1>11. ASSUME NEW m \in Nodes
         PROVE  /\ node'[m].edge <=> (Line' # Line \/ ns[m].edge)
                /\ node'[m].state = ns[m].state /\ node'[m].isHigh = ns[m].isHigh
                /\ node'[m].timeout = ns[m].timeout /\ node'[m].pc = ns[m].pc
                /\ node'[m].out = ns[m].out /\ node'[m].hb = ns[m].hb
                /\ node'[m].cursor = ns[m].cursor
                /\ SameRx(ns[m], node'[m])
    <2>1. CASE Line' = Line
        BY <1>7, <2>1 DEF SameRx
    <2>2. CASE Line' # Line
      <3>1. node'[m] = [ns[m] EXCEPT !.edge = TRUE]
          BY <1>7, <2>2
      <3> QED BY <1>9, <2>2, <3>1 DEF NodeType, SameRx
    <2> QED BY <2>1, <2>2
  <1>12. \A m \in Nodes :
            /\ node'[m].edge <=> (Line' # Line \/ node[m].edge)
            /\ node'[m].state = node[m].state /\ node'[m].isHigh = node[m].isHigh
            /\ node'[m].timeout = node[m].timeout /\ node'[m].pc = node[m].pc
            /\ SameRx(node[m], node'[m])
      BY <1>10, <1>11 DEF SameRx
  <1>13. Driven(n, y)
      BY <1>3, <1>5, <1>6, <1>8, <1>11, <1>12 DEF Driven
  <1> QED BY <1>13

-----------------------------------------------------------------------------
(* Facts about a lone sender.                                              *)

\* A node that pulls the line low is inside its frame, and its half-bit timer runs.
LEMMA LowIsInside ==
    ASSUME IInv, NEW m \in Nodes
    PROVE  /\ node[m].out = 0 => Inside(m)
           /\ Inside(m) => node[m].hb.run
           /\ Inside(m) => node[m].cursor \in 2 .. Len(Frame[m])
           /\ Inside(m) => node[m].out = Frame[m][node[m].cursor]
           /\ node[m].cursor \in Nat /\ (~Inside(m) => node[m].cursor <= 1 /\ node[m].out = 1)
           /\ node[m].out \in {0, 1}
           /\ node[m].hb.due => node[m].hb.run
  <1>1. node[m] \in NodeType /\ NodeInv(node[m], Frame[m])
      BY NodeFacts
  <1>2. Frame[m][1] = 1 /\ Len(Frame[m]) \in Nat
      BY FrameFacts
  <1>3. node[m].cursor \in Nat /\ node[m].out \in {0, 1} /\ node[m].cursor <= Len(Frame[m])
      BY <1>1 DEF NodeType, NodeInv, CursorInv
  <1>4. ~Inside(m) => node[m].out = 1 /\ node[m].cursor <= 1
    <2> SUFFICES ASSUME ~Inside(m) PROVE node[m].out = 1 /\ node[m].cursor <= 1
        OBVIOUS
    <2>1. node[m].cursor = 0 \/ node[m].cursor = 1
        BY <1>3 DEF Inside
    <2> QED BY <1>1, <1>2, <2>1 DEF NodeInv, CursorInv
  <1>5. node[m].hb.due => node[m].hb.run
      BY <1>1 DEF NodeInv, TimersInv
  <1>6. Inside(m) => node[m].cursor > 0 /\ node[m].cursor \in 2 .. Len(Frame[m])
      BY <1>2, <1>3 DEF Inside
  <1> QED BY <1>1, <1>3, <1>4, <1>5, <1>6 DEF NodeInv, CursorInv

\* A sender whose line has just changed is not due.
LEMMA PhaseZero ==
    ASSUME IInv, NEW s \in Nodes, Phase(s) = 0
    PROVE  ~node[s].hb.due /\ ~Same(s) /\ node[s].hb.count = 0
  <1>1. node[s].hb.count \in Nat /\ HalfBit \in Nat /\ HalfBit > 0
      BY NodeFacts, TimingAssumption DEF NodeType, TimerType
  <1> QED BY <1>1 DEF Phase

\* A lone sender in the state IDLE that is due finds the line calm.
LEMMA IdleCalm ==
    ASSUME IInv, NEW s \in Nodes, PhaseInv(s), SenderInv(s), node[s].state = "IDLE"
    PROVE  Calm \/ (Inside(s) /\ node[s].hb.run /\ ~node[s].hb.due)
  <1>1. CASE node[s].out = 0 /\ node[s].edge
    <2>1. Inside(s) /\ node[s].hb.run
        BY <1>1, LowIsInside
    <2>2. Phase(s) = 0
        BY <1>1, <2>1 DEF PhaseInv
    <2> QED BY <2>1, <2>2, PhaseZero
  <1> QED BY <1>1 DEF SenderInv

\* What a local step leaves as it is.
LEMMA LocalFacts ==
    ASSUME IInv, NEW n \in Nodes, Local(n), Kept(node[n], node'[n])
    PROVE  \A m \in Nodes : /\ Inside(m)' <=> Inside(m)
                            /\ node'[m].out = node[m].out
                            /\ node'[m].cursor = node[m].cursor
                            /\ node'[m].hb.due = node[m].hb.due
                            /\ node[m].hb.run => node'[m].hb.run
                            /\ Inside(m) => Phase(m)' = Phase(m) /\ (Same(m)' <=> Same(m))
  <1> SUFFICES ASSUME NEW m \in Nodes
               PROVE  /\ Inside(m)' <=> Inside(m)
                      /\ node'[m].out = node[m].out
                      /\ node'[m].cursor = node[m].cursor
                      /\ node'[m].hb.due = node[m].hb.due
                      /\ node[m].hb.run => node'[m].hb.run
                      /\ Inside(m) => Phase(m)' = Phase(m) /\ (Same(m)' <=> Same(m))
      OBVIOUS
  <1>1. /\ node'[m].out = node[m].out /\ node'[m].cursor = node[m].cursor
        /\ node'[m].hb.due = node[m].hb.due
        /\ node[m].hb.run => node'[m].hb = node[m].hb
      BY DEF Local, Kept
  <1>2. Inside(m) => node[m].hb.run
      BY LowIsInside
  <1> QED BY <1>1, <1>2 DEF Inside, Phase, Same

-----------------------------------------------------------------------------
(* The steps that neither drive the line nor touch edges and timeouts.     *)

\* A lone sender stays alone when main goes on, a bit is sampled or a backoff ends.
LEMMA SilentKeeps ==
    ASSUME IInv, NEW s \in Nodes, Alone(s), NEW n \in Nodes, Local(n),
           Silent(node[n], node'[n]),
           node'[n].pc \in {"backoff", "start"} =>
               node[n].state = "IDLE" \/ node[n].pc \in {"backoff", "start"},
           node'[n].hb.run => node[n].hb.run \/ node[n].state = "IDLE" \/ node[n].pc = "start"
    PROVE  Alone(s)'
  <1>1. \A m \in Nodes : /\ node'[m].state = node[m].state /\ node'[m].edge = node[m].edge
                         /\ node'[m].isHigh = node[m].isHigh
                         /\ node'[m].timeout = node[m].timeout
      BY DEF Local, Silent
  <1>2. \A m \in Nodes : /\ Inside(m)' <=> Inside(m)
                         /\ node'[m].out = node[m].out
                         /\ node'[m].cursor = node[m].cursor
                         /\ node'[m].hb.due = node[m].hb.due
                         /\ node[m].hb.run => node'[m].hb.run
                         /\ Inside(m) => Phase(m)' = Phase(m)
      BY LocalFacts DEF Silent
  <1>3. (Calm' <=> Calm) /\ (Still' <=> Still) /\ \A m \in Nodes : Waits(m)' <=> Waits(m)
      BY <1>1 DEF Calm, Still, Waits
  <1>4. NoCollision' /\ PhaseInv(s)'
      BY <1>1, <1>2, <1>3 DEF Alone, NoCollision, PhaseInv
  <1>5. SyncInv' /\ DueInv'
      BY <1>1, <1>3 DEF Alone, SyncInv, DueInv
  <1>6. SenderInv(s)'
    <2>1. CASE n # s
      <3>1. node'[s] = node[s]
          BY <2>1 DEF Local
      <3> QED BY <1>3, <3>1 DEF Alone, SenderInv
    <2>2. CASE n = s
      <3>1. node[s].state = "IDLE" => Calm \/ (Inside(s) /\ node[s].hb.run /\ ~node[s].hb.due)
          BY IdleCalm DEF Alone
      <3>2. Inside(s) => node[s].cursor >= 2 /\ node[s].cursor \in Nat
          BY LowIsInside DEF Inside
      <3>3. node'[s].state = "IDLE" => \/ Calm
                                       \/ (node'[s].out = 0 /\ node'[s].edge /\ node'[s].isHigh # 1)
          BY <1>1, <1>2 DEF Alone, SenderInv
      <3>4. node'[s].pc \in {"backoff", "start"} => Calm \/ (node'[s].hb.run /\ ~node'[s].hb.due)
          BY <1>2, <2>2, <3>1 DEF Alone, SenderInv
      <3>5. node'[s].hb.run /\ node'[s].cursor <= 1 => Calm
          BY <1>2, <2>2, <3>1, <3>2 DEF Alone, SenderInv
      <3>6. node'[s].cursor <= 1 /\ (node'[s].hb.due \/ node'[s].cursor = 1) => Still
          BY <1>2 DEF Alone, SenderInv
      <3> QED BY <1>3, <3>3, <3>4, <3>5, <3>6 DEF SenderInv
    <2> QED BY <2>1, <2>2
  <1> QED BY <1>4, <1>5, <1>6 DEF Alone

-----------------------------------------------------------------------------
(* The edge handler.                                                       *)

\* Its first half rewinds the timeout in the instant of the edge.
LEMMA ReadAlone ==
    ASSUME IInv, NEW s \in Nodes, Alone(s), NEW n \in Nodes, Local(n),
           ReadEffect(node[n], node'[n]), \A m \in Nodes \ {s} : ~Inside(m)
    PROVE  Alone(s)'
  <1>1. \A m \in Nodes : /\ node'[m].state = node[m].state /\ (node'[m].edge <=> node[m].edge)
                         /\ node'[m].pc = node[m].pc /\ node'[m].hb = node[m].hb
                         /\ node'[m].timeout.due = node[m].timeout.due
      BY DEF Local, ReadEffect
  <1>2. \A m \in Nodes : /\ Inside(m)' <=> Inside(m)
                         /\ node'[m].out = node[m].out
                         /\ node'[m].cursor = node[m].cursor
                         /\ Inside(m) => Phase(m)' = Phase(m)
      BY LocalFacts DEF ReadEffect
  <1>3. /\ node[n].edge /\ Waits(n) /\ node'[n].timeout.run /\ node'[n].timeout.count = 0
        /\ node'[n].isHigh = Line /\ ~Waits(n)'
    <2>1. Line # None
        BY LineValue DEF IInv, TypeInv, None
    <2> QED BY <2>1 DEF ReadEffect, Waits
  <1>4. \A m \in Nodes \ {n} : node'[m] = node[m] /\ (Waits(m)' <=> Waits(m))
      BY DEF Local, Waits
  <1>5. ~Calm /\ ~Still
      BY <1>3 DEF Calm, Still
  <1>6. NoCollision'
      BY <1>1 DEF Alone, NoCollision
  <1>7. PhaseInv(s)'
    <2> SUFFICES ASSUME Inside(s), NEW m \in Nodes
                 PROVE  /\ ~node'[m].timeout.due
                        /\ node'[m].edge => Phase(s) = 0
                        /\ ~Waits(m)' => node'[m].timeout.run /\ node'[m].timeout.count = Phase(s)
        BY <1>2 DEF PhaseInv
    <2>1. Phase(s) = 0
        BY <1>3 DEF Alone, PhaseInv
    <2> QED BY <1>1, <1>3, <1>4, <2>1 DEF Alone, PhaseInv
  <1>8. SyncInv'
    <2>1. \A m \in Nodes : ~Waits(m)' => node'[m].timeout.run /\ node'[m].timeout.count = 0
        BY <1>3, <1>4 DEF Alone, SyncInv
    <2> QED BY <1>1, <2>1 DEF SyncInv
  <1>9. DueInv'
      BY <1>1, <1>5 DEF Alone, DueInv
  <1>10. SenderInv(s)'
    <2>1. node'[s].state = "IDLE" => node'[s].out = 0 /\ node'[s].edge /\ node'[s].isHigh # 1
      <3> SUFFICES ASSUME node'[s].state = "IDLE"
                   PROVE  node'[s].out = 0 /\ node'[s].edge /\ node'[s].isHigh # 1
          OBVIOUS
      <3>1. node[s].out = 0 /\ node[s].edge /\ node[s].isHigh # 1
          BY <1>1, <1>5 DEF Alone, SenderInv
      <3>2. Line # 1
          BY <3>1, LineValue DEF IInv, TypeInv
      <3> QED BY <1>1, <1>2, <1>3, <1>4, <3>1, <3>2
    <2> QED BY <1>1, <1>2, <1>5, <2>1 DEF Alone, SenderInv
  <1> QED BY <1>6, <1>7, <1>8, <1>9, <1>10 DEF Alone

\* Its second half ends the wait.
LEMMA UseAlone ==
    ASSUME IInv, NEW s \in Nodes, Alone(s), NEW n \in Nodes, Local(n),
           UseEffect(node[n], node'[n])
    PROVE  Alone(s)'
  <1>1. \A m \in Nodes : /\ node'[m].pc = node[m].pc /\ node'[m].hb = node[m].hb
                         /\ node'[m].timeout = node[m].timeout
                         /\ node'[m].edge => node[m].edge
      BY DEF Local, UseEffect
  <1>2. \A m \in Nodes : /\ Inside(m)' <=> Inside(m)
                         /\ node'[m].out = node[m].out
                         /\ node'[m].cursor = node[m].cursor
                         /\ Inside(m) => Phase(m)' = Phase(m)
      BY LocalFacts DEF UseEffect
  <1>3. /\ node[n].edge /\ ~node'[n].edge /\ node[n].timeout.run /\ node[n].timeout.count = 0
        /\ ~Waits(n) /\ ~Waits(n)'
      BY DEF UseEffect, Waits, None
  <1>4. \A m \in Nodes \ {n} : node'[m] = node[m] /\ (Waits(m)' <=> Waits(m))
      BY DEF Local, Waits
  <1>5. ~Calm /\ ~Still
      BY <1>3 DEF Calm, Still
  <1>6. NoCollision'
    <2>1. node'[n].state # "COLLISION"
        BY DEF UseEffect, Alone, NoCollision
    <2> QED BY <1>4, <2>1 DEF Alone, NoCollision
  <1>7. PhaseInv(s)'
      BY <1>1, <1>2, <1>3, <1>4 DEF Alone, PhaseInv
  <1>8. SyncInv'
      BY <1>1, <1>3, <1>4 DEF Alone, SyncInv
  <1>9. DueInv'
      BY <1>1, <1>5 DEF Alone, DueInv
  <1>10. SenderInv(s)'
    <2>1. node'[s].state = "IDLE" => node'[s].out = 0 /\ node'[s].edge /\ node'[s].isHigh # 1
      <3>1. CASE n # s
          BY <1>4, <1>5, <3>1 DEF Alone, SenderInv
      <3>2. CASE n = s
        <4>1. node[s].isHigh = 0 => node'[s].state = "BUSY"
            BY <3>2 DEF UseEffect
        <4>2. node[s].isHigh = 1 => node'[s].state = node[s].state /\ node[s].state # "IDLE"
            BY <1>5, <3>2 DEF UseEffect, Alone, SenderInv
        <4> QED BY <3>2, <4>1, <4>2 DEF UseEffect
      <3> QED BY <3>1, <3>2
    <2> QED BY <1>1, <1>2, <1>5, <2>1 DEF Alone, SenderInv
  <1> QED BY <1>6, <1>7, <1>8, <1>9, <1>10 DEF Alone

-----------------------------------------------------------------------------
(* The timeout handler.                                                    *)

\* It serves one of the timeouts that have expired together, on a line that is high.
LEMMA TimeoutAlone ==
    ASSUME IInv, NEW s \in Nodes, Alone(s), NEW n \in Nodes, Local(n),
           TimeoutEffect(node[n], node'[n]), \A m \in Nodes \ {s} : ~Inside(m)
    PROVE  Alone(s)' /\ Line = 1
  <1>1. \A m \in Nodes : /\ node'[m].pc = node[m].pc /\ node'[m].edge = node[m].edge
                         /\ node'[m].isHigh = node[m].isHigh
                         /\ node'[m].timeout.run => node[m].timeout.run
                         /\ node'[m].timeout.due => node[m].timeout.due
                         /\ node'[m].timeout.run => node'[m] = node[m]
      BY DEF Local, TimeoutEffect
  <1>2. \A m \in Nodes : /\ Inside(m)' <=> Inside(m)
                         /\ node'[m].out = node[m].out
                         /\ node'[m].cursor = node[m].cursor
                         /\ node'[m].hb.due = node[m].hb.due
                         /\ node[m].hb.run => node'[m].hb.run
                         /\ Inside(m) => Phase(m)' = Phase(m)
      BY LocalFacts DEF TimeoutEffect
  <1>3. node[n].timeout.due /\ Calm
      BY DEF TimeoutEffect, Alone, DueInv
  <1>4. \A m \in Nodes : ~Inside(m)
      BY <1>3 DEF Alone, PhaseInv
  <1>5. Line = 1
    <2>1. \A m \in Nodes : node[m].out = 1
        BY <1>4, LowIsInside
    <2> QED BY <2>1, LineValue DEF IInv, TypeInv
  <1>6. Calm'
      BY <1>1, <1>3 DEF Calm
  <1>7. Still => Still'
      BY <1>1 DEF Still
  <1>8. NoCollision'
    <2>1. node'[n].state = "IDLE"
        BY <1>5 DEF TimeoutEffect
    <2> QED BY <2>1 DEF Alone, NoCollision, Local
  <1>9. PhaseInv(s)'
      BY <1>2, <1>4 DEF PhaseInv
  <1>10. SyncInv'
      BY <1>1, <1>3, <1>6 DEF Alone, SyncInv, Calm, Waits
  <1>11. DueInv'
      BY <1>6 DEF DueInv
  <1>12. SenderInv(s)'
      BY <1>2, <1>6, <1>7 DEF Alone, SenderInv
  <1> QED BY <1>5, <1>8, <1>9, <1>10, <1>11, <1>12 DEF Alone

-----------------------------------------------------------------------------
(* TIM4's handler.                                                         *)

\* It drives the line as far as the other nodes let it.
LEMMA DrivenLine ==
    ASSUME IInv, NEW n \in Nodes, NEW y, Driven(n, y)
    PROVE  /\ Line \in {0, 1} /\ Line' \in {0, 1} /\ y.out \in {0, 1}
           /\ y.out = node[n].out => Line' = Line
           /\ (\A m \in Nodes \ {n} : ~Inside(m)) => Line = node[n].out /\ Line' = y.out
           /\ y.cursor \in Nat /\ node[n].cursor \in Nat
           /\ y.cursor = 0 \/ y.cursor = node[n].cursor + 1
  <1>1. node \in [Nodes -> NodeType] /\ Line \in {0, 1}
        /\ (Line = 1 <=> \A m \in Nodes : node[m].out = 1)
      BY LineValue DEF IInv, TypeInv
  <1>2. y \in NodeType /\ HalfBitFrame(node[n], y, Frame[n])
      BY DEF Driven, HalfBitEffect, HalfBitFrame
  <1>3. node'[n].out = y.out /\ \A m \in Nodes \ {n} : node'[m].out = node[m].out
      BY DEF Driven
  <1>4. y.out \in {0, 1} /\ node[n].out \in {0, 1} /\ \A m \in Nodes : node[m].out \in {0, 1}
      BY <1>1, <1>2 DEF NodeType
  <1>5. Line' = IF \A m \in Nodes : node'[m].out = 1 THEN 1 ELSE 0
      BY DEF Line, Level
  <1>6. y.out = node[n].out => Line' = Line
    <2> SUFFICES ASSUME y.out = node[n].out PROVE Line' = Line
        OBVIOUS
    <2>1. (\A m \in Nodes : node'[m].out = 1) <=> \A m \in Nodes : node[m].out = 1
        BY <1>3
    <2> QED BY <1>1, <1>5, <2>1
  <1>7. ASSUME \A m \in Nodes \ {n} : ~Inside(m)
        PROVE  Line = node[n].out /\ Line' = y.out
    <2>1. \A m \in Nodes \ {n} : node[m].out = 1
        BY <1>7, LowIsInside
    <2>2. (\A m \in Nodes : node'[m].out = 1) <=> y.out = 1
        BY <1>3, <2>1
    <2>3. (\A m \in Nodes : node[m].out = 1) <=> node[n].out = 1
        BY <2>1
    <2> QED BY <1>1, <1>4, <1>5, <2>2, <2>3
  <1>8. y.cursor \in Nat /\ node[n].cursor \in Nat
      BY <1>1, <1>2 DEF NodeType
  <1>9. y.cursor = 0 \/ y.cursor = node[n].cursor + 1
      BY <1>2 DEF HalfBitFrame
  <1> QED BY <1>1, <1>4, <1>5, <1>6, <1>7, <1>8, <1>9

\* The first fall of a frame on a still line makes its sender the only one.
LEMMA FirstFall ==
    ASSUME IInv, NEW s \in Nodes, NEW y, Driven(s, y), y.out = 0,
           RestInv, Still, NoCollision, \A m \in Nodes : ~Inside(m)
    PROVE  Alone(s)'
  <1>1. \A m \in Nodes : /\ node'[m].edge
                         /\ node'[m].isHigh = None /\ ~node'[m].timeout.run
                         /\ node'[m].state = node[m].state /\ node'[m].pc = node[m].pc
                         /\ Waits(m)'
    <2> SUFFICES ASSUME NEW m \in Nodes
                 PROVE  /\ node'[m].edge
                        /\ node'[m].isHigh = None /\ ~node'[m].timeout.run
                        /\ node'[m].state = node[m].state /\ node'[m].pc = node[m].pc
                        /\ Waits(m)'
        OBVIOUS
    <2>1. node[s].out = 1 /\ Line = 1 /\ Line' = 0
        BY LowIsInside, DrivenLine
    <2>2. node[m].isHigh = None
        BY NodeFacts DEF NodeInv, HandlerInv, Still
    <2> QED BY <2>1, <2>2 DEF Driven, Still, Waits
  <1>2. y.cursor = 2 /\ y.hb.run /\ ~y.hb.due /\ y.hb.count = 0
    <2>1. node[s].cursor <= 1 /\ node[s].cursor \in Nat
        BY LowIsInside
    <2>2. /\ y.cursor = node[s].cursor + 1 /\ y.out = Frame[s][y.cursor]
          /\ y.hb.run /\ ~y.hb.due /\ y.hb.count = 0
        BY DEF Driven, HalfBitEffect, HalfBitFrame
    <2>3. Frame[s][1] = 1
        BY FrameFacts
    <2> QED BY <2>1, <2>2, <2>3
  <1>3. node'[s].cursor = 2 /\ node'[s].hb = y.hb /\ node'[s].out = 0
      BY <1>2 DEF Driven
  <1>4. Phase(s)' = 0
    <2>1. Frame[s][1] = 1 /\ Frame[s][2] = 0
        BY FrameFacts
    <2> QED BY <1>2, <1>3, <2>1 DEF Phase, Same
  <1>5. \A m \in Nodes : ~node'[m].timeout.due
    <2> SUFFICES ASSUME NEW m \in Nodes PROVE ~node'[m].timeout.due
        OBVIOUS
    <2>1. node'[m].timeout = node[m].timeout
        BY DEF Driven
    <2> QED BY <2>1 DEF Still, RestInv
  <1>6. NoCollision' /\ PhaseInv(s)' /\ SyncInv' /\ DueInv'
      BY <1>1, <1>4, <1>5 DEF NoCollision, PhaseInv, SyncInv, DueInv
  <1>7. SenderInv(s)'
      BY <1>1, <1>2, <1>3 DEF SenderInv, None
  <1> QED BY <1>6, <1>7 DEF Alone

\* A lone sender inside its frame that is due has been heard by every node: all
\* timeouts have counted since the last edge.
LEMMA DueInside ==
    ASSUME IInv, NEW s \in Nodes, Alone(s), Inside(s), node[s].hb.due
    PROVE  /\ \A m \in Nodes : /\ ~node[m].edge /\ node[m].isHigh = None
                               /\ node[m].timeout.run /\ ~node[m].timeout.due
                               /\ node[m].timeout.count = Phase(s)
           /\ node[s].state # "IDLE" /\ node[s].pc \notin {"backoff", "start"}
           /\ Phase(s) = (IF Same(s) THEN 2 * HalfBit ELSE HalfBit)
  <1>1. ASSUME NEW m \in Nodes
        PROVE  ~node[m].edge /\ node[m].isHigh = None
      BY PhaseZero, NodeFacts DEF Alone, PhaseInv, NodeInv, HandlerInv
  <1>2. \A m \in Nodes : /\ ~Waits(m) /\ node[m].timeout.run /\ ~node[m].timeout.due
                         /\ node[m].timeout.count = Phase(s)
      BY <1>1 DEF Waits, Alone, PhaseInv
  <1>3. ~Calm
      BY <1>2 DEF Calm
  <1>4. node[s].state # "IDLE" /\ node[s].pc \notin {"backoff", "start"}
      BY <1>1, <1>3 DEF Alone, SenderInv
  <1>5. Phase(s) = (IF Same(s) THEN 2 * HalfBit ELSE HalfBit)
      BY TimingAssumption DEF Phase
  <1> QED BY <1>1, <1>2, <1>4, <1>5

\* Inside its frame a lone sender stays alone, whether the handler goes on or ends
\* the frame.
LEMMA InsideDriven ==
    ASSUME IInv, NEW s \in Nodes, NEW y, Driven(s, y), Alone(s), Inside(s),
           \A m \in Nodes \ {s} : ~Inside(m)
    PROVE  Alone(s)'
  <1> DEFINE x == node[s]
             f == Frame[s]
             c == x.cursor
  <1>1. x.hb.due /\ HalfBitFrame(x, y, f) /\ (y.cursor = 0 <=> c = Len(f))
      BY DEF Driven, HalfBitEffect, Alone, NoCollision
  <1>2. /\ \A m \in Nodes : /\ ~node[m].edge /\ node[m].isHigh = None
                            /\ node[m].timeout.run /\ ~node[m].timeout.due
                            /\ node[m].timeout.count = Phase(s)
        /\ x.state # "IDLE" /\ x.pc \notin {"backoff", "start"}
        /\ Phase(s) = (IF Same(s) THEN 2 * HalfBit ELSE HalfBit)
      BY <1>1, DueInside
  <1>3. \A m \in Nodes : /\ node'[m].edge <=> Line' # Line
                         /\ node'[m].isHigh = None /\ node'[m].timeout = node[m].timeout
                         /\ node'[m].state = node[m].state /\ node'[m].pc = node[m].pc
                         /\ Waits(m)' <=> Line' # Line
      BY <1>2 DEF Driven, Waits
  <1>4. Line = x.out /\ Line' = y.out
      BY DrivenLine
  <1>5. c \in 2 .. Len(f) /\ x.out = f[c] /\ Len(f) \in Nat
      BY LowIsInside, FrameFacts
  <1>6. NoCollision'
      BY <1>3 DEF Alone, NoCollision
  <1>7. SyncInv'
      BY <1>2, <1>3 DEF SyncInv
  <1>8. DueInv'
      BY <1>2, <1>3 DEF DueInv
  <1>9. PhaseInv(s)' /\ SenderInv(s)'
    <2>1. CASE y.cursor = 0
      <3>1. node'[s].cursor = 0 /\ ~node'[s].hb.run /\ ~node'[s].hb.due
          BY <1>1, <1>5, <2>1 DEF HalfBitFrame, Driven
      <3> QED BY <1>2, <1>3, <3>1 DEF PhaseInv, SenderInv, Inside
    <2>2. CASE y.cursor # 0
      <3>1. /\ y.cursor = c + 1 /\ y.cursor <= Len(f) /\ y.out = f[c + 1]
            /\ ~y.hb.due /\ y.hb.count = 0
          BY <1>1, <1>5, <2>2 DEF HalfBitFrame
      <3>2. node'[s].cursor = c + 1 /\ node'[s].hb = y.hb
          BY <3>1 DEF Driven
      <3>3. Phase(s)' = (IF f[c] = f[c + 1] THEN HalfBit ELSE 0)
        <4>1. (c + 1) - 1 = c
            BY <1>5
        <4> QED BY <3>1, <3>2, <4>1, TimingAssumption DEF Phase, Same
      <3>4. PhaseInv(s)'
        <4>1. CASE f[c] # f[c + 1]
            BY <1>2, <1>3, <1>4, <1>5, <3>1, <3>3, <4>1 DEF PhaseInv
        <4>2. CASE f[c] = f[c + 1]
          <5>1. ~Same(s)
            <6>1. c - 1 \in 1 .. Len(f) - 2 /\ (c - 1) + 1 = c /\ (c - 1) + 2 = c + 1
                BY <1>5, <3>1
            <6>2. f[c - 1] # f[c] \/ f[c] # f[c + 1]
                BY <6>1, FrameFacts
            <6> QED BY <4>2, <6>2 DEF Same
          <5>2. Phase(s) = HalfBit /\ Phase(s)' = HalfBit
              BY <1>2, <3>3, <4>2, <5>1
          <5>3. Line' = Line
              BY <1>4, <1>5, <3>1, <4>2
          <5> QED BY <1>2, <1>3, <5>2, <5>3 DEF PhaseInv
        <4> QED BY <4>1, <4>2
      <3>5. SenderInv(s)'
        <4>1. ~(node'[s].cursor <= 1)
            BY <1>5, <3>2
        <4> QED BY <1>2, <1>3, <4>1 DEF SenderInv
      <3> QED BY <3>4, <3>5
    <2> QED BY <2>1, <2>2
  <1> QED BY <1>6, <1>7, <1>8, <1>9 DEF Alone

\* Before the first fall of its frame a node drives nothing, whoever it is.
LEMMA BeforeFall ==
    ASSUME IInv, NEW s \in Nodes, NEW n \in Nodes, NEW y, Driven(n, y), Alone(s),
           ~Inside(n), y.out = 1
    PROVE  Alone(s)'
  <1>1. Line' = Line
      BY LowIsInside, DrivenLine
  <1>2. \A m \in Nodes : /\ node'[m].edge <=> node[m].edge
                         /\ node'[m].isHigh = node[m].isHigh
                         /\ node'[m].timeout = node[m].timeout
                         /\ node'[m].state = node[m].state /\ node'[m].pc = node[m].pc
                         /\ Waits(m)' <=> Waits(m)
      BY <1>1 DEF Driven, Waits
  <1>3. (Calm' <=> Calm) /\ (Still' <=> Still)
      BY <1>2 DEF Calm, Still
  <1>4. node'[n].cursor = 1 /\ node[n].cursor <= 1
    <2>1. node[n].cursor <= 1 /\ node[n].cursor \in Nat /\ Len(Frame[n]) > 2
          /\ Frame[n][2] = 0 /\ Len(Frame[n]) \in Nat
        BY LowIsInside, FrameFacts
    <2>2. y.cursor = node[n].cursor + 1 /\ y.out = Frame[n][y.cursor]
        BY <2>1 DEF Driven, HalfBitEffect, HalfBitFrame, Alone, NoCollision
    <2>3. y.cursor # 2
        BY <2>1, <2>2
    <2> QED BY <2>1, <2>2, <2>3 DEF Driven
  <1>5. NoCollision' /\ SyncInv' /\ DueInv'
      BY <1>2, <1>3 DEF Alone, NoCollision, SyncInv, DueInv
  <1>6. CASE n = s
    <2>1. Still /\ Calm
      <3>1. Still
          BY <1>4, <1>6 DEF Alone, SenderInv, Driven, HalfBitEffect
      <3> QED BY <3>1 DEF Still, Calm
    <2>2. PhaseInv(s)' /\ SenderInv(s)'
        BY <1>3, <1>4, <1>6, <2>1 DEF PhaseInv, SenderInv, Inside
    <2> QED BY <1>5, <2>2 DEF Alone
  <1>7. CASE n # s
    <2>1. node'[s].out = node[s].out /\ node'[s].hb = node[s].hb
          /\ node'[s].cursor = node[s].cursor
        BY <1>7 DEF Driven
    <2>2. (Inside(s)' <=> Inside(s)) /\ Phase(s)' = Phase(s)
        BY <2>1 DEF Inside, Phase, Same
    <2>3. PhaseInv(s)'
        BY <1>2, <2>2 DEF Alone, PhaseInv
    <2>4. SenderInv(s)'
        BY <1>2, <1>3, <2>1 DEF Alone, SenderInv
    <2> QED BY <1>5, <2>3, <2>4 DEF Alone
  <1> QED BY <1>6, <1>7

\* The first fall of a frame that leaves its sender alone on the line is on a line
\* that was still.
LEMMA FallStill ==
    ASSUME IInv, LoneInv, NEW n \in Nodes, NEW y, Driven(n, y), y.out = 0, ~Inside(n),
           NEW s \in Nodes, talkers' = {s}
    PROVE  s = n /\ Still /\ NoCollision /\ \A m \in Nodes : ~Inside(m)
  <1>1. /\ Quiet => talkers' = {n}
        /\ ~Quiet => talkers' = talkers \cup {n}
      BY DEF Driven, Recorded
  <1>2. s = n
      BY <1>1
  <1>3. Still /\ Line = 1 => NoCollision
      BY DEF LoneInv, KeptInv, Still, NoCollision
  <1>4. CASE Quiet
      BY <1>2, <1>3, <1>4, LowIsInside DEF Quiet, Still, Inside
  <1>5. CASE talkers = {}
    <2>1. \A m \in Nodes : ~Inside(m)
        BY <1>5 DEF LoneInv, SpokenInv
    <2>2. \A m \in Nodes : node[m].out = 1
        BY <2>1, LowIsInside
    <2>3. Line = 1
        BY <2>2, LineValue DEF IInv, TypeInv
    <2> QED BY <1>2, <1>3, <1>5, <2>1, <2>3 DEF LoneInv
  <1>6. CASE ~Quiet /\ talkers # {}
    <2>1. talkers = {s}
        BY <1>1, <1>2, <1>6
    <2>2. Alone(s) /\ \A m \in Nodes : ~Inside(m)
        BY <1>2, <2>1 DEF LoneInv, SpokenInv
    <2>3. node[n].cursor <= 1 /\ node[n].hb.due
        BY LowIsInside DEF Driven, HalfBitEffect
    <2> QED BY <1>2, <2>2, <2>3 DEF Alone, SenderInv
  <1> QED BY <1>4, <1>5, <1>6

\* TIM4's handler keeps the invariant: a fall on a quiet line begins a session of
\* one, and a second node that falls ends it.
LEMMA HalfBitLone ==
    ASSUME IInv, LoneInv, NEW n \in Nodes, ServeHalfBit(n)
    PROVE  LoneInv'
  <1>1. PICK y : Driven(n, y)
      BY HalfBitSteps
  <1>2. /\ Line \in {0, 1} /\ Line' \in {0, 1} /\ y.out \in {0, 1}
        /\ y.out = node[n].out => Line' = Line
        /\ y.cursor \in Nat /\ node[n].cursor \in Nat
        /\ y.cursor = 0 \/ y.cursor = node[n].cursor + 1
      BY <1>1, DrivenLine
  <1>3. /\ y.out = 1 => talkers' = talkers
        /\ y.out = 0 /\ Quiet => talkers' = {n}
        /\ y.out = 0 /\ ~Quiet => talkers' = talkers \cup {n}
      BY <1>1 DEF Driven, Recorded
  <1>4. Quiet => /\ Still /\ Line = 1 /\ \A m \in Nodes : ~Inside(m)
      BY LowIsInside DEF Quiet, Still, Inside
  <1>5. ASSUME talkers = {}
        PROVE  Still /\ Line = 1 /\ \A m \in Nodes : ~Inside(m)
    <2>1. \A m \in Nodes : ~Inside(m)
        BY <1>5 DEF LoneInv, SpokenInv
    <2>2. \A m \in Nodes : node[m].out = 1
        BY <2>1, LowIsInside
    <2> QED BY <1>5, <2>1, <2>2, LineValue DEF LoneInv, IInv, TypeInv
  <1>6. SpokenInv'
    <2> SUFFICES ASSUME NEW m \in Nodes, Inside(m)' PROVE m \in talkers'
        BY DEF SpokenInv
    <2>1. CASE m # n
      <3>1. Inside(m)
          BY <1>1, <2>1 DEF Driven, Inside
      <3> QED BY <1>2, <1>3, <1>4, <3>1 DEF LoneInv, SpokenInv
    <2>2. CASE m = n
      <3>1. CASE Inside(n)
          BY <1>2, <1>3, <1>4, <2>2, <3>1 DEF LoneInv, SpokenInv
      <3>2. CASE ~Inside(n)
        <4>1. y.cursor >= 2 /\ node[n].cursor <= 1
            BY <1>1, <2>2, <3>2, LowIsInside DEF Driven, Inside
        <4>2. y.cursor = 2
            BY <1>2, <4>1
        <4>3. y.out = Frame[n][y.cursor]
            BY <1>1, <4>2 DEF Driven, HalfBitEffect, HalfBitFrame
        <4>4. y.out = 0
            BY <4>2, <4>3, FrameFacts
        <4> QED BY <1>3, <2>2, <4>4
      <3> QED BY <3>1, <3>2
    <2> QED BY <2>1, <2>2
  <1>7. KeptInv' /\ RestInv'
    <2>1. \A m \in Nodes : /\ node'[m].edge <=> (Line' # Line \/ node[m].edge)
                           /\ node'[m].state = node[m].state
                           /\ node'[m].timeout = node[m].timeout
                           /\ node'[m].rx = node[m].rx /\ node'[m].sample = node[m].sample
        BY <1>1 DEF Driven, SameRx
    <2>2. KeptInv'
        BY <2>1 DEF LoneInv, KeptInv
    <2>3. RestInv'
        BY <2>1 DEF LoneInv, RestInv
    <2> QED BY <2>2, <2>3
  <1>8. ASSUME talkers' = {} PROVE Still'
    <2>1. talkers = {} /\ y.out = 1
        BY <1>2, <1>3, <1>8
    <2>2. Line' = Line
        BY <1>2, <1>5, <2>1, LowIsInside
    <2> QED BY <1>1, <1>5, <2>1, <2>2 DEF Still, Driven
  <1>9. ASSUME NEW s \in Nodes, talkers' = {s} PROVE Alone(s)'
    <2>1. CASE y.out = 1 /\ ~Inside(n)
      <3>1. Alone(s)
          BY <1>3, <1>9, <2>1 DEF LoneInv
      <3> QED BY <1>1, <2>1, <3>1, BeforeFall
    <2>2. CASE Inside(n)
      <3>1. n \in talkers /\ ~Quiet
          BY <1>4, <2>2 DEF LoneInv, SpokenInv
      <3>2. s = n /\ talkers = {s}
          BY <1>2, <1>3, <1>9, <3>1
      <3>3. Alone(s) /\ \A m \in Nodes \ {s} : ~Inside(m)
          BY <3>2 DEF LoneInv, SpokenInv
      <3> QED BY <1>1, <2>2, <3>2, <3>3, InsideDriven
    <2>3. CASE y.out = 0 /\ ~Inside(n)
      <3>1. s = n /\ Still /\ NoCollision /\ \A m \in Nodes : ~Inside(m)
          BY <1>1, <1>9, <2>3, FallStill
      <3> QED BY <1>1, <2>3, <3>1, FirstFall DEF LoneInv
    <2> QED BY <1>2, <2>1, <2>2, <2>3
  <1> QED BY <1>6, <1>7, <1>8, <1>9 DEF LoneInv

-----------------------------------------------------------------------------
(* Time.                                                                   *)

\* What a tick does to a node.
LEMMA TickSteps ==
    ASSUME IInv, Tick
    PROVE  /\ Line' = Line /\ level' = Line /\ talkers' = talkers /\ aired' = aired
           /\ \A m \in Nodes :
                 /\ ~node[m].edge /\ node[m].isHigh = None /\ ~node[m].sample
                 /\ ~node[m].hb.due /\ ~node[m].timeout.due /\ node[m].pc = "idle"
                 /\ ~node'[m].edge /\ node'[m].isHigh = None
                 /\ node'[m].state = node[m].state /\ node'[m].out = node[m].out
                 /\ node'[m].cursor = node[m].cursor /\ node'[m].pc = "idle"
                 /\ node'[m].hb = Counted(node[m].hb) /\ node'[m].hb.run = node[m].hb.run
                 /\ node'[m].hb.due => node[m].hb.run
                 /\ node'[m].timeout = Counted(node[m].timeout)
                 /\ node'[m].rx = node[m].rx /\ node'[m].got = node[m].got
                 /\ node'[m].sample <=> (node[m].timeout.run /\ node[m].timeout.count + 1 = SampleAt)
                 /\ node[m].timeout.count \in Nat
                 /\ ~node[m].timeout.run => node'[m].timeout = node[m].timeout
                 /\ node[m].timeout.run /\ node[m].timeout.count + 1 # TimeoutAt =>
                        /\ node'[m].timeout.run /\ ~node'[m].timeout.due
                        /\ node'[m].timeout.count = node[m].timeout.count + 1
                 /\ node[m].timeout.run /\ node[m].timeout.count + 1 = TimeoutAt =>
                        /\ node'[m].timeout.run /\ node'[m].timeout.due
                        /\ node'[m].timeout.count = 0
  <1>1. level' = Line /\ talkers' = talkers /\ aired' = aired
      BY DEF Tick
  <1>2. ASSUME NEW m \in Nodes
        PROVE  /\ ~node[m].edge /\ node[m].isHigh = None /\ ~node[m].sample
               /\ ~node[m].hb.due /\ ~node[m].timeout.due /\ node[m].pc = "idle"
               /\ ~node'[m].edge /\ node'[m].isHigh = None
               /\ node'[m].state = node[m].state /\ node'[m].out = node[m].out
               /\ node'[m].cursor = node[m].cursor /\ node'[m].pc = "idle"
               /\ node'[m].hb = Counted(node[m].hb) /\ node'[m].hb.run = node[m].hb.run
               /\ node'[m].hb.due => node[m].hb.run
               /\ node'[m].timeout = Counted(node[m].timeout)
               /\ node'[m].rx = node[m].rx /\ node'[m].got = node[m].got
               /\ node'[m].sample <=> (node[m].timeout.run /\ node[m].timeout.count + 1 = SampleAt)
    <2>1. /\ node'[m] = Ticked(node[m]) /\ ~Pending(node[m]) /\ node[m].pc = "idle"
          /\ node[m] \in NodeType /\ NodeInv(node[m], Frame[m])
        BY NodeFacts DEF Tick
    <2>2. /\ ~node[m].edge /\ node[m].isHigh = None /\ ~node[m].sample
          /\ ~node[m].hb.due /\ ~node[m].timeout.due
        BY <2>1 DEF Pending, NodeInv, HandlerInv
    <2>3. /\ node'[m] \in NodeType /\ ~node'[m].edge /\ node'[m].isHigh = None
          /\ node'[m].state = node[m].state /\ node'[m].out = node[m].out
          /\ node'[m].cursor = node[m].cursor /\ node'[m].pc = node[m].pc
          /\ node'[m].hb.run = node[m].hb.run
          /\ node'[m].hb = Counted(node[m].hb) /\ node'[m].timeout = Counted(node[m].timeout)
          /\ NodeInv(node'[m], Frame[m])
        BY <2>1, TickedOK
    <2>4. node'[m].hb.due => node[m].hb.run
        BY <2>3 DEF NodeInv, TimersInv
    <2>5. node'[m].rx = node[m].rx /\ node'[m].got = node[m].got
        BY <2>1 DEF Ticked, NodeType
    <2>6. node'[m].sample <=> (node[m].timeout.run /\ node[m].timeout.count + 1 = SampleAt)
        BY <2>1, <2>2 DEF Ticked, NodeType
    <2> QED BY <2>1, <2>2, <2>3, <2>4, <2>5, <2>6
  <1>3. ASSUME NEW m \in Nodes
        PROVE  /\ node[m].timeout.count \in Nat
               /\ ~node[m].timeout.run => node'[m].timeout = node[m].timeout
               /\ node[m].timeout.run /\ node[m].timeout.count + 1 # TimeoutAt =>
                      /\ node'[m].timeout.run /\ ~node'[m].timeout.due
                      /\ node'[m].timeout.count = node[m].timeout.count + 1
               /\ node[m].timeout.run /\ node[m].timeout.count + 1 = TimeoutAt =>
                      /\ node'[m].timeout.run /\ node'[m].timeout.due
                      /\ node'[m].timeout.count = 0
    <2> DEFINE t == node[m].timeout
    <2>1. /\ t \in TimerType /\ TimerOK(t) /\ t.period = TimeoutAt /\ ~t.raw
          /\ ~t.due /\ node'[m].timeout = Counted(t)
        BY <1>2, NodeFacts DEF NodeType, NodeInv, TimersInv
    <2>2. TimeoutAt \in Nat /\ TimeoutAt > 0
        BY TimingAssumption
    <2>3. /\ ~t.run => Counted(t) = t
          /\ t.run /\ t.count + 1 # TimeoutAt =>
                 Counted(t).count = t.count + 1 /\ ~Counted(t).due
          /\ t.run /\ t.count + 1 = TimeoutAt => Counted(t).count = 0 /\ Counted(t).due
          /\ Counted(t).run = t.run
        BY <2>1, <2>2, TimerTick, TimerOps
    <2>4. t.count \in Nat
        BY <2>1 DEF TimerType
    <2> HIDE DEF t
    <2> QED BY <2>1, <2>3, <2>4 DEF t
  <1>4. Line' = Line
    <2>1. (\A m \in Nodes : node'[m].out = 1) <=> \A m \in Nodes : node[m].out = 1
        BY <1>2
    <2> QED BY <2>1, Zenon DEF Line, Level
  <1> QED BY <1>1, <1>2, <1>3, <1>4

\* The half-bit timer of a sender inside its frame counts on.
LEMMA PhaseTick ==
    ASSUME IInv, Tick, NEW s \in Nodes, Inside(s)
    PROVE  /\ Phase(s) \in Nat /\ Phase(s)' = Phase(s) + 1
           /\ Phase(s) + 1 <= (IF Same(s) THEN 2 * HalfBit ELSE HalfBit)
           /\ Inside(s)' /\ (Same(s)' <=> Same(s))
  <1> DEFINE h == node[s].hb
             before == IF Same(s) THEN HalfBit ELSE 0
  <1>1. /\ h \in TimerType /\ TimerOK(h) /\ h.period = HalfBit /\ ~h.due /\ h.run /\ ~h.raw
        /\ node'[s].hb = Counted(h) /\ node'[s].cursor = node[s].cursor
    <2>1. node[s] \in NodeType /\ NodeInv(node[s], Frame[s])
        BY NodeFacts
    <2>2. ~h.due /\ node'[s].hb = Counted(h) /\ node'[s].cursor = node[s].cursor
        BY TickSteps
    <2>3. node[s].cursor > 0
        BY <2>1 DEF Inside, NodeType
    <2> QED BY <2>1, <2>2, <2>3 DEF NodeType, NodeInv, TimersInv, CursorInv
  <1>2. HalfBit \in Nat /\ HalfBit > 0
      BY TimingAssumption
  <1>3. /\ h.count + 1 # HalfBit => Counted(h).count = h.count + 1 /\ ~Counted(h).due
        /\ h.count + 1 = HalfBit => Counted(h).count = 0 /\ Counted(h).due
      BY <1>1, <1>2, TimerTick
  <1>4. h.count \in Nat /\ h.count < HalfBit
      BY <1>1, <1>2 DEF TimerType, TimerOK
  <1>5. Inside(s)' /\ (Same(s)' <=> Same(s))
      BY <1>1 DEF Inside, Same
  <1>6. before \in Nat /\ before + HalfBit = (IF Same(s) THEN 2 * HalfBit ELSE HalfBit)
      BY <1>2
  <1>7. Phase(s) = before + h.count
      BY <1>1 DEF Phase
  <1>8. Phase(s)' = before + (IF Counted(h).due THEN HalfBit ELSE Counted(h).count)
      BY <1>1, <1>5 DEF Phase
  <1> HIDE DEF before, h
  <1> QED BY <1>2, <1>3, <1>4, <1>5, <1>6, <1>7, <1>8

\* A tick keeps a lone sender alone: the timeouts count together, and do not expire
\* inside the frame.
LEMMA TickAlone ==
    ASSUME IInv, Tick, RestInv, NEW s \in Nodes, Alone(s)
    PROVE  Alone(s)'
  <1>1. Calm => Still
      BY TickSteps DEF Calm, Still
  <1>2. Still => Still' /\ Calm'
      BY TickSteps DEF Calm, Still
  <1>3. NoCollision'
      BY TickSteps DEF Alone, NoCollision
  <1>4. \A m \in Nodes : ~Waits(m)
      BY TickSteps DEF Waits
  <1>5. PhaseInv(s)'
    <2> SUFFICES ASSUME Inside(s)', NEW m \in Nodes
                 PROVE  /\ ~node'[m].timeout.due /\ ~node'[m].edge
                        /\ node'[m].timeout.run /\ node'[m].timeout.count = Phase(s)'
        BY DEF PhaseInv
    <2>1. Inside(s)
        BY TickSteps DEF Inside
    <2>2. /\ Phase(s) \in Nat /\ Phase(s)' = Phase(s) + 1
          /\ Phase(s) + 1 <= (IF Same(s) THEN 2 * HalfBit ELSE HalfBit)
        BY <2>1, PhaseTick
    <2>3. node[m].timeout.run /\ node[m].timeout.count = Phase(s)
        BY <1>4, <2>1 DEF Alone, PhaseInv
    <2>4. Phase(s) + 1 # TimeoutAt
        BY <2>2, TimingAssumption
    <2> QED BY <2>2, <2>3, <2>4, TickSteps
  <1>6. SyncInv'
    <2> SUFFICES ASSUME NEW m \in Nodes, NEW k \in Nodes
                 PROVE  /\ ~node'[k].edge
                        /\ node'[m].timeout.run /\ node'[k].timeout.run
                              => node'[m].timeout.count = node'[k].timeout.count
        BY DEF SyncInv
    <2>1. node[m].timeout.run /\ node[k].timeout.run => node[m].timeout.count = node[k].timeout.count
        BY <1>4 DEF Alone, SyncInv
    <2>2. /\ node'[m].timeout.run => node[m].timeout.run
          /\ node'[k].timeout.run => node[k].timeout.run
        BY TickSteps
    <2> QED BY <2>1, <2>2, TickSteps
  <1>7. DueInv'
    <2> SUFFICES ASSUME NEW k \in Nodes, node'[k].timeout.due, NEW m \in Nodes
                 PROVE  ~node'[m].edge /\ (node'[m].timeout.run => node'[m].timeout.due)
        BY DEF DueInv, Calm
    <2>1. node[k].timeout.run /\ node[k].timeout.count + 1 = TimeoutAt
        BY TickSteps
    <2>2. node'[m].timeout.run => node[m].timeout.run
        BY TickSteps
    <2>3. node[m].timeout.run => node[m].timeout.count = node[k].timeout.count
        BY <1>4, <2>1 DEF Alone, SyncInv
    <2> QED BY <2>1, <2>2, <2>3, TickSteps
  <1>8. SenderInv(s)'
    <2>1. /\ ~node[s].edge /\ node'[s].state = node[s].state /\ node'[s].pc = "idle"
          /\ node'[s].hb.run = node[s].hb.run /\ (node'[s].hb.due => node[s].hb.run)
          /\ node'[s].cursor = node[s].cursor
        BY TickSteps
    <2> QED BY <1>1, <1>2, <2>1 DEF Alone, SenderInv
  <1> QED BY <1>3, <1>5, <1>6, <1>7, <1>8 DEF Alone

\* A tick keeps the invariant.
LEMMA TickLone ==
    ASSUME IInv, LoneInv, Tick
    PROVE  LoneInv'
  <1>1. SpokenInv'
      BY TickSteps DEF LoneInv, SpokenInv, Inside
  <1>2. KeptInv'
    <2> SUFFICES ASSUME NEW m \in Nodes, node'[m].state = "COLLISION"
                 PROVE  node'[m].timeout.run \/ Line' = 0
        BY DEF KeptInv
    <2>1. node[m].timeout.run \/ Line = 0
        BY TickSteps DEF LoneInv, KeptInv
    <2> QED BY <2>1, TickSteps
  <1>3. RestInv'
    <2> SUFFICES ASSUME NEW m \in Nodes
                 PROVE  /\ node'[m].timeout.due => node'[m].timeout.run
                        /\ node'[m].sample => node'[m].timeout.run /\ ~node'[m].timeout.due
                        /\ ~node'[m].timeout.run => node'[m].rx = <<1>>
        BY DEF RestInv
    <2>1. /\ node[m].timeout.due => node[m].timeout.run
          /\ ~node[m].timeout.run => node[m].rx = <<1>>
        BY DEF LoneInv, RestInv
    <2>2. SampleAt # TimeoutAt
        BY TimingAssumption
    <2> QED BY <2>1, <2>2, TickSteps
  <1>4. talkers' = {} => Still'
      BY TickSteps DEF LoneInv, Still
  <1>5. \A s \in Nodes : talkers' = {s} => Alone(s)'
      BY TickSteps, TickAlone DEF LoneInv
  <1> QED BY <1>1, <1>2, <1>3, <1>4, <1>5 DEF LoneInv

-----------------------------------------------------------------------------
(* The other steps, and the theorem.                                       *)

\* A local step keeps the history of the talkers right.
LEMMA LocalSpoken ==
    ASSUME IInv, LoneInv, NEW n \in Nodes, Local(n), Kept(node[n], node'[n])
    PROVE  /\ SpokenInv'
           /\ \A s \in Nodes : talkers' = {s} =>
                 Alone(s) /\ \A m \in Nodes \ {s} : ~Inside(m)
  <1>1. talkers' = talkers
      BY DEF Local
  <1> QED BY <1>1, LocalFacts DEF LoneInv, SpokenInv

\* The silent steps keep the invariant.
LEMMA SilentLone ==
    ASSUME IInv, LoneInv, NEW n \in Nodes, Local(n), Silent(node[n], node'[n]),
           node'[n].pc \in {"backoff", "start"} =>
               node[n].state = "IDLE" \/ node[n].pc \in {"backoff", "start"},
           node'[n].hb.run => node[n].hb.run \/ node[n].state = "IDLE" \/ node[n].pc = "start",
           \/ SameRx(node[n], node'[n])
           \/ node[n].sample /\ ~node'[n].sample
    PROVE  LoneInv'
  <1>1. /\ SpokenInv'
        /\ \A s \in Nodes : talkers' = {s} =>
              Alone(s) /\ \A m \in Nodes \ {s} : ~Inside(m)
      BY LocalSpoken DEF Silent
  <1>2. \A m \in Nodes : /\ node'[m].state = node[m].state /\ node'[m].edge = node[m].edge
                         /\ node'[m].timeout = node[m].timeout
      BY DEF Local, Silent
  <1>3. KeptInv'
      BY <1>2 DEF LoneInv, KeptInv, Local
  <1>4. RestInv'
      BY <1>2 DEF LoneInv, RestInv, Local, SameRx
  <1>5. talkers' = {} => Still'
      BY <1>2 DEF LoneInv, Still, Local
  <1>6. \A s \in Nodes : talkers' = {s} => Alone(s)'
      BY <1>1, SilentKeeps
  <1> QED BY <1>1, <1>3, <1>4, <1>5, <1>6 DEF LoneInv

\* So does the edge handler.
LEMMA EdgeLone ==
    ASSUME IInv, LoneInv, NEW n \in Nodes, Local(n),
           ReadEffect(node[n], node'[n]) \/ UseEffect(node[n], node'[n])
    PROVE  LoneInv'
  <1>1. /\ SpokenInv'
        /\ \A s \in Nodes : talkers' = {s} =>
              Alone(s) /\ \A m \in Nodes \ {s} : ~Inside(m)
      BY LocalSpoken DEF ReadEffect, UseEffect
  <1>2. node[n].edge /\ node'[n].timeout.run
      BY DEF ReadEffect, UseEffect
  <1>3. KeptInv'
      BY <1>2 DEF LoneInv, KeptInv, Local
  <1>4. RestInv'
    <2>1. /\ node'[n].timeout.due => node[n].timeout.due
          /\ node'[n].sample => node[n].sample
        BY DEF ReadEffect, UseEffect, SameRx
    <2> QED BY <1>2, <2>1 DEF LoneInv, RestInv, Local
  <1>5. talkers' = {} => Still'
      BY <1>2 DEF LoneInv, Still, Local
  <1>6. \A s \in Nodes : talkers' = {s} => Alone(s)'
      BY <1>1, ReadAlone, UseAlone
  <1> QED BY <1>1, <1>3, <1>4, <1>5, <1>6 DEF LoneInv

\* So does the timeout handler, which finds a collision only on a low line.
LEMMA TimeoutLone ==
    ASSUME IInv, LoneInv, NEW n \in Nodes, Local(n), TimeoutEffect(node[n], node'[n])
    PROVE  LoneInv'
  <1>1. /\ SpokenInv'
        /\ \A s \in Nodes : talkers' = {s} =>
              Alone(s) /\ \A m \in Nodes \ {s} : ~Inside(m)
      BY LocalSpoken DEF TimeoutEffect
  <1>2. Line \in {0, 1} /\ Line' = Line
      BY LineValue DEF Local, IInv, TypeInv
  <1>3. KeptInv'
    <2>1. node'[n].state = "COLLISION" => Line' = 0
        BY <1>2 DEF TimeoutEffect
    <2> QED BY <1>2, <2>1 DEF LoneInv, KeptInv, Local
  <1>4. RestInv'
    <2>1. ~node[n].sample
        BY DEF LoneInv, RestInv, TimeoutEffect
    <2> QED BY <2>1 DEF LoneInv, RestInv, Local, TimeoutEffect
  <1>5. talkers' = {} => Still'
      BY DEF LoneInv, Still, Local, TimeoutEffect
  <1>6. \A s \in Nodes : talkers' = {s} => Alone(s)'
      BY <1>1, TimeoutAlone
  <1> QED BY <1>1, <1>3, <1>4, <1>5, <1>6 DEF LoneInv

\* After reset nobody has talked and nothing is heard.
LEMMA InitLone == Init => LoneInv
  <1> SUFFICES ASSUME Init PROVE LoneInv
      OBVIOUS
  <1>1. /\ Fresh.state = "IDLE" /\ ~Fresh.edge /\ ~Fresh.sample /\ Fresh.rx = <<1>>
        /\ ~Fresh.timeout.run /\ ~Fresh.timeout.due /\ Fresh.cursor = 0
      BY DEF Fresh, Stopped
  <1>2. (\A n \in Nodes : node[n] = Fresh) /\ talkers = {}
      BY DEF Init
  <1>3. SpokenInv /\ KeptInv /\ RestInv /\ Still
      BY <1>1, <1>2 DEF SpokenInv, Inside, KeptInv, RestInv, Still
  <1> QED BY <1>2, <1>3 DEF LoneInv

\* Every step keeps the invariant.
LEMMA NextLone == IInv /\ LoneInv /\ [Next]_vars => LoneInv'
  <1> SUFFICES ASSUME IInv, LoneInv, [Next]_vars PROVE LoneInv'
      OBVIOUS
  <1>1. CASE Tick
      BY <1>1, TickLone
  <1>2. ASSUME NEW n \in Nodes, NetworkTx(n) \/ NetworkTxNothing(n) \/ Main(n)
        PROVE  LoneInv'
    <2>1. Local(n) /\ MainEffect(node[n], node'[n])
        BY <1>2, MainSteps
    <2> QED BY <2>1, SilentLone DEF MainEffect
  <1>3. ASSUME NEW n \in Nodes, Handler(n)
        PROVE  LoneInv'
    <2>1. CASE ReadEdge(n)
        BY <2>1, ReadSteps, EdgeLone
    <2>2. CASE UseEdge(n)
        BY <2>2, UseSteps, EdgeLone
    <2>3. CASE ServeTimeout(n)
        BY <2>3, TimeoutSteps, TimeoutLone
    <2>4. CASE ServeSample(n)
      <3>1. Local(n) /\ SampleEffect(node[n], node'[n])
          BY <2>4, SampleSteps
      <3> QED BY <3>1, SilentLone DEF SampleEffect
    <2>5. CASE ServeBackoff(n)
      <3>1. Local(n) /\ BackoffEffect(node[n], node'[n])
          BY <2>5, BackoffSteps
      <3> QED BY <3>1, SilentLone DEF BackoffEffect
    <2>6. CASE ServeHalfBit(n)
        BY <2>6, HalfBitLone
    <2> QED BY <1>3, <2>1, <2>2, <2>3, <2>4, <2>5, <2>6 DEF Handler
  <1>4. CASE UNCHANGED vars
    <2>1. node' = node /\ talkers' = talkers
        BY <1>4 DEF vars, traffic
    <2>2. Line' = Line
        BY <2>1 DEF Line, Level
    <2>3. \A s \in Nodes : /\ Inside(s)' <=> Inside(s)
                           /\ Waits(s)' <=> Waits(s)
                           /\ Phase(s)' = Phase(s)
        BY <2>1 DEF Inside, Waits, Phase, Same
    <2>4. (Calm' <=> Calm) /\ (Still' <=> Still)
        BY <2>1 DEF Calm, Still
    <2>5. \A s \in Nodes : Alone(s)' <=> Alone(s)
        BY <2>1, <2>3, <2>4 DEF Alone, NoCollision, PhaseInv, SyncInv, DueInv, SenderInv
    <2>6. SpokenInv' /\ KeptInv' /\ RestInv'
        BY <2>1, <2>2, <2>3 DEF LoneInv, SpokenInv, KeptInv, RestInv
    <2> QED BY <2>1, <2>4, <2>5, <2>6 DEF LoneInv
  <1> QED BY <1>1, <1>2, <1>3, <1>4 DEF Next

\* The invariant holds always.
LEMMA LoneInvariance == SafetySpec => [](IInv /\ LoneInv)
  <1>1. Init => IInv /\ LoneInv
      BY InitOK, InitLone
  <1>2. (IInv /\ LoneInv) /\ [Next]_vars => (IInv /\ LoneInv)'
      BY NextKeeps, NextLone
  <1> QED BY <1>1, <1>2, PTL DEF SafetySpec

\* A collision has two parties: a lone sender is never taken for one.
LEMMA LoneParties == IInv /\ LoneInv => CollisionHasTwoParties
  <1> SUFFICES ASSUME IInv, LoneInv, NEW n \in Nodes, node[n].state = "COLLISION",
                      ~ \E a, b \in talkers : a # b
               PROVE  FALSE
      BY DEF CollisionHasTwoParties
  <1>1. CASE talkers = {}
    <2>1. Still /\ \A m \in Nodes : ~Inside(m)
        BY <1>1 DEF LoneInv, SpokenInv
    <2>2. Line = 1
        BY <2>1, LowIsInside, LineValue DEF IInv, TypeInv
    <2> QED BY <2>1, <2>2 DEF LoneInv, KeptInv, Still
  <1>2. CASE talkers # {}
    <2>1. PICK s \in talkers : talkers = {s}
        BY <1>2
    <2>2. s \in Nodes
        BY DEF IInv, TypeInv
    <2> QED BY <2>1, <2>2 DEF LoneInv, Alone, NoCollision
  <1> QED BY <1>1, <1>2

\* A node reports a collision only when two nodes have pulled the line low since
\* it was idle, for any number of nodes and any frames: a lone sender is never
\* taken for one.
THEOREM CollisionsHaveTwoParties == SafetySpec => []CollisionHasTwoParties
  BY LoneParties, LoneInvariance, PTL

-----------------------------------------------------------------------------
(* Two senders: the invariant.                                             *)

Two == \E a, b \in Nodes : talkers \subseteq {a, b}

Hears(n) == node[n].edge \/ node[n].timeout.run

\* How long node m has been in the half-bit it is in, and, before the fall of
\* its frame, how long ago it was started.
Since(m) == IF node[m].hb.due THEN HalfBit ELSE node[m].hb.count

Sent(m) == (IF node[m].cursor = 0 THEN 0 ELSE HalfBit) + Since(m)

\* How long ago node n was interrupted by the line.
Low(n) == IF Waits(n) THEN 0
          ELSE IF node[n].timeout.due THEN TimeoutAt ELSE node[n].timeout.count

\* The line fell because node a did: that was the beginning of one of the last
\* three half-bits of a, or a has left its frame since and will not be back on
\* the line before the timeout of n.
Left(a, n) == /\ node[a].cursor < 2 /\ ~node[a].hb.raw /\ HalfBit <= Low(n)
              /\ node[a].hb.run => HalfBit + Sent(a) <= Low(n)

Began(a, n) == \/ Inside(a) /\ Low(n) - Since(a) \in {0, HalfBit, 2 * HalfBit}
               \/ Left(a, n)

\* In the instant of the fall.
FellInv == Two /\ level = 1 /\ Line = 0 =>
    /\ \E a \in talkers : Inside(a) /\ Since(a) = 0
    /\ \A n \in Nodes : Waits(n) \/ node[n].timeout.count = 0

\* While the line stays low.
BeganInv == Two /\ level = 0 /\ Line = 0 => \A n \in Nodes : Hears(n) =>
    /\ node[n].timeout.due => ~node[n].edge
    /\ \E a \in talkers : Began(a, n)

\* Nothing is started on a line that is low, so a node which is not yet inside
\* its frame was started before the fall.
LaunchNode(n) ==
    /\ level = 0 => node[n].pc \notin {"backoff", "start"}
    /\ node[n].pc \in {"backoff", "start"} => node[n].state # "COLLISION"
    /\ Two /\ level = 0 /\ Line = 0 /\ Hears(n) /\ node[n].hb.run /\ ~Inside(n)
          => Low(n) <= Sent(n)

LaunchInv == \A n \in Nodes \ raced : LaunchNode(n)

\* In the instant of a rise, if it meets a timeout, no talker is about to fall.
RiseInv == Two /\ level = 0 /\ Line = 1 => \A n \in Nodes : node[n].timeout.due =>
    /\ \E a, b \in talkers : a # b
    /\ \A a \in talkers : node[a].hb.due => node[a].cursor = 0

\* Node m does not pull a high line low before node n has served its half-bit
\* timer.
Behind(m, n) == IF node[m].out = 1 /\ node[m].cursor >= 1
                THEN Since(m) < Since(n)
                ELSE node[m].hb.due => Since(n) > 0

\* No edge or timer makes n forget its collision before its half-bit timer.
Stops(n) == /\ Inside(n) /\ ~node[n].timeout.due
            /\ node[n].timeout.run => node[n].timeout.count <= Since(n)
            /\ node[n].isHigh # 0 /\ (node[n].edge => Line = 1)
            /\ node[n].out = 1 => \A m \in talkers \ {n} : Behind(m, n)

Clashed(n) == node[n].state = "COLLISION" /\ node[n].hb.run

StopInv == Two => \A n \in Nodes \ raced : Clashed(n) => Stops(n)

ClashInv == FellInv /\ BeganInv /\ LaunchInv /\ RiseInv /\ StopInv

-----------------------------------------------------------------------------
(* Clocks.                                                                 *)

\* The ranges of the clocks.
LEMMA ClockFacts ==
    ASSUME IInv, NEW m \in Nodes
    PROVE  /\ HalfBit \in Nat /\ TimeoutAt \in Nat /\ HalfBit > 0
           /\ 2 * HalfBit < TimeoutAt /\ TimeoutAt < 3 * HalfBit
           /\ Since(m) \in Nat /\ Since(m) <= HalfBit
           /\ node[m].hb.due => Since(m) = HalfBit
           /\ ~node[m].hb.due => Since(m) = node[m].hb.count /\ Since(m) < HalfBit
           /\ Sent(m) \in Nat /\ Sent(m) <= 2 * HalfBit
           /\ node[m].cursor = 0 => Sent(m) = Since(m)
           /\ node[m].cursor # 0 => Sent(m) = HalfBit + Since(m)
           /\ Low(m) \in Nat /\ Low(m) <= TimeoutAt
           /\ node[m].timeout.count \in Nat
           /\ node[m].timeout.due /\ ~Waits(m) => Low(m) = TimeoutAt
  <1>1. /\ node[m].hb.count \in Nat /\ node[m].timeout.count \in Nat
        /\ node[m].hb.count < HalfBit /\ node[m].timeout.count < TimeoutAt
    <2>1. node[m] \in NodeType /\ NodeInv(node[m], Frame[m])
        BY NodeFacts
    <2> QED BY <2>1, TimingAssumption DEF NodeType, TimerType, NodeInv, TimersInv, TimerOK
  <1>2. /\ HalfBit \in Nat /\ TimeoutAt \in Nat /\ HalfBit > 0
        /\ 2 * HalfBit < TimeoutAt /\ TimeoutAt < 3 * HalfBit
      BY TimingAssumption
  <1>3. /\ Since(m) \in Nat /\ Since(m) <= HalfBit
        /\ node[m].hb.due => Since(m) = HalfBit
        /\ ~node[m].hb.due => Since(m) = node[m].hb.count /\ Since(m) < HalfBit
      BY <1>1, <1>2 DEF Since
  <1>4. /\ Sent(m) \in Nat /\ Sent(m) <= 2 * HalfBit
        /\ node[m].cursor = 0 => Sent(m) = Since(m)
        /\ node[m].cursor # 0 => Sent(m) = HalfBit + Since(m)
      BY <1>2, <1>3 DEF Sent
  <1>5. /\ Low(m) \in Nat /\ Low(m) <= TimeoutAt
        /\ node[m].timeout.due /\ ~Waits(m) => Low(m) = TimeoutAt
      BY <1>1, <1>2 DEF Low
  <1> QED BY <1>1, <1>2, <1>3, <1>4, <1>5

\* A fall that n has heard a timeout ago was two half-bits before the one that
\* its sender is in, which is neither just begun nor over; unless the sender has
\* left its frame.
LEMMA BeganLate ==
    ASSUME IInv, NEW a \in Nodes, NEW n \in Nodes, Began(a, n), Low(n) = TimeoutAt
    PROVE  /\ Inside(a) => 0 < Since(a) /\ Since(a) < HalfBit /\ ~node[a].hb.due
           /\ ~Inside(a) => Left(a, n)
           /\ node[a].hb.due => node[a].cursor = 0
  <1>1. /\ HalfBit \in Nat /\ TimeoutAt \in Nat
        /\ 2 * HalfBit < TimeoutAt /\ TimeoutAt < 3 * HalfBit
        /\ Since(a) \in Nat /\ Since(a) <= HalfBit /\ (node[a].hb.due => Since(a) = HalfBit)
        /\ node[a].cursor # 0 => Sent(a) = HalfBit + Since(a)
        /\ node[a].cursor \in Nat /\ (node[a].hb.due => node[a].hb.run)
      BY ClockFacts, LowIsInside
  <1>2. Left(a, n) => ~Inside(a)
      BY <1>1 DEF Left, Inside
  <1>3. Inside(a) => 0 < Since(a) /\ Since(a) < HalfBit /\ ~node[a].hb.due
    <2> SUFFICES ASSUME Inside(a)
                 PROVE  0 < Since(a) /\ Since(a) < HalfBit /\ ~node[a].hb.due
        OBVIOUS
    <2>1. TimeoutAt - Since(a) \in {0, HalfBit, 2 * HalfBit}
        BY <1>2 DEF Began
    <2>2. 0 < Since(a) /\ Since(a) < HalfBit
        BY <1>1, <2>1
    <2> QED BY <1>1, <2>2
  <1>4. ASSUME Left(a, n), node[a].hb.due PROVE node[a].cursor = 0
    <2>1. HalfBit + Sent(a) <= TimeoutAt
        BY <1>1, <1>4 DEF Left
    <2> QED BY <1>1, <1>4, <2>1
  <1> QED BY <1>2, <1>3, <1>4 DEF Began

\* What a local step leaves of the clocks.
LEMMA LocalClocks ==
    ASSUME IInv, NEW n \in Nodes, Local(n), Kept(node[n], node'[n])
    PROVE  \A m \in Nodes :
              /\ (Inside(m)' <=> Inside(m)) /\ node'[m].cursor = node[m].cursor
              /\ node'[m].out = node[m].out
              /\ (node'[m].hb.due <=> node[m].hb.due)
              /\ (node'[m].hb.raw <=> node[m].hb.raw)
              /\ node[m].hb.run => Since(m)' = Since(m) /\ Sent(m)' = Sent(m) /\ node'[m].hb.run
              /\ ~node[m].hb.run /\ node'[m].hb.run => Since(m)' = 0 /\ Sent(m)' = 0
              /\ ~node[m].hb.run => node[m].cursor = 0
  <1> SUFFICES ASSUME NEW m \in Nodes
               PROVE  /\ (Inside(m)' <=> Inside(m)) /\ node'[m].cursor = node[m].cursor
                      /\ node'[m].out = node[m].out
                      /\ (node'[m].hb.due <=> node[m].hb.due)
                      /\ (node'[m].hb.raw <=> node[m].hb.raw)
                      /\ node[m].hb.run => Since(m)' = Since(m) /\ Sent(m)' = Sent(m) /\ node'[m].hb.run
                      /\ ~node[m].hb.run /\ node'[m].hb.run => Since(m)' = 0 /\ Sent(m)' = 0
                      /\ ~node[m].hb.run => node[m].cursor = 0
      OBVIOUS
  <1>1. /\ node'[m].out = node[m].out /\ node'[m].cursor = node[m].cursor
        /\ Begun(node[m].hb, node'[m].hb)
      BY DEF Local, Kept, Begun
  <1>2. /\ node[m].hb.due => node[m].hb.run
        /\ ~node[m].hb.run => node[m].cursor = 0
        /\ HalfBit \in Nat
    <2>1. node[m] \in NodeType /\ NodeInv(node[m], Frame[m])
        BY NodeFacts
    <2> QED BY <2>1, TimingAssumption DEF NodeType, NodeInv, TimersInv, CursorInv
  <1>3. Inside(m)' <=> Inside(m)
      BY <1>1 DEF Inside
  <1>4. CASE node'[m].hb = node[m].hb
      BY <1>1, <1>2, <1>3, <1>4 DEF Since, Sent
  <1>5. CASE node'[m].hb # node[m].hb
    <2>1. /\ ~node[m].hb.run /\ node'[m].hb.run /\ node'[m].hb.count = 0
          /\ node'[m].hb.raw = node[m].hb.raw /\ node'[m].hb.due = node[m].hb.due
        BY <1>1, <1>5 DEF Begun
    <2>2. ~node'[m].hb.due /\ node'[m].cursor = 0
        BY <1>1, <1>2, <2>1
    <2>3. Since(m)' = 0 /\ Sent(m)' = 0
        BY <2>1, <2>2 DEF Since, Sent
    <2> QED BY <1>1, <1>2, <1>3, <2>1, <2>3
  <1> QED BY <1>4, <1>5

\* A local step leaves a fall where it was.
LEMMA BeganKept ==
    ASSUME IInv, NEW n \in Nodes, Local(n), Kept(node[n], node'[n]),
           NEW a \in Nodes, NEW k \in Nodes, Began(a, k), Low(k)' = Low(k)
    PROVE  Began(a, k)'
  <1>1. /\ (Inside(a)' <=> Inside(a)) /\ node'[a].cursor = node[a].cursor
        /\ (node'[a].hb.raw <=> node[a].hb.raw)
        /\ node[a].hb.run => Since(a)' = Since(a) /\ Sent(a)' = Sent(a) /\ node'[a].hb.run
        /\ ~node[a].hb.run /\ node'[a].hb.run => Sent(a)' = 0
      BY LocalClocks
  <1>2. CASE Inside(a) /\ Low(k) - Since(a) \in {0, HalfBit, 2 * HalfBit}
    <2>1. Since(a)' = Since(a)
        BY <1>1, <1>2, LowIsInside
    <2> QED BY <1>1, <1>2, <2>1 DEF Began
  <1>3. CASE Left(a, k)
    <2>1. HalfBit \in Nat /\ HalfBit <= Low(k)
        BY <1>3, ClockFacts DEF Left
    <2>2. node'[a].hb.run => HalfBit + Sent(a)' <= Low(k)
        BY <1>1, <1>3, <2>1 DEF Left
    <2>3. Left(a, k)'
        BY <1>1, <1>3, <2>2 DEF Left
    <2> QED BY <2>3 DEF Began
  <1> QED BY <1>2, <1>3 DEF Began

\* A local step that rewinds no timeout on a low line, but in the instant of the
\* fall, keeps what is known of the falls and rises.
LEMMA LocalSession ==
    ASSUME IInv, FellInv, BeganInv, RiseInv,
           NEW n \in Nodes, Local(n), Kept(node[n], node'[n]),
           node'[n].edge => node[n].edge,
           node'[n].timeout.due => node[n].timeout.due,
           Waits(n) \/ node[n].timeout.count = 0 => Waits(n)' \/ node'[n].timeout.count = 0,
           Two /\ level = 0 /\ Line = 0 /\ Hears(n)' => Hears(n) /\ Low(n)' = Low(n)
    PROVE  FellInv' /\ BeganInv' /\ RiseInv'
  <1>1. /\ Line' = Line /\ level' = level /\ talkers' = talkers
        /\ \A m \in Nodes \ {n} : node'[m] = node[m]
      BY DEF Local
  <1>2. Two' <=> Two
      BY <1>1 DEF Two
  <1>3. \A m \in Nodes \ {n} : Waits(m)' = Waits(m) /\ Hears(m)' = Hears(m) /\ Low(m)' = Low(m)
      BY <1>1 DEF Waits, Hears, Low
  <1>4. FellInv'
    <2> SUFFICES ASSUME Two, level = 1, Line = 0
                 PROVE  /\ \E a \in talkers : Inside(a)' /\ Since(a)' = 0
                        /\ \A m \in Nodes : Waits(m)' \/ node'[m].timeout.count = 0
        BY <1>1, <1>2 DEF FellInv
    <2>1. PICK a \in talkers : Inside(a) /\ Since(a) = 0
        BY DEF FellInv
    <2>2. a \in Nodes
        BY DEF IInv, TypeInv
    <2>3. Inside(a)' /\ Since(a)' = 0
        BY <2>1, <2>2, LocalClocks, LowIsInside
    <2>4. \A m \in Nodes : Waits(m)' \/ node'[m].timeout.count = 0
        BY <1>1, <1>3 DEF FellInv
    <2> QED BY <2>3, <2>4
  <1>5. BeganInv'
    <2> SUFFICES ASSUME Two, level = 0, Line = 0, NEW k \in Nodes, Hears(k)'
                 PROVE  /\ node'[k].timeout.due => ~node'[k].edge
                        /\ \E a \in talkers : Began(a, k)'
        BY <1>1, <1>2 DEF BeganInv
    <2>1. Hears(k) /\ Low(k)' = Low(k)
        BY <1>3
    <2>2. /\ node'[k].edge => node[k].edge
          /\ node'[k].timeout.due => node[k].timeout.due
        BY <1>1
    <2>3. PICK a \in talkers : Began(a, k)
        BY <2>1 DEF BeganInv
    <2>4. a \in Nodes
        BY DEF IInv, TypeInv
    <2>5. Began(a, k)'
        BY <2>1, <2>3, <2>4, BeganKept
    <2> QED BY <2>1, <2>2, <2>5 DEF BeganInv
  <1>6. RiseInv'
    <2> SUFFICES ASSUME Two, level = 0, Line = 1, NEW k \in Nodes, node'[k].timeout.due
                 PROVE  /\ \E a, b \in talkers : a # b
                        /\ \A a \in talkers : node'[a].hb.due => node'[a].cursor = 0
        BY <1>1, <1>2 DEF RiseInv
    <2>1. node[k].timeout.due
        BY <1>1
    <2>2. \A a \in talkers : a \in Nodes
        BY DEF IInv, TypeInv
    <2> QED BY <2>1, <2>2, LocalClocks DEF RiseInv
  <1> QED BY <1>4, <1>5, <1>6

\* It leaves a sender that is to stop where it is.
LEMMA BehindKept ==
    ASSUME IInv, NEW n \in Nodes, Local(n), Kept(node[n], node'[n]),
           NEW k \in Nodes, NEW m \in Nodes, Inside(m), Behind(k, m)
    PROVE  Behind(k, m)'
  <1>1. /\ node'[k].cursor = node[k].cursor /\ node'[k].out = node[k].out
        /\ (node'[k].hb.due <=> node[k].hb.due)
        /\ node[k].hb.run => Since(k)' = Since(k)
        /\ ~node[k].hb.run => node[k].cursor = 0
        /\ node[k].cursor \in Nat
      BY LocalClocks, LowIsInside
  <1>2. Since(m)' = Since(m)
      BY LocalClocks, LowIsInside
  <1> QED BY <1>1, <1>2 DEF Behind

\* If no step starts a node on a low line or after a collision, and the node of the
\* step stops if it has detected one, the senders that are to stop still are.
LEMMA LocalStops ==
    ASSUME IInv, LaunchInv, StopInv, NEW n \in Nodes, Local(n), Kept(node[n], node'[n]),
           raced \subseteq raced',
           Two /\ level = 0 /\ Line = 0 /\ Hears(n)' => Hears(n) /\ Low(n)' = Low(n),
           n \notin raced' =>
              /\ level = 0 => node'[n].pc \notin {"backoff", "start"}
              /\ node'[n].pc \in {"backoff", "start"} => node'[n].state # "COLLISION"
              /\ level = 0 /\ Line = 0 /\ node'[n].hb.run => node[n].hb.run
              /\ Two /\ Clashed(n)' => Stops(n)'
    PROVE  LaunchInv' /\ StopInv'
  <1>1. /\ Line' = Line /\ level' = level /\ talkers' = talkers
        /\ \A m \in Nodes \ {n} : node'[m] = node[m]
      BY DEF Local
  <1>2. Two' <=> Two
      BY <1>1 DEF Two
  <1>3. \A m \in Nodes \ {n} : Hears(m)' = Hears(m) /\ Low(m)' = Low(m) /\ Sent(m)' = Sent(m)
                               /\ Inside(m)' = Inside(m) /\ Clashed(m)' = Clashed(m)
                               /\ Since(m)' = Since(m)
      BY <1>1 DEF Hears, Low, Waits, Sent, Since, Inside, Clashed
  <1>4. LaunchInv'
    <2> SUFFICES ASSUME NEW m \in Nodes \ raced' PROVE LaunchNode(m)'
        BY DEF LaunchInv
    <2>1. m \in Nodes \ raced /\ LaunchNode(m)
        BY DEF LaunchInv
    <2>2. CASE m # n
        BY <1>1, <1>2, <1>3, <2>1, <2>2 DEF LaunchNode
    <2>3. CASE m = n
      <3>1. ASSUME Two, level = 0, Line = 0, Hears(n)', node'[n].hb.run, ~Inside(n)'
            PROVE  Low(n)' <= Sent(n)'
        <4>1. node[n].hb.run /\ Hears(n) /\ Low(n)' = Low(n)
            BY <2>3, <3>1
        <4>2. ~Inside(n) /\ Sent(n)' = Sent(n)
            BY <3>1, <4>1, LocalClocks
        <4> QED BY <2>1, <2>3, <3>1, <4>1, <4>2 DEF LaunchNode
      <3> QED BY <1>1, <1>2, <2>3, <3>1 DEF LaunchNode
    <2> QED BY <2>2, <2>3
  <1>5. StopInv'
    <2> SUFFICES ASSUME Two, NEW m \in Nodes \ raced', Clashed(m)' PROVE Stops(m)'
        BY <1>2 DEF StopInv
    <2>1. CASE m = n
        BY <2>1
    <2>2. CASE m # n
      <3>1. Stops(m)
          BY <1>3, <2>2 DEF StopInv
      <3>2. \A k \in talkers : k \in Nodes
          BY DEF IInv, TypeInv
      <3>3. node[m].out = 1 => \A k \in talkers \ {m} : Behind(k, m)'
          BY <3>1, <3>2, BehindKept DEF Stops
      <3> QED BY <1>1, <1>3, <2>2, <3>1, <3>3 DEF Stops
    <2> QED BY <2>1, <2>2
  <1> QED BY <1>4, <1>5

\* What is left to show of the node of the step.
LEMMA StopsKept ==
    ASSUME IInv, NEW n \in Nodes, Local(n), Kept(node[n], node'[n]), Stops(n),
           ~node'[n].timeout.due,
           node'[n].timeout.run => node'[n].timeout.count <= Since(n),
           node'[n].isHigh # 0, node'[n].edge => Line = 1
    PROVE  Stops(n)'
  <1>1. Inside(n)' /\ Since(n)' = Since(n) /\ node'[n].out = node[n].out
      BY LocalClocks, LowIsInside DEF Stops
  <1>2. Line' = Line /\ talkers' = talkers
      BY DEF Local
  <1>3. \A k \in talkers : k \in Nodes
      BY DEF IInv, TypeInv
  <1>4. node[n].out = 1 => \A k \in talkers \ {n} : Behind(k, n)'
      BY <1>3, BehindKept DEF Stops
  <1> QED BY <1>1, <1>2, <1>4 DEF Stops

\* The steps of main, of the compare interrupt and of the end of a backoff.
LEMMA SilentClash ==
    ASSUME IInv, ClashInv, NEW n \in Nodes, Local(n), Silent(node[n], node'[n]),
           raced' = raced,
           node'[n].pc \in {"backoff", "start"} =>
               node[n].state = "IDLE" \/ node[n].pc \in {"backoff", "start"},
           node'[n].hb.run => node[n].hb.run \/ node[n].state = "IDLE" \/ node[n].pc = "start"
    PROVE  ClashInv'
  <1>1. /\ Kept(node[n], node'[n]) /\ node'[n].state = node[n].state
        /\ node'[n].edge = node[n].edge /\ node'[n].isHigh = node[n].isHigh
        /\ node'[n].timeout = node[n].timeout
      BY DEF Silent
  <1>2. Hears(n)' = Hears(n) /\ Low(n)' = Low(n) /\ Waits(n)' = Waits(n)
      BY <1>1 DEF Hears, Low, Waits
  <1>3. FellInv' /\ BeganInv' /\ RiseInv'
      BY <1>1, <1>2, LocalSession DEF ClashInv
  <1>4. ASSUME n \notin raced
        PROVE  /\ level = 0 => node'[n].pc \notin {"backoff", "start"}
               /\ node'[n].pc \in {"backoff", "start"} => node'[n].state # "COLLISION"
               /\ level = 0 /\ Line = 0 /\ node'[n].hb.run => node[n].hb.run
               /\ Two /\ Clashed(n)' => Stops(n)'
    <2>1. /\ level = 0 => node[n].pc \notin {"backoff", "start"}
          /\ node[n].pc \in {"backoff", "start"} => node[n].state # "COLLISION"
        BY <1>4 DEF ClashInv, LaunchInv, LaunchNode
    <2>2. level = 0 => node[n].state # "IDLE"
        BY <1>4 DEF IInv, LowInv
    <2>3. ASSUME Two, Clashed(n)' PROVE Stops(n)'
      <3>1. Clashed(n)
          BY <1>1, <2>1, <2>3 DEF Clashed
      <3>2. Stops(n)
          BY <1>4, <2>3, <3>1 DEF ClashInv, StopInv
      <3>3. /\ ~node[n].timeout.due /\ node[n].isHigh # 0 /\ (node[n].edge => Line = 1)
            /\ node[n].timeout.run => node[n].timeout.count <= Since(n)
          BY <3>2 DEF Stops
      <3> QED BY <1>1, <3>2, <3>3, StopsKept
    <2> QED BY <1>1, <2>1, <2>2, <2>3
  <1>5. LaunchInv' /\ StopInv'
      BY <1>1, <1>2, <1>4, LocalStops DEF ClashInv
  <1> QED BY <1>3, <1>5 DEF ClashInv

\* The edge handler: a sender that is to stop has only a rise to serve.
LEMMA EdgeClash ==
    ASSUME IInv, ClashInv, NEW n \in Nodes, Local(n), raced' = raced,
           ReadEffect(node[n], node'[n]) \/ UseEffect(node[n], node'[n])
    PROVE  ClashInv'
  <1>1. /\ Kept(node[n], node'[n]) /\ node'[n].hb = node[n].hb /\ node'[n].pc = node[n].pc
        /\ node[n].edge /\ (node'[n].timeout.due <=> node[n].timeout.due)
        /\ node'[n].timeout.run /\ node'[n].timeout.count = 0
      BY DEF ReadEffect, UseEffect
  <1>2. Line # None /\ Line \in {0, 1}
      BY LineValue DEF IInv, TypeInv, None
  <1>3. /\ ~Waits(n)'
        /\ ~Waits(n) => node[n].timeout.count = 0
      BY <1>2 DEF ReadEffect, UseEffect, Waits, None
  <1>4. Two /\ level = 0 /\ Line = 0 => Hears(n) /\ Low(n)' = Low(n)
    <2> SUFFICES ASSUME Two, level = 0, Line = 0 PROVE Hears(n) /\ Low(n)' = Low(n)
        OBVIOUS
    <2>1. Hears(n)
        BY <1>1 DEF Hears
    <2>2. ~node[n].timeout.due
        BY <1>1, <2>1 DEF ClashInv, BeganInv
    <2> QED BY <1>1, <1>3, <2>1, <2>2 DEF Low
  <1>5. FellInv' /\ BeganInv' /\ RiseInv'
      BY <1>1, <1>3, <1>4, LocalSession DEF ClashInv
  <1>6. node'[n].state = node[n].state \/ node'[n].state = "BUSY"
      BY DEF ReadEffect, UseEffect
  <1>7. ASSUME n \notin raced
        PROVE  /\ level = 0 => node'[n].pc \notin {"backoff", "start"}
               /\ node'[n].pc \in {"backoff", "start"} => node'[n].state # "COLLISION"
               /\ level = 0 /\ Line = 0 /\ node'[n].hb.run => node[n].hb.run
               /\ Two /\ Clashed(n)' => Stops(n)'
    <2>1. /\ level = 0 => node[n].pc \notin {"backoff", "start"}
          /\ node[n].pc \in {"backoff", "start"} => node[n].state # "COLLISION"
        BY <1>7 DEF ClashInv, LaunchInv, LaunchNode
    <2>2. ASSUME Two, Clashed(n)' PROVE Stops(n)'
      <3>1. Clashed(n)
          BY <1>1, <1>6, <2>2 DEF Clashed
      <3>2. Stops(n)
          BY <1>7, <2>2, <3>1 DEF ClashInv, StopInv
      <3>3. ~node[n].timeout.due /\ Line = 1
          BY <1>1, <3>2 DEF Stops
      <3>4. node'[n].isHigh # 0
          BY <3>3 DEF ReadEffect, UseEffect, None
      <3>5. Since(n) \in Nat
          BY ClockFacts
      <3> QED BY <1>1, <3>2, <3>3, <3>4, <3>5, StopsKept
    <2> QED BY <1>1, <1>6, <2>1, <2>2
  <1>8. LaunchInv' /\ StopInv'
      BY <1>1, <1>4, <1>7, LocalStops DEF ClashInv
  <1> QED BY <1>5, <1>8 DEF ClashInv

\* A timeout that expires on a low line in the middle of a node's frame makes it
\* stop: of the two senders the one that holds the line low has just gone on.
LEMMA TimeoutStops ==
    ASSUME IInv, LoneInv, ClashInv, NEW n \in Nodes, Two, level = 0, Line = 0, n \notin raced,
           node[n].timeout.due, node[n].isHigh = None, node[n].hb.run
    PROVE  /\ Inside(n) /\ ~node[n].edge
           /\ node[n].out = 1 => \A m \in talkers \ {n} : Behind(m, n)
  <1>1. Hears(n) /\ ~node[n].edge /\ ~Waits(n)
    <2>1. Hears(n)
        BY DEF LoneInv, RestInv, Hears
    <2> QED BY <2>1 DEF ClashInv, BeganInv, Waits
  <1>2. Low(n) = TimeoutAt
      BY <1>1, ClockFacts
  <1>3. Inside(n)
    <2> SUFFICES ASSUME ~Inside(n) PROVE FALSE
        OBVIOUS
    <2>1. TimeoutAt <= Sent(n)
        BY <1>1, <1>2 DEF ClashInv, LaunchInv, LaunchNode
    <2> QED BY <2>1, ClockFacts
  <1>4. PICK a \in talkers : Began(a, n)
      BY <1>1 DEF ClashInv, BeganInv
  <1>5. talkers \subseteq Nodes /\ n \in talkers
      BY <1>3 DEF IInv, TypeInv, LoneInv, SpokenInv
  <1>6. /\ Inside(a) => 0 < Since(a) /\ ~node[a].hb.due
        /\ node[a].hb.due => node[a].cursor = 0
      BY <1>2, <1>4, <1>5, BeganLate
  <1>7. ASSUME node[n].out = 1, NEW m \in talkers \ {n} PROVE Behind(m, n)
    <2>1. PICK k \in Nodes : node[k].out # 1
        BY LineValue DEF IInv, TypeInv
    <2>2. node[k].out = 0 /\ Inside(k) /\ k \in talkers
        BY <2>1, LowIsInside DEF LoneInv, SpokenInv
    <2>3. m = k /\ (a = n \/ a = m)
        BY <1>4, <1>5, <1>7, <2>2 DEF Two
    <2>4. node[m].hb.due => Since(n) > 0
        BY <1>3, <1>6, <2>2, <2>3
    <2> QED BY <2>2, <2>3, <2>4 DEF Behind
  <1> QED BY <1>1, <1>3, <1>7

\* The timeout handler.
LEMMA TimeoutClash ==
    ASSUME IInv, LoneInv, ClashInv, NEW n \in Nodes, Local(n),
           TimeoutEffect(node[n], node'[n]),
           raced' = IF Line = level THEN raced ELSE raced \cup {n}
    PROVE  ClashInv'
  <1>1. /\ Kept(node[n], node'[n]) /\ node[n].timeout.due /\ node[n].isHigh = None
        /\ node'[n].edge = node[n].edge /\ node'[n].isHigh = None
        /\ ~node'[n].timeout.run /\ ~node'[n].timeout.due
        /\ node'[n].timeout.count = node[n].timeout.count
        /\ node'[n].pc = node[n].pc /\ (Line = 0 => node'[n].hb = node[n].hb)
        /\ node'[n].state = (IF Line = 1 THEN "IDLE" ELSE "COLLISION")
      BY DEF TimeoutEffect
  <1>2. Waits(n)' = Waits(n)
      BY <1>1 DEF Waits
  <1>3. ~(Two /\ level = 0 /\ Line = 0 /\ Hears(n)')
    <2> SUFFICES ASSUME Two, level = 0, Line = 0 PROVE ~Hears(n)'
        OBVIOUS
    <2>1. Hears(n)
        BY <1>1 DEF LoneInv, RestInv, Hears
    <2>2. ~node[n].edge
        BY <1>1, <2>1 DEF ClashInv, BeganInv
    <2> QED BY <1>1, <2>2 DEF Hears
  <1>4. FellInv' /\ BeganInv' /\ RiseInv'
      BY <1>1, <1>2, <1>3, LocalSession DEF ClashInv
  <1>5. ASSUME n \notin raced'
        PROVE  /\ level = 0 => node'[n].pc \notin {"backoff", "start"}
               /\ node'[n].pc \in {"backoff", "start"} => node'[n].state # "COLLISION"
               /\ level = 0 /\ Line = 0 /\ node'[n].hb.run => node[n].hb.run
               /\ Two /\ Clashed(n)' => Stops(n)'
    <2>1. n \notin raced /\ Line = level
        BY <1>5
    <2>2. level = 0 => node[n].pc \notin {"backoff", "start"}
        BY <2>1 DEF ClashInv, LaunchInv, LaunchNode
    <2>3. level \in {0, 1}
        BY DEF IInv, TypeInv
    <2>4. ASSUME Two, Clashed(n)' PROVE Stops(n)'
      <3>1. Line = 0 /\ level = 0 /\ node[n].hb.run
          BY <1>1, <2>1, <2>3, <2>4 DEF Clashed
      <3>2. /\ Inside(n) /\ ~node[n].edge
            /\ node[n].out = 1 => \A m \in talkers \ {n} : Behind(m, n)
          BY <1>1, <2>1, <2>4, <3>1, TimeoutStops
      <3>3. talkers' = talkers /\ talkers \subseteq Nodes
          BY DEF Local, IInv, TypeInv
      <3>4. Inside(n)' /\ node'[n].out = node[n].out
          BY <1>1, <3>2, LocalClocks
      <3>5. node[n].out = 1 => \A m \in talkers \ {n} : Behind(m, n)'
          BY <1>1, <3>2, <3>3, BehindKept
      <3> QED BY <1>1, <3>2, <3>3, <3>4, <3>5 DEF Stops, None
    <2> QED BY <1>1, <2>1, <2>2, <2>3, <2>4
  <1>6. raced \subseteq raced'
      OBVIOUS
  <1>7. LaunchInv' /\ StopInv'
      BY <1>1, <1>3, <1>5, <1>6, LocalStops DEF ClashInv
  <1> QED BY <1>4, <1>7 DEF ClashInv

-----------------------------------------------------------------------------
(* Two senders: time.                                                      *)

\* The clocks count on together; only a timer that has not yet had an update
\* is ahead.
LEMMA TickClocks ==
    ASSUME IInv, Tick, NEW m \in Nodes
    PROVE  /\ ~node[m].hb.due /\ (Inside(m)' <=> Inside(m))
           /\ node'[m].hb.run = node[m].hb.run /\ node'[m].cursor = node[m].cursor
           /\ node[m].hb.run => Sent(m) + 1 <= Sent(m)' /\ Sent(m)' \in Nat
           /\ node[m].hb.run /\ ~node[m].hb.raw => /\ Since(m)' = Since(m) + 1
                                                   /\ Sent(m)' = Sent(m) + 1
           /\ ~node[m].hb.raw => ~node'[m].hb.raw
           /\ node[m].cursor > 0 => node[m].hb.run /\ ~node[m].hb.raw
           /\ ~Waits(m) /\ Low(m) = node[m].timeout.count
           /\ Hears(m)' => Hears(m) /\ Low(m)' = Low(m) + 1
  <1> DEFINE h == node[m].hb
  <1>1. /\ h \in TimerType /\ TimerOK(h) /\ h.period = HalfBit /\ ~h.due
        /\ node'[m].hb = Counted(h) /\ node'[m].hb.run = h.run
        /\ node'[m].cursor = node[m].cursor /\ node[m].cursor \in Nat
        /\ node[m].cursor > 0 => h.run /\ ~h.raw
    <2>1. node[m] \in NodeType /\ NodeInv(node[m], Frame[m])
        BY NodeFacts
    <2>2. /\ ~h.due /\ node'[m].hb = Counted(h) /\ node'[m].hb.run = h.run
          /\ node'[m].cursor = node[m].cursor
        BY TickSteps
    <2> QED BY <2>1, <2>2 DEF NodeType, NodeInv, TimersInv, CursorInv
  <1>2. HalfBit \in Nat /\ HalfBit > 0
      BY TimingAssumption
  <1>3. h.count \in Nat /\ h.count < HalfBit
      BY <1>1, <1>2 DEF TimerType, TimerOK
  <1>4. h.run => \/ Counted(h).due /\ (h.raw \/ h.count + 1 = HalfBit)
                 \/ ~Counted(h).due /\ ~h.raw /\ Counted(h).count = h.count + 1
      BY <1>1, <1>2 DEF TimerType, Counted
  <1>5. ~h.raw => ~Counted(h).raw
      BY <1>1 DEF TimerType, Counted
  <1> DEFINE c == Counted(h)
             before == IF node[m].cursor = 0 THEN 0 ELSE HalfBit
             after == IF c.due THEN HalfBit ELSE c.count
  <1>6. /\ Since(m) = h.count /\ Since(m)' = after
        /\ Sent(m) = before + h.count /\ Sent(m)' = before + after
      BY <1>1 DEF Since, Sent
  <1>7. before \in Nat
      BY <1>2
  <1> HIDE DEF before
  <1>8. h.run => h.count + 1 <= after /\ (~h.raw => after = h.count + 1) /\ after \in Nat
      BY <1>2, <1>3, <1>4
  <1> HIDE DEF after
  <1>9. h.run => before + h.count + 1 <= before + after /\ before + after \in Nat
      BY <1>3, <1>7, <1>8
  <1>10. h.run /\ ~h.raw => before + after = before + h.count + 1
      BY <1>3, <1>7, <1>8
  <1>11. Inside(m)' <=> Inside(m)
      BY <1>1 DEF Inside
  <1>12. /\ ~Waits(m) /\ ~Waits(m)' /\ Low(m) = node[m].timeout.count
         /\ (Hears(m) <=> node[m].timeout.run) /\ (Hears(m)' <=> node'[m].timeout.run)
      BY TickSteps DEF Waits, Low, Hears
  <1>13. Hears(m)' => Hears(m) /\ Low(m)' = Low(m) + 1
    <2>1. CASE ~node[m].timeout.run
        BY <1>12, <2>1, TickSteps
    <2>2. CASE node[m].timeout.run /\ node[m].timeout.count + 1 # TimeoutAt
      <3>1. ~node'[m].timeout.due /\ node'[m].timeout.count = node[m].timeout.count + 1
          BY <2>2, TickSteps
      <3> QED BY <1>12, <2>2, <3>1 DEF Low
    <2>3. CASE node[m].timeout.run /\ node[m].timeout.count + 1 = TimeoutAt
      <3>1. node'[m].timeout.due
          BY <2>3, TickSteps
      <3> QED BY <1>12, <2>3, <3>1 DEF Low
    <2> QED BY <2>1, <2>2, <2>3
  <1> HIDE DEF h, after, before, c
  <1> QED BY <1>1, <1>3, <1>5, <1>6, <1>7, <1>8, <1>9, <1>10, <1>11, <1>12, <1>13 DEF h, c

\* Time keeps a fall where it was.
LEMMA TickBegan ==
    ASSUME IInv, Tick, NEW a \in Nodes, NEW k \in Nodes, Hears(k)', Began(a, k)
    PROVE  Began(a, k)'
  <1>1. /\ Low(k)' = Low(k) + 1 /\ Low(k) \in Nat /\ Since(a) \in Nat /\ Sent(a) \in Nat
        /\ HalfBit \in Nat
      BY TickClocks, ClockFacts
  <1>2. CASE Inside(a) /\ Low(k) - Since(a) \in {0, HalfBit, 2 * HalfBit}
    <2>1. node[a].cursor > 0 /\ Inside(a)'
        BY <1>2, TickClocks, LowIsInside DEF Inside
    <2>2. Since(a)' = Since(a) + 1
        BY <2>1, TickClocks
    <2>3. Low(k)' - Since(a)' = Low(k) - Since(a)
        BY <1>1, <2>2
    <2> QED BY <1>2, <2>1, <2>3 DEF Began
  <1>3. CASE Left(a, k)
    <2>1. /\ node[a].cursor < 2 /\ ~node[a].hb.raw /\ HalfBit <= Low(k)
          /\ node[a].hb.run => HalfBit + Sent(a) <= Low(k)
        BY <1>3 DEF Left
    <2>2. node[a].hb.run => Sent(a)' = Sent(a) + 1
        BY <2>1, TickClocks
    <2>3. node[a].hb.run => HalfBit + Sent(a)' <= Low(k)'
        BY <1>1, <2>1, <2>2
    <2>4. HalfBit <= Low(k)'
        BY <1>1, <2>1
    <2>5. /\ node'[a].hb.run = node[a].hb.run /\ node'[a].cursor = node[a].cursor
          /\ ~node'[a].hb.raw
        BY <2>1, TickClocks
    <2> QED BY <2>1, <2>3, <2>4, <2>5 DEF Began, Left
  <1> QED BY <1>2, <1>3 DEF Began

\* And a sender that is to stop on its way.
LEMMA TickStops ==
    ASSUME IInv, Tick, NEW n \in Nodes, Stops(n)
    PROVE  Stops(n)'
  <1>1. /\ Inside(n) /\ Inside(n)' /\ node[n].cursor > 0 /\ Since(n)' = Since(n) + 1
        /\ Since(n) \in Nat /\ Since(n) < HalfBit /\ HalfBit \in Nat
        /\ 2 * HalfBit < TimeoutAt /\ TimeoutAt \in Nat
    <2>1. Inside(n) /\ Inside(n)' /\ node[n].cursor > 0
        BY TickClocks, LowIsInside DEF Stops, Inside
    <2> QED BY <2>1, TickClocks, ClockFacts
  <1>2. /\ node[n].timeout.count \in Nat
        /\ node[n].timeout.run => node[n].timeout.count + 1 # TimeoutAt
    <2>1. node[n].timeout.count \in Nat
        BY TickSteps
    <2>2. node[n].timeout.run => node[n].timeout.count <= Since(n)
        BY DEF Stops
    <2> QED BY <1>1, <2>1, <2>2
  <1>3. ~node'[n].timeout.due
      BY <1>2, TickSteps
  <1>4. node'[n].timeout.run => node'[n].timeout.count <= Since(n)'
    <2> SUFFICES ASSUME node'[n].timeout.run PROVE node'[n].timeout.count <= Since(n)'
        OBVIOUS
    <2>1. node[n].timeout.run /\ node'[n].timeout.count = node[n].timeout.count + 1
        BY <1>2, TickSteps
    <2>2. node[n].timeout.count <= Since(n)
        BY <2>1 DEF Stops
    <2> QED BY <1>1, <1>2, <2>1, <2>2
  <1>5. node'[n].isHigh # 0 /\ ~node'[n].edge /\ node'[n].out = node[n].out /\ talkers' = talkers
      BY TickSteps DEF None
  <1>6. ASSUME node[n].out = 1, NEW m \in talkers \ {n} PROVE Behind(m, n)'
    <2>1. Behind(m, n) /\ m \in Nodes
        BY <1>6 DEF Stops, IInv, TypeInv
    <2>2. /\ node'[m].out = node[m].out /\ node'[m].cursor = node[m].cursor
          /\ node[m].cursor \in Nat /\ Since(m) \in Nat
        BY <2>1, TickSteps, LowIsInside, ClockFacts
    <2>3. node[m].cursor >= 1 => Since(m)' = Since(m) + 1
        BY <2>1, <2>2, TickClocks
    <2>4. Since(n)' > 0
        BY <1>1
    <2> QED BY <1>1, <2>1, <2>2, <2>3, <2>4 DEF Behind
  <1> QED BY <1>1, <1>3, <1>4, <1>5, <1>6 DEF Stops

\* A tick.
LEMMA TickClash ==
    ASSUME IInv, ClashInv, Tick
    PROVE  ClashInv'
  <1>1. /\ Line' = Line /\ level' = Line /\ talkers' = talkers /\ raced' = raced
        /\ (Two' <=> Two) /\ level \in {0, 1} /\ talkers \subseteq Nodes
    <2>1. Line' = Line /\ level' = Line /\ talkers' = talkers /\ raced' = raced
        BY TickSteps DEF Tick
    <2> QED BY <2>1 DEF Two, IInv, TypeInv
  <1>2. FellInv' /\ RiseInv'
      BY <1>1 DEF FellInv, RiseInv
  <1>3. ASSUME Two, level = 1, Line = 0
        PROVE  /\ \E a \in talkers : Inside(a) /\ Since(a) = 0
               /\ \A k \in Nodes : Low(k) = 0
    <2>1. \A k \in Nodes : Low(k) = 0
        BY <1>3, TickClocks DEF ClashInv, FellInv
    <2> QED BY <1>3, <2>1 DEF ClashInv, FellInv
  <1>4. BeganInv'
    <2> SUFFICES ASSUME Two, Line = 0, NEW k \in Nodes, Hears(k)'
                 PROVE  ~node'[k].edge /\ \E a \in talkers : Began(a, k)'
        BY <1>1 DEF BeganInv
    <2>1. Hears(k) /\ Low(k)' = Low(k) + 1 /\ ~node'[k].edge
        BY TickClocks, TickSteps
    <2>2. \E a \in talkers : Began(a, k)
      <3>1. CASE level = 1
        <4>1. PICK a \in talkers : Inside(a) /\ Since(a) = 0
            BY <1>3, <3>1
        <4>2. Low(k) - Since(a) = 0
            BY <1>3, <3>1, <4>1
        <4> QED BY <4>1, <4>2 DEF Began
      <3>2. CASE level = 0
          BY <2>1, <3>2 DEF ClashInv, BeganInv
      <3> QED BY <1>1, <3>1, <3>2
    <2> QED BY <1>1, <2>1, <2>2, TickBegan
  <1>5. LaunchInv'
    <2> SUFFICES ASSUME NEW n \in Nodes \ raced PROVE LaunchNode(n)'
        BY <1>1 DEF LaunchInv
    <2>1. node'[n].pc = "idle"
        BY TickSteps
    <2>2. ASSUME Two, Line = 0, Hears(n)', node'[n].hb.run, ~Inside(n)'
          PROVE  Low(n)' <= Sent(n)'
      <3>1. /\ Hears(n) /\ Low(n)' = Low(n) + 1 /\ node[n].hb.run /\ ~Inside(n)
            /\ Sent(n) + 1 <= Sent(n)' /\ Sent(n)' \in Nat
          BY <2>2, TickClocks
      <3>2. Low(n) <= Sent(n)
        <4>1. CASE level = 1
            BY <1>3, <2>2, <4>1, ClockFacts
        <4>2. CASE level = 0
            BY <2>2, <3>1, <4>2 DEF ClashInv, LaunchInv, LaunchNode
        <4> QED BY <1>1, <4>1, <4>2
      <3>3. Low(n) \in Nat /\ Sent(n) \in Nat
          BY ClockFacts
      <3> QED BY <3>1, <3>2, <3>3
    <2> QED BY <1>1, <2>1, <2>2 DEF LaunchNode
  <1>6. StopInv'
    <2> SUFFICES ASSUME Two, NEW n \in Nodes \ raced, Clashed(n)' PROVE Stops(n)'
        BY <1>1 DEF StopInv
    <2>1. Clashed(n)
        BY TickSteps DEF Clashed
    <2> QED BY <2>1, TickStops DEF ClashInv, StopInv
  <1> QED BY <1>2, <1>4, <1>5, <1>6 DEF ClashInv

-----------------------------------------------------------------------------
(* Two senders: TIM4's handler.                                            *)

\* What it does to the clocks.
LEMMA DrivenClocks ==
    ASSUME IInv, NEW n \in Nodes, NEW y, Driven(n, y)
    PROVE  /\ \A m \in Nodes \ {n} :
                 /\ node'[m].out = node[m].out /\ node'[m].cursor = node[m].cursor
                 /\ node'[m].hb = node[m].hb /\ (Inside(m)' <=> Inside(m))
                 /\ Since(m)' = Since(m) /\ Sent(m)' = Sent(m)
           /\ node[n].hb.due /\ ~node'[n].hb.due /\ ~node'[n].hb.raw
           /\ Since(n) = HalfBit /\ Since(n)' = 0
           /\ node'[n].out = y.out /\ node'[n].cursor = y.cursor
           /\ \/ y.cursor = 0 /\ y.out = 1 /\ ~node'[n].hb.run
              \/ y.cursor = node[n].cursor + 1 /\ y.cursor > 0 /\ node'[n].hb.run
                 /\ y.out = Frame[n][y.cursor]
           /\ y.cursor \in Nat /\ node[n].cursor \in Nat
           /\ y.cursor # 0 => Sent(n)' = HalfBit
           /\ y.out = 0 => Inside(n)' /\ node[n].cursor >= 1
           /\ node[n].state = "COLLISION" => ~node'[n].hb.run
           /\ Line' = Line => \A m \in Nodes : Low(m)' = Low(m) /\ (Hears(m)' <=> Hears(m))
                                               /\ (Waits(m)' <=> Waits(m))
  <1>1. HalfBitFrame(node[n], y, Frame[n]) /\ node[n].hb.due /\ ~y.hb.raw
        /\ (node[n].state = "COLLISION" => y.cursor = 0)
      BY DEF Driven, HalfBitEffect
  <1>2. /\ node'[n].out = y.out /\ node'[n].hb = y.hb /\ node'[n].cursor = y.cursor
        /\ \A m \in Nodes \ {n} : /\ node'[m].out = node[m].out /\ node'[m].hb = node[m].hb
                                  /\ node'[m].cursor = node[m].cursor
      BY DEF Driven
  <1>3. \A m \in Nodes \ {n} : /\ Inside(m)' <=> Inside(m)
                               /\ Since(m)' = Since(m) /\ Sent(m)' = Sent(m)
      BY <1>2 DEF Inside, Since, Sent
  <1>4. /\ ~y.hb.due /\ y.hb.count = 0
        /\ \/ y.cursor = 0 /\ y.out = 1 /\ ~y.hb.run
           \/ y.cursor = node[n].cursor + 1 /\ y.out = Frame[n][y.cursor] /\ y.hb.run
      BY <1>1 DEF HalfBitFrame
  <1>5. y.cursor \in Nat /\ node[n].cursor \in Nat /\ HalfBit \in Nat
      BY DrivenLine, ClockFacts
  <1>6. Since(n) = HalfBit /\ Since(n)' = 0 /\ (y.cursor # 0 => Sent(n)' = HalfBit)
    <2>1. Since(n) = HalfBit /\ Since(n)' = 0
        BY <1>1, <1>2, <1>4 DEF Since
    <2>2. y.cursor # 0 => Sent(n)' = HalfBit + 0
        BY <1>2, <2>1 DEF Sent
    <2> QED BY <1>5, <2>1, <2>2
  <1>7. y.out = 0 => Inside(n)' /\ node[n].cursor >= 1
    <2> SUFFICES ASSUME y.out = 0 PROVE Inside(n)' /\ node[n].cursor >= 1
        OBVIOUS
    <2>1. y.cursor = node[n].cursor + 1 /\ Frame[n][y.cursor] = 0
        BY <1>4
    <2>2. Frame[n][1] = 1
        BY FrameFacts
    <2>3. y.cursor # 1
        BY <2>1, <2>2
    <2> QED BY <1>2, <1>5, <2>1, <2>3 DEF Inside
  <1>8. ASSUME Line' = Line
        PROVE  \A m \in Nodes : Low(m)' = Low(m) /\ (Hears(m)' <=> Hears(m))
                                /\ (Waits(m)' <=> Waits(m))
    <2>1. \A m \in Nodes : /\ node'[m].edge <=> node[m].edge
                           /\ node'[m].isHigh = node[m].isHigh
                           /\ node'[m].timeout = node[m].timeout
        BY <1>8 DEF Driven
    <2> QED BY <2>1 DEF Low, Hears, Waits
  <1>9. y.cursor = node[n].cursor + 1 => y.cursor > 0
      BY <1>5
  <1>10. node[n].state = "COLLISION" => ~y.hb.run
      BY <1>1, <1>4, <1>5
  <1> QED BY <1>1, <1>2, <1>3, <1>4, <1>5, <1>6, <1>7, <1>8, <1>9, <1>10

\* A session of two is one from its first fall.
LEMMA DrivenTwo ==
    ASSUME IInv, NEW n \in Nodes, NEW y, Driven(n, y), Two', y.out = 1 \/ ~Quiet
    PROVE  /\ Two /\ talkers \subseteq talkers'
           /\ y.out = 0 => n \in talkers' /\ \A a, b \in talkers : a # b => n \in talkers
           /\ talkers' \subseteq talkers \cup {n}
           /\ y.out = 1 => talkers' = talkers
  <1>1. /\ y.out = 1 => talkers' = talkers
        /\ y.out # 1 => talkers' = talkers \cup {n}
      BY DEF Driven, Recorded
  <1>2. PICK c \in Nodes, d \in Nodes : talkers' \subseteq {c, d}
      BY DEF Two
  <1>3. talkers \subseteq talkers' /\ talkers' \subseteq talkers \cup {n}
      BY <1>1
  <1>4. Two
      BY <1>2, <1>3 DEF Two
  <1> QED BY <1>1, <1>2, <1>3, <1>4

\* No timeout has expired when the line falls, in a session of two, in the
\* instant in which it rose.
LEMMA FallDue ==
    ASSUME IInv, LoneInv, ClashInv, NEW n \in Nodes, NEW y, Driven(n, y), Two',
           level = 0, Line = 1, y.out = 0
    PROVE  \A k \in Nodes : ~node[k].timeout.due
  <1> SUFFICES ASSUME NEW k \in Nodes, node[k].timeout.due PROVE FALSE
      OBVIOUS
  <1>1. ~Quiet
      BY DEF LoneInv, RestInv, Quiet
  <1>2. /\ Two /\ \A a, b \in talkers : a # b => n \in talkers
      BY <1>1, DrivenTwo
  <1>3. /\ \E a, b \in talkers : a # b
        /\ \A a \in talkers : node[a].hb.due => node[a].cursor = 0
      BY <1>2 DEF ClashInv, RiseInv
  <1>4. node[n].cursor = 0
      BY <1>2, <1>3, DrivenClocks
  <1> QED BY <1>4, DrivenClocks

\* After a fall every node waits for its edge, or has just rewound its timeout.
LEMMA FallRewinds ==
    ASSUME IInv, NEW n \in Nodes, NEW y, Driven(n, y), Line' # Line, NEW m \in Nodes
    PROVE  /\ node'[m].edge /\ (Waits(m)' \/ node'[m].timeout.count = 0)
           /\ ~node[m].timeout.due => Low(m)' = 0
  <1>1. /\ node'[m].edge /\ node'[m].isHigh = node[m].isHigh
        /\ node'[m].timeout = node[m].timeout
      BY DEF Driven
  <1>2. node[m].isHigh # None => node[m].timeout.count = 0
      BY NodeFacts DEF NodeInv, HandlerInv
  <1> QED BY <1>1, <1>2 DEF Waits, Low

\* What is known of the fall of the line.
LEMMA HalfBitBegan ==
    ASSUME IInv, LoneInv, ClashInv, NEW n \in Nodes, NEW y, Driven(n, y)
    PROVE  FellInv' /\ BeganInv'
  <1>1. level' = level /\ Line \in {0, 1} /\ Line' \in {0, 1} /\ y.out \in {0, 1}
      BY DrivenLine DEF Driven
  <1>2. CASE Line = 1 /\ Line' = 0
    <2>1. y.out = 0 /\ n \in talkers'
      <3>1. y.out # 1
        <4> SUFFICES ASSUME y.out = 1 PROVE FALSE
            OBVIOUS
        <4>1. node[n].out = 1
            BY <1>2, LineValue DEF IInv, TypeInv
        <4> QED BY <1>2, <4>1, DrivenLine
      <3> QED BY <1>1, <3>1 DEF Driven, Recorded
    <2>2. Inside(n)' /\ Since(n)' = 0
        BY <2>1, DrivenClocks
    <2>3. FellInv'
        BY <1>2, <2>1, <2>2, FallRewinds DEF FellInv
    <2>4. BeganInv'
      <3> SUFFICES ASSUME Two', level = 0, NEW k \in Nodes
                   PROVE  ~node'[k].timeout.due /\ Began(n, k)'
          BY <1>1, <2>1 DEF BeganInv
      <3>1. ~node[k].timeout.due
          BY <1>2, <2>1, FallDue
      <3>2. ~node'[k].timeout.due
          BY <3>1 DEF Driven
      <3>3. Low(k)' = 0
          BY <1>2, <3>1, FallRewinds
      <3>4. Low(k)' - Since(n)' = 0
          BY <2>2, <3>3
      <3> QED BY <2>2, <3>2, <3>4 DEF Began
    <2> QED BY <2>3, <2>4
  <1>3. CASE Line = 0 /\ Line' = 0
    <2>1. ~Quiet /\ talkers \subseteq Nodes
        BY <1>3 DEF Quiet, IInv, TypeInv
    <2>2. FellInv'
      <3> SUFFICES ASSUME Two', level = 1
                   PROVE  /\ \E a \in talkers' : Inside(a)' /\ Since(a)' = 0
                          /\ \A k \in Nodes : Waits(k)' \/ node'[k].timeout.count = 0
          BY <1>1 DEF FellInv
      <3>1. Two /\ talkers \subseteq talkers'
          BY <2>1, DrivenTwo
      <3>2. PICK a \in talkers : Inside(a) /\ Since(a) = 0
          BY <1>3, <3>1 DEF ClashInv, FellInv
      <3>3. a # n
          BY <3>2, DrivenClocks, ClockFacts
      <3>4. Inside(a)' /\ Since(a)' = 0
          BY <2>1, <3>2, <3>3, DrivenClocks
      <3>5. \A k \in Nodes : Waits(k) \/ node[k].timeout.count = 0
          BY <1>3, <3>1 DEF ClashInv, FellInv
      <3>6. \A k \in Nodes : (Waits(k)' <=> Waits(k)) /\ node'[k].timeout = node[k].timeout
          BY <1>3, DrivenClocks DEF Driven
      <3> QED BY <3>1, <3>2, <3>4, <3>5, <3>6
    <2>3. BeganInv'
      <3> SUFFICES ASSUME Two', level = 0, NEW k \in Nodes, Hears(k)'
                   PROVE  /\ node'[k].timeout.due => ~node'[k].edge
                          /\ \E a \in talkers' : Began(a, k)'
          BY <1>1 DEF BeganInv
      <3>1. Two /\ talkers \subseteq talkers'
          BY <2>1, DrivenTwo
      <3>2. Hears(k) /\ Low(k)' = Low(k)
          BY <1>3, DrivenClocks
      <3>3. /\ node[k].timeout.due => ~node[k].edge
            /\ \E a \in talkers : Began(a, k)
          BY <1>3, <3>1, <3>2 DEF ClashInv, BeganInv
      <3>4. PICK a \in talkers : Began(a, k)
          BY <3>3
      <3>5. CASE a # n
        <4>1. /\ (Inside(a)' <=> Inside(a)) /\ Since(a)' = Since(a) /\ Sent(a)' = Sent(a)
              /\ node'[a].cursor = node[a].cursor /\ node'[a].hb = node[a].hb
            BY <2>1, <3>5, DrivenClocks
        <4>2. Began(a, k)'
            BY <3>2, <3>4, <4>1 DEF Began, Left
        <4> QED BY <1>3, <3>1, <3>3, <4>2 DEF Driven
      <3>6. CASE a = n
        <4> SUFFICES Began(n, k)'
            BY <1>3, <3>1, <3>3, <3>4, <3>6 DEF Driven
        <4>1. /\ HalfBit \in Nat /\ Low(k) \in Nat /\ Low(k) < 3 * HalfBit
              /\ Since(n) = HalfBit /\ Since(n)' = 0
              /\ ~node'[n].hb.raw /\ node[n].hb.run /\ node[n].cursor \in Nat
              /\ node'[n].cursor = y.cursor /\ y.cursor \in Nat
          <5>1. Low(k) < 3 * HalfBit /\ HalfBit \in Nat /\ Low(k) \in Nat
              BY ClockFacts
          <5> QED BY <5>1, DrivenClocks, LowIsInside
        <4>2. CASE Inside(n) /\ Low(k) - Since(n) \in {0, HalfBit, 2 * HalfBit}
          <5>1. Low(k) \in {HalfBit, 2 * HalfBit}
              BY <4>1, <4>2
          <5>2. CASE y.cursor = 0
            <6>1. ~node'[n].hb.run
                BY <5>2, DrivenClocks
            <6>2. HalfBit <= Low(k)
                BY <4>1, <5>1
            <6> QED BY <3>2, <4>1, <5>2, <6>1, <6>2 DEF Began, Left
          <5>3. CASE y.cursor # 0
            <6>1. Inside(n)'
                BY <4>1, <4>2, <5>3, DrivenClocks DEF Inside
            <6>2. Low(k) - 0 \in {0, HalfBit, 2 * HalfBit}
                BY <4>1, <5>1
            <6> QED BY <3>2, <4>1, <6>1, <6>2 DEF Began
          <5> QED BY <5>2, <5>3
        <4>3. CASE Left(n, k)
          <5>1. HalfBit <= Low(k) /\ HalfBit + Sent(n) <= Low(k)
              BY <4>1, <4>3 DEF Left
          <5>2. /\ node[n].cursor = 0 => Sent(n) = HalfBit
                /\ node[n].cursor # 0 => Sent(n) = HalfBit + HalfBit
              BY <4>1, ClockFacts
          <5>3. node[n].cursor = 0
              BY <4>1, <5>1, <5>2
          <5>4. y.cursor < 2
              BY <4>1, <5>3, DrivenClocks
          <5>5. node'[n].hb.run => HalfBit + Sent(n)' <= Low(k)
            <6> SUFFICES ASSUME node'[n].hb.run PROVE HalfBit + Sent(n)' <= Low(k)
                OBVIOUS
            <6>1. y.cursor # 0
                BY DrivenClocks
            <6>2. Sent(n)' = HalfBit
                BY <6>1, DrivenClocks
            <6> QED BY <5>1, <5>2, <5>3, <6>2
          <5> QED BY <3>2, <4>1, <5>1, <5>4, <5>5 DEF Began, Left
        <4> QED BY <3>4, <3>6, <4>2, <4>3 DEF Began
      <3> QED BY <3>5, <3>6
    <2> QED BY <2>2, <2>3
  <1>4. CASE Line' # 0
      BY <1>4 DEF FellInv, BeganInv
  <1> QED BY <1>1, <1>2, <1>3, <1>4

\* What is known of its rise: the sender that has let it go is not alone, and if a
\* timeout has expired the other one is not at the end of a half-bit.
LEMMA HalfBitRise ==
    ASSUME IInv, LoneInv, ClashInv, NEW n \in Nodes, NEW y, Driven(n, y)
    PROVE  RiseInv'
  <1> SUFFICES ASSUME Two', level = 0, Line' = 1, NEW k \in Nodes, node'[k].timeout.due
               PROVE  /\ \E a, b \in talkers' : a # b
                      /\ \A a \in talkers' : node'[a].hb.due => node'[a].cursor = 0
      BY DEF RiseInv, Driven
  <1>1. y.out = 1 /\ Line \in {0, 1}
    <2>1. node'[n].out = y.out /\ y.out \in {0, 1} /\ Line \in {0, 1}
        BY DrivenClocks, DrivenLine
    <2>2. Line' = IF \A m \in Nodes : node'[m].out = 1 THEN 1 ELSE 0
        BY DEF Line, Level
    <2> QED BY <2>1, <2>2
  <1>2. Two /\ talkers' = talkers /\ talkers \subseteq Nodes
      BY <1>1, DrivenTwo DEF IInv, TypeInv
  <1>3. node[k].timeout.due /\ node[k].timeout.run
      BY DEF Driven, LoneInv, RestInv
  <1>4. ~node'[n].hb.due /\ \A a \in Nodes \ {n} : /\ node'[a].hb = node[a].hb
                                                   /\ node'[a].cursor = node[a].cursor
      BY DrivenClocks
  <1>5. CASE Line = 1
      BY <1>2, <1>3, <1>4, <1>5 DEF ClashInv, RiseInv
  <1>6. CASE Line = 0
    <2>1. node[n].out = 0
      <3>1. PICK m \in Nodes : node[m].out # 1
          BY <1>6, LineValue DEF IInv, TypeInv
      <3>2. node'[m].out = 1
        <4>1. Line' = IF \A j \in Nodes : node'[j].out = 1 THEN 1 ELSE 0
            BY DEF Line, Level
        <4> QED BY <4>1
      <3>3. m = n
          BY <3>1, <3>2, DrivenClocks
      <3> QED BY <3>1, <3>3, LowIsInside
    <2>2. Inside(n) /\ n \in talkers
        BY <2>1, LowIsInside DEF LoneInv, SpokenInv
    <2>3. talkers # {n}
      <3> SUFFICES ASSUME talkers = {n} PROVE FALSE
          OBVIOUS
      <3>1. PhaseInv(n)
          BY DEF LoneInv, Alone
      <3> QED BY <1>3, <2>2, <3>1 DEF PhaseInv
    <2>4. PICK b \in talkers : b # n
        BY <2>2, <2>3
    <2>5. Hears(k) /\ ~node[k].edge
      <3>1. Hears(k)
          BY <1>3 DEF Hears
      <3> QED BY <1>2, <1>3, <1>6, <3>1 DEF ClashInv, BeganInv
    <2>6. Low(k) = TimeoutAt
        BY <1>3, <2>5, ClockFacts DEF Waits
    <2>7. PICK a \in talkers : Began(a, k)
        BY <1>2, <1>6, <2>5 DEF ClashInv, BeganInv
    <2>8. a = b
      <3>1. a # n
          BY <1>2, <2>2, <2>6, <2>7, BeganLate, DrivenClocks
      <3> QED BY <1>2, <2>2, <2>4, <2>7, <3>1 DEF Two
    <2>9. node[b].hb.due => node[b].cursor = 0
        BY <1>2, <2>6, <2>7, <2>8, BeganLate
    <2>10. \A c \in talkers : c = n \/ c = b
        BY <1>2, <2>2, <2>4 DEF Two
    <2> QED BY <1>2, <1>4, <2>2, <2>4, <2>9, <2>10
  <1> QED BY <1>1, <1>5, <1>6

\* What is known of the node that has been started.
LEMMA HalfBitLaunch ==
    ASSUME IInv, LoneInv, ClashInv, NEW n \in Nodes, NEW y, Driven(n, y), raced' = raced
    PROVE  LaunchInv'
  <1> SUFFICES ASSUME NEW k \in Nodes \ raced PROVE LaunchNode(k)'
      BY DEF LaunchInv
  <1>1. node'[k].pc = node[k].pc /\ node'[k].state = node[k].state /\ level' = level
      BY DEF Driven
  <1>2. LaunchNode(k)
      BY DEF ClashInv, LaunchInv
  <1>3. ASSUME Two', level = 0, Line' = 0, Hears(k)', node'[k].hb.run, ~Inside(k)'
        PROVE  Low(k)' <= Sent(k)'
    <2>1. Line \in {0, 1} /\ y.out \in {0, 1}
        BY DrivenLine
    <2>2. CASE Line = 1
      <3>1. y.out = 0
        <4> SUFFICES ASSUME y.out = 1 PROVE FALSE
            BY <2>1
        <4>1. node[n].out = 1
            BY <2>2, LineValue DEF IInv, TypeInv
        <4> QED BY <1>3, <2>2, <4>1, DrivenLine
      <3>2. ~node[k].timeout.due
          BY <1>3, <2>2, <3>1, FallDue
      <3>3. Low(k)' = 0
          BY <1>3, <2>2, <3>2, FallRewinds
      <3>4. k # n
          BY <1>3, <3>1, DrivenClocks
      <3>5. Sent(k)' \in Nat
        <4>1. Sent(k)' = Sent(k)
            BY <3>4, DrivenClocks
        <4> QED BY <4>1, ClockFacts
      <3> QED BY <3>3, <3>5
    <2>3. CASE Line = 0
      <3>1. Two
        <4>1. ~Quiet
            BY <2>3 DEF Quiet
        <4> QED BY <1>3, <4>1, DrivenTwo
      <3>2. Low(k)' = Low(k) /\ Hears(k)
          BY <1>3, <2>3, DrivenClocks
      <3>3. CASE k # n
        <4>1. /\ Sent(k)' = Sent(k) /\ node[k].hb.run /\ ~Inside(k)
            BY <1>3, <3>3, DrivenClocks
        <4> QED BY <1>2, <1>3, <2>3, <3>1, <3>2, <4>1 DEF LaunchNode
      <3>4. CASE k = n
        <4>1. y.cursor = node[n].cursor + 1 /\ node'[n].cursor = y.cursor
              /\ node[n].cursor \in Nat /\ node[n].hb.run
            BY <1>3, <3>4, DrivenClocks, LowIsInside
        <4>2. node[n].cursor = 0 /\ ~Inside(n)
            BY <1>3, <3>4, <4>1 DEF Inside
        <4>3. Low(n) <= Sent(n)
            BY <1>2, <1>3, <2>3, <3>1, <3>2, <3>4, <4>1, <4>2 DEF LaunchNode
        <4>4. Sent(n) = Since(n) /\ Since(n) = HalfBit
            BY <4>2, ClockFacts, DrivenClocks
        <4>5. Sent(n)' = HalfBit
            BY <4>1, <4>2, DrivenClocks
        <4> QED BY <3>2, <3>4, <4>3, <4>4, <4>5
      <3> QED BY <3>3, <3>4
    <2> QED BY <2>1, <2>2, <2>3
  <1> QED BY <1>1, <1>2, <1>3 DEF LaunchNode

\* A sender that is to stop still is: no other one lets the line fall before.
LEMMA HalfBitStops ==
    ASSUME IInv, LoneInv, ClashInv, NEW n \in Nodes, NEW y, Driven(n, y), raced' = raced
    PROVE  StopInv'
  <1> SUFFICES ASSUME Two', NEW m \in Nodes \ raced, Clashed(m)' PROVE Stops(m)'
      BY DEF StopInv
  <1>1. node'[m].state = node[m].state /\ node[m].state = "COLLISION"
      BY DEF Driven, Clashed
  <1>2. m # n /\ Clashed(m)
    <2>1. m # n
        BY <1>1, DrivenClocks DEF Clashed
    <2> QED BY <1>1, <2>1, DrivenClocks DEF Clashed
  <1>3. ~Quiet
      BY <1>1 DEF LoneInv, KeptInv, Quiet
  <1>4. /\ Two /\ talkers \subseteq talkers' /\ talkers' \subseteq talkers \cup {n}
        /\ y.out = 0 => \A a, b \in talkers : a # b => n \in talkers
        /\ y.out = 1 => talkers' = talkers
      BY <1>3, DrivenTwo
  <1>5. Stops(m) /\ m \in talkers
    <2>1. Stops(m)
        BY <1>2, <1>4 DEF ClashInv, StopInv
    <2> QED BY <2>1 DEF Stops, LoneInv, SpokenInv
  <1>6. /\ node'[m].out = node[m].out /\ Inside(m)' /\ Since(m)' = Since(m)
        /\ Since(m) \in Nat /\ Since(m) <= HalfBit /\ HalfBit \in Nat
    <2>1. node'[m].out = node[m].out /\ Inside(m)' /\ Since(m)' = Since(m)
        BY <1>2, <1>5, DrivenClocks DEF Stops
    <2> QED BY <2>1, ClockFacts
  <1>7. \E a, b \in talkers : a # b
    <2>1. CollisionHasTwoParties
        BY LoneParties
    <2> QED BY <1>1, <2>1 DEF CollisionHasTwoParties
  <1>8. /\ node[n].hb.due /\ Since(n) = HalfBit /\ Since(n)' = 0 /\ ~node'[n].hb.due
        /\ (y.out = 0 => node[n].cursor >= 1) /\ node[n].cursor \in Nat
        /\ node[n].out \in {0, 1} /\ y.out \in {0, 1} /\ Line \in {0, 1} /\ Line' \in {0, 1}
        /\ y.out = node[n].out => Line' = Line
      BY DrivenClocks, LowIsInside, DrivenLine
  <1>9. ~(Line = 1 /\ Line' = 0)
    <2> SUFFICES ASSUME Line = 1, Line' = 0 PROVE FALSE
        OBVIOUS
    <2>1. node[m].out = 1 /\ node[n].out = 1
        BY LineValue DEF IInv, TypeInv
    <2>2. y.out = 0
        BY <1>8, <2>1
    <2>3. Behind(n, m)
        BY <1>2, <1>4, <1>5, <1>7, <2>1, <2>2 DEF Stops
    <2>4. Since(n) < Since(m)
        BY <1>8, <2>1, <2>2, <2>3 DEF Behind
    <2> QED BY <1>6, <1>8, <2>4
  <1>10. ASSUME node[m].out = 1, NEW k \in talkers' \ {m} PROVE Behind(k, m)'
    <2>1. CASE k # n
      <3>1. k \in talkers /\ k \in Nodes
          BY <1>4, <2>1 DEF IInv, TypeInv
      <3>2. Behind(k, m)
          BY <1>5, <1>10, <3>1 DEF Stops
      <3>3. /\ node'[k].out = node[k].out /\ node'[k].cursor = node[k].cursor
            /\ node'[k].hb = node[k].hb /\ Since(k)' = Since(k)
          BY <2>1, <3>1, DrivenClocks
      <3> QED BY <1>6, <3>2, <3>3 DEF Behind
    <2>2. CASE k = n
      <3>1. node'[n].out = y.out
          BY DrivenClocks
      <3>2. y.out = 1 => 0 < Since(m)
        <4> SUFFICES ASSUME y.out = 1 PROVE 0 < Since(m)
            OBVIOUS
        <4>1. Behind(n, m)
            BY <1>4, <1>5, <1>10, <2>2 DEF Stops
        <4> QED BY <1>6, <1>8, <4>1 DEF Behind
      <3> QED BY <1>6, <1>8, <2>2, <3>1, <3>2 DEF Behind
    <2> QED BY <2>1, <2>2
  <1>11. /\ node'[m].edge <=> (Line' # Line \/ node[m].edge)
         /\ node'[m].isHigh = node[m].isHigh /\ node'[m].timeout = node[m].timeout
      BY DEF Driven
  <1>12. node'[m].edge => Line' = 1
      BY <1>5, <1>8, <1>9, <1>11 DEF Stops
  <1> QED BY <1>5, <1>6, <1>10, <1>11, <1>12 DEF Stops

-----------------------------------------------------------------------------
(* Two senders: the theorem.                                               *)

\* After reset the line is high and no node has detected a collision.
LEMMA InitClash == Init => ClashInv
  <1> SUFFICES ASSUME Init PROVE ClashInv
      OBVIOUS
  <1>1. Fresh.state = "IDLE" /\ Fresh.out = 1 /\ Fresh.pc = "idle"
      BY DEF Fresh
  <1>2. level = 1 /\ \A n \in Nodes : node[n] = Fresh
      BY DEF Init
  <1>3. Line = 1
      BY <1>1, <1>2 DEF Line, Level
  <1> QED BY <1>1, <1>2, <1>3
      DEF ClashInv, FellInv, BeganInv, LaunchInv, LaunchNode, RiseInv, StopInv, Clashed

\* Every step keeps the invariant.
LEMMA NextClash == IInv /\ LoneInv /\ ClashInv /\ [Next]_vars => ClashInv'
  <1> SUFFICES ASSUME IInv, LoneInv, ClashInv, [Next]_vars PROVE ClashInv'
      OBVIOUS
  <1>1. CASE Tick
      BY <1>1, TickClash
  <1>2. ASSUME NEW n \in Nodes, NetworkTx(n) \/ NetworkTxNothing(n) \/ Main(n)
        PROVE  ClashInv'
    <2>1. Local(n) /\ MainEffect(node[n], node'[n])
        BY <1>2, MainSteps
    <2>2. raced' = raced
        BY <1>2 DEF NetworkTx, NetworkTxNothing, Main, TestQueue, TestState, TestBackoff,
                    Test, Start, At, traffic
    <2> QED BY <2>1, <2>2, SilentClash DEF MainEffect
  <1>3. ASSUME NEW n \in Nodes, Handler(n)
        PROVE  ClashInv'
    <2>1. CASE ReadEdge(n)
      <3>1. raced' = raced
          BY <2>1 DEF ReadEdge, traffic
      <3> QED BY <2>1, <3>1, ReadSteps, EdgeClash
    <2>2. CASE UseEdge(n)
      <3>1. raced' = raced
          BY <2>2 DEF UseEdge, traffic
      <3> QED BY <2>2, <3>1, UseSteps, EdgeClash
    <2>3. CASE ServeTimeout(n)
      <3>1. raced' = IF Line = level THEN raced ELSE raced \cup {n}
          BY <2>3 DEF ServeTimeout
      <3>2. Local(n) /\ TimeoutEffect(node[n], node'[n])
          BY <2>3, TimeoutSteps
      <3> QED BY <3>1, <3>2, TimeoutClash
    <2>4. CASE ServeSample(n)
      <3>1. Local(n) /\ SampleEffect(node[n], node'[n]) /\ raced' = raced
          BY <2>4, SampleSteps DEF ServeSample, traffic
      <3> QED BY <3>1, SilentClash DEF SampleEffect
    <2>5. CASE ServeBackoff(n)
      <3>1. Local(n) /\ BackoffEffect(node[n], node'[n]) /\ raced' = raced
          BY <2>5, BackoffSteps DEF ServeBackoff, traffic
      <3> QED BY <3>1, SilentClash DEF BackoffEffect
    <2>6. CASE ServeHalfBit(n)
      <3>1. PICK y : Driven(n, y)
          BY <2>6, HalfBitSteps
      <3>2. raced' = raced
          BY <2>6 DEF ServeHalfBit
      <3>3. FellInv' /\ BeganInv'
          BY <3>1, HalfBitBegan
      <3>4. RiseInv'
          BY <3>1, HalfBitRise
      <3>5. LaunchInv'
          BY <3>1, <3>2, HalfBitLaunch
      <3>6. StopInv'
          BY <3>1, <3>2, HalfBitStops
      <3> QED BY <3>3, <3>4, <3>5, <3>6 DEF ClashInv
    <2> QED BY <1>3, <2>1, <2>2, <2>3, <2>4, <2>5, <2>6 DEF Handler
  <1>4. CASE UNCHANGED vars
    <2>1. node' = node /\ talkers' = talkers /\ level' = level /\ raced' = raced
        BY <1>4 DEF vars, traffic
    <2>2. Line' = Line /\ (Two' <=> Two)
        BY <2>1 DEF Line, Level, Two
    <2>3. \A m \in Nodes : /\ (Inside(m)' <=> Inside(m)) /\ (Hears(m)' <=> Hears(m))
                           /\ Since(m)' = Since(m) /\ Sent(m)' = Sent(m) /\ Low(m)' = Low(m)
                           /\ (Waits(m)' <=> Waits(m)) /\ (Clashed(m)' <=> Clashed(m))
        BY <2>1 DEF Inside, Hears, Since, Sent, Low, Waits, Clashed
    <2>4. talkers \subseteq Nodes
        BY DEF IInv, TypeInv
    <2>5. \A a, k \in Nodes : (Began(a, k)' <=> Began(a, k)) /\ (Behind(a, k)' <=> Behind(a, k))
        BY <2>1, <2>3 DEF Began, Left, Behind
    <2>6. FellInv' /\ BeganInv' /\ RiseInv'
        BY <2>1, <2>2, <2>3, <2>4, <2>5 DEF ClashInv, FellInv, BeganInv, RiseInv
    <2>7. LaunchInv'
        BY <2>1, <2>2, <2>3 DEF ClashInv, LaunchInv, LaunchNode
    <2>8. \A m \in Nodes : Stops(m) => Stops(m)'
        BY <2>1, <2>2, <2>3, <2>4, <2>5 DEF Stops
    <2>9. StopInv'
        BY <2>1, <2>2, <2>3, <2>8 DEF ClashInv, StopInv
    <2> QED BY <2>6, <2>7, <2>9 DEF ClashInv
  <1> QED BY <1>1, <1>2, <1>3, <1>4 DEF Next

\* What a step does to the state of a node that is to stop.
LEMMA StateKept ==
    ASSUME IInv, NEW n \in Nodes, Stops(n), node[n].state = "COLLISION", Next
    PROVE  node'[n].state = "COLLISION"
  <1>1. CASE Tick
      BY <1>1, TickSteps
  <1>2. ASSUME NEW k \in Nodes, NetworkTx(k) \/ NetworkTxNothing(k) \/ Main(k)
        PROVE  node'[n].state = "COLLISION"
      BY <1>2, MainSteps DEF MainEffect, Silent, Local
  <1>3. ASSUME NEW k \in Nodes, Handler(k)
        PROVE  node'[n].state = "COLLISION"
    <2>1. node[n].isHigh # 0 /\ ~node[n].timeout.due
        BY DEF Stops
    <2>2. CASE ReadEdge(k)
        BY <2>2, ReadSteps DEF ReadEffect, Local
    <2>3. CASE UseEdge(k)
        BY <2>1, <2>3, UseSteps DEF UseEffect, Local
    <2>4. CASE ServeTimeout(k)
        BY <2>1, <2>4, TimeoutSteps DEF TimeoutEffect, Local
    <2>5. CASE ServeSample(k)
        BY <2>5, SampleSteps DEF SampleEffect, Silent, Local
    <2>6. CASE ServeBackoff(k)
        BY <2>6, BackoffSteps DEF BackoffEffect, Silent, Local
    <2>7. CASE ServeHalfBit(k)
        BY <2>7, HalfBitSteps DEF Driven
    <2> QED BY <1>3, <2>2, <2>3, <2>4, <2>5, <2>6, <2>7 DEF Handler
  <1> QED BY <1>1, <1>2, <1>3 DEF Next

\* The invariant holds always.
LEMMA ClashInvariance == SafetySpec => [](IInv /\ ClashInv)
  <1>1. Init => ClashInv
      BY InitClash
  <1>2. (IInv /\ LoneInv) /\ ClashInv /\ [Next]_vars => ClashInv'
      BY NextClash
  <1> QED BY <1>1, <1>2, LoneInvariance, PTL DEF SafetySpec

\* Of two senders that collide, one that has detected it stops at its next half-bit,
\* for any frames and however many nodes listen: neither an edge of the other one nor
\* a timeout makes it forget the collision before.
THEOREM CollisionsStopSenders == SafetySpec => CollisionStopsSender
  <1> DEFINE Stopping == \A n \in Nodes \ raced :
          (\E a, b \in Nodes : talkers \subseteq {a, b})
                 /\ node[n].state = "COLLISION" /\ node[n].hb.run /\ node'[n].hb.run
             => node'[n].state = "COLLISION"
  <1>1. (IInv /\ ClashInv) /\ [Next]_vars => [Stopping]_vars
    <2> SUFFICES ASSUME IInv, ClashInv, Next, NEW n \in Nodes \ raced,
                        \E a, b \in Nodes : talkers \subseteq {a, b},
                        node[n].state = "COLLISION", node[n].hb.run
                 PROVE  node'[n].state = "COLLISION"
        OBVIOUS
    <2>1. Stops(n)
        BY DEF ClashInv, StopInv, Two, Clashed
    <2> QED BY <2>1, StateKept
  <1> HIDE DEF Stopping
  <1>2. SafetySpec => [][Stopping]_vars
      BY <1>1, ClashInvariance, PTL DEF SafetySpec
  <1> QED BY <1>2 DEF CollisionStopsSender, Stopping
=============================================================================
