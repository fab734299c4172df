----------------------------- MODULE Bus_proofs -----------------------------
(***************************************************************************)
(* Proofs about Bus, for any number of nodes and any frames: its types,    *)
(* that a node which calls the channel idle is right, that the half-bit    *)
(* timer runs only over a queue with a frame, and what TxQueue assumes.    *)
(*                                                                         *)
(* The argument is one about time.  While a node sends, no high phase of   *)
(* the line lasts longer than two half-bits, which is less than the        *)
(* timeout, so no timer that is rewound by the edges expires on a high     *)
(* line; within an instant, a line that was high can only fall.            *)
(***************************************************************************)
EXTENDS Bus, TLAPS

TimerType == [run : BOOLEAN, count : Nat, period : Nat, due : BOOLEAN, raw : BOOLEAN]

PCs == {"idle", "queue", "state", "backoff", "start"}

NodeType == [state : States, out : {0, 1}, edge : BOOLEAN, isHigh : {0, 1, None},
             hb : TimerType, timeout : TimerType, sample : BOOLEAN,
             backoff : TimerType, cursor : Nat, queued : Nat,
             rx : Seq({0, 1}), got : Seq({0, 1}), pc : PCs]

\* What holds of a node on its own: its timers, where it is in its frame `f`.
TimersInv(x) ==
    /\ TimerOK(x.hb) /\ TimerOK(x.timeout) /\ TimerOK(x.backoff)
    /\ x.hb.period = HalfBit /\ x.timeout.period = TimeoutAt /\ ~x.timeout.raw
    /\ x.hb.due => x.hb.run /\ x.hb.count = 0 /\ ~x.hb.raw

CursorInv(x, f) ==
    /\ x.cursor <= Len(f)
    /\ x.cursor = 0 => x.out = 1
    /\ x.cursor > 0 => x.out = f[x.cursor] /\ x.hb.run /\ ~x.hb.raw

RxInv(x) == Len(x.rx) \in 1 .. MaxBytes * ByteBits + 1

\* A handler at work has rewound the timeout in this instant.
HandlerInv(x) == x.isHigh # None => x.edge /\ x.timeout.run /\ x.timeout.count = 0

NodeInv(x, f) == TimersInv(x) /\ CursorInv(x, f) /\ RxInv(x) /\ HandlerInv(x)

TypeInv ==
    /\ node \in [Nodes -> NodeType]
    /\ calls \in [Nodes -> Nat]
    /\ level \in {0, 1} /\ raced \subseteq Nodes /\ talkers \subseteq Nodes
    /\ aired \in {Frame[n] : n \in Nodes} \cup {<< >>}
    /\ \A n \in Nodes : /\ NodeInv(node[n], Frame[n])
                        /\ calls[n] <= MaxCalls[n] /\ node[n].queued <= calls[n]

\* In an instant that began with a high line the line only falls: a node that
\* has pulled it low is not due again.
FallInv == level = 1 => \A n \in Nodes : /\ node[n].out = 0 => ~node[n].hb.due
                                         /\ node[n].edge => Line = 0
                                         /\ node[n].isHigh # 1

\* A low line is known to every node, or about to be.
LowInv == \A n \in Nodes \ raced :
              /\ level = 0 => node[n].state # "IDLE"
              /\ Line = 0 => node[n].state # "IDLE" \/ node[n].edge

Inside(m) == node[m].cursor >= 2

\* So is a frame that has begun to be heard.
HeardInv == \A n \in Nodes \ raced, m \in Nodes :
                Inside(m) => \/ node[n].state # "IDLE"
                             \/ /\ level = 1 /\ Line = 0
                                /\ node[m].cursor = 2 /\ ~node[m].hb.due

\* How long a node has been driving a high line inside its frame.
Elapsed(m) == (IF Frame[m][node[m].cursor - 1] = 1 THEN HalfBit ELSE 0)
              + (IF node[m].hb.due THEN HalfBit ELSE node[m].hb.count)

\* No timeout counts longer than that.
ClockInv == \A n, m \in Nodes :
                Inside(m) /\ Line = 1 /\ (node[n].edge => node[n].isHigh # None)
                    => node[n].timeout.count <= Elapsed(m)

NoTimeoutInv == \A n, m \in Nodes :
                    Inside(m) /\ Line = 1 /\ level = 1 => ~node[n].timeout.due

\* Main between its tests: the frame it has seen in the queue is still there.
MainNode(x, before, now) ==
    /\ x.pc \in {"backoff", "start"} =>
           /\ x.queued > 0
           /\ x.cursor < 2 \/ (x.cursor = 2 /\ ~x.hb.due)
    /\ x.pc = "state" /\ x.queued = 0 =>
           /\ x.state # "IDLE"
           /\ before = 1 => now = 0 \/ ~x.timeout.due

MainInv == \A n \in Nodes \ raced : MainNode(node[n], level, Line)

IInv == /\ TypeInv /\ FallInv /\ LowInv /\ HeardInv /\ ClockInv /\ NoTimeoutInv
        /\ MainInv /\ SendsQueued

-----------------------------------------------------------------------------
(* Timers and the receive index.                                           *)

\* What the operators of a timer return.
LEMMA TimerOps ==
    ASSUME NEW t \in TimerType, TimerOK(t)
    PROVE  /\ \A s \in {Rewound(t), Started(t), Halted(t), Served(t), Counted(t)} :
                  s \in TimerType /\ TimerOK(s) /\ s.period = t.period /\ (s.raw => t.raw)
           /\ Rewound(t).count = 0 /\ Rewound(t).run = t.run /\ Rewound(t).due = t.due
           /\ Started(t).count = t.count /\ Started(t).run /\ Started(t).due = t.due
           /\ Halted(t).count = t.count /\ ~Halted(t).run /\ Halted(t).due = t.due
           /\ Served(t).count = t.count /\ Served(t).run = t.run /\ ~Served(t).due
           /\ Counted(t).run = t.run
  <1> DEFINE OK(s) == s \in TimerType /\ TimerOK(s) /\ s.period = t.period /\ (s.raw => t.raw)
  <1>1. OK(Rewound(t)) /\ Rewound(t).count = 0 /\ Rewound(t).run = t.run /\ Rewound(t).due = t.due
      BY DEF TimerType, TimerOK, Rewound
  <1>2. OK(Started(t)) /\ Started(t).count = t.count /\ Started(t).run /\ Started(t).due = t.due
      BY DEF TimerType, TimerOK, Started
  <1>3. OK(Halted(t)) /\ Halted(t).count = t.count /\ ~Halted(t).run /\ Halted(t).due = t.due
      BY DEF TimerType, TimerOK, Halted
  <1>4. OK(Served(t)) /\ Served(t).count = t.count /\ Served(t).run = t.run /\ ~Served(t).due
      BY DEF TimerType, TimerOK, Served
  <1>5. OK(Counted(t)) /\ Counted(t).run = t.run
    <2>1. CASE ~t.run \/ t.period = 0
        BY <2>1 DEF TimerType, TimerOK, Counted
    <2>2. CASE ~(~t.run \/ t.period = 0) /\ (t.raw \/ t.count + 1 = t.period)
        BY <2>2 DEF TimerType, TimerOK, Counted
    <2>3. CASE ~(~t.run \/ t.period = 0) /\ ~(t.raw \/ t.count + 1 = t.period)
      <3>1. Counted(t) = [t EXCEPT !.count = t.count + 1]
          BY <2>3 DEF Counted
      <3>2. t.count + 1 < t.period
          BY <2>3 DEF TimerType, TimerOK
      <3> QED BY <3>1, <3>2 DEF TimerType, TimerOK
    <2> QED BY <2>1, <2>2, <2>3
  <1> QED BY <1>1, <1>2, <1>3, <1>4, <1>5

\* Where a counter goes in a tick.
LEMMA TimerTick ==
    ASSUME NEW t \in TimerType, TimerOK(t), ~t.due, ~t.raw, t.period > 0
    PROVE  /\ ~t.run => Counted(t) = t
           /\ t.run /\ t.count + 1 # t.period =>
                  Counted(t).count = t.count + 1 /\ ~Counted(t).due
           /\ t.run /\ t.count + 1 = t.period => Counted(t).count = 0 /\ Counted(t).due
    BY DEF TimerType, TimerOK, Counted

\* The whole bytes of a number of bits are at most these bits.
LEMMA WholeBytes ==
    ASSUME NEW l \in Nat, NEW b \in Nat, b > 0
    PROVE  b * (l \div b) \in 0 .. l
  <1>1. l \div b \in Int /\ l = b * (l \div b) + (l % b) /\ l % b \in 0 .. b - 1
      OBVIOUS
  <1>2. l \div b >= 0
      OBVIOUS
  <1> QED BY <1>1, <1>2

RxSame(x, y) == \E r, g \in Seq({0, 1}) : y = [x EXCEPT !.rx = r, !.got = g]

\* The operations of the receive queue keep the type of its element and of its
\* index, and touch nothing else of the node.
LEMMA RxOps ==
    ASSUME NEW x \in NodeType, RxInv(x), NEW b \in {0, 1}
    PROVE  /\ \A y \in {RxPushBit(x, b), RxPush(x), RxReset(x)} :
                  y \in NodeType /\ RxInv(y) /\ RxSame(x, y)
           /\ x.rx[Len(x.rx)] \in {0, 1}
  <1> DEFINE M == MaxBytes * ByteBits
  <1>0. M \in Nat /\ x.rx \in Seq({0, 1}) /\ x.got \in Seq({0, 1})
      BY BufferAssumption DEF NodeType
  <1>1. RxInv(x) <=> Len(x.rx) \in 1 .. M + 1
      BY DEF RxInv
  <1>6. ASSUME NEW y, y.rx = << 1 >> PROVE RxInv(y)
      BY <1>0, <1>6 DEF RxInv
  <1> HIDE DEF M
  <1>2. RxPushBit(x, b) \in NodeType /\ RxInv(RxPushBit(x, b)) /\ RxSame(x, RxPushBit(x, b))
    <2>1. CASE Len(x.rx) > M
      <3>1. RxPushBit(x, b) = x
          BY <2>1 DEF RxPushBit, M
      <3>2. x = [x EXCEPT !.rx = x.rx, !.got = x.got]
          BY DEF NodeType
      <3> QED BY <1>0, <3>1, <3>2 DEF RxSame
    <2>2. CASE ~(Len(x.rx) > M)
      <3>1. RxPushBit(x, b) = [x EXCEPT !.rx = Append(x.rx, b)]
          BY <2>2 DEF RxPushBit, M
      <3>2. Append(x.rx, b) \in Seq({0, 1}) /\ Len(Append(x.rx, b)) = Len(x.rx) + 1
          BY <1>0
      <3>3. RxPushBit(x, b) \in NodeType /\ RxPushBit(x, b).rx = Append(x.rx, b)
          BY <3>1, <3>2 DEF NodeType
      <3>4. RxInv(RxPushBit(x, b))
          BY <1>0, <1>1, <2>2, <3>2, <3>3 DEF RxInv, M
      <3>5. RxPushBit(x, b) = [x EXCEPT !.rx = Append(x.rx, b), !.got = x.got]
          BY <3>1 DEF NodeType
      <3> QED BY <1>0, <3>2, <3>3, <3>4, <3>5 DEF RxSame
    <2> QED BY <2>1, <2>2
  <1>3. RxReset(x) \in NodeType /\ RxInv(RxReset(x)) /\ RxSame(x, RxReset(x))
    <2>1. <<1>> \in Seq({0, 1}) /\ Len(<<1>>) = 1
        OBVIOUS
    <2>2. RxReset(x) \in NodeType /\ RxReset(x).rx = <<1>>
        BY <2>1 DEF NodeType, RxReset
    <2>3. RxReset(x) = [x EXCEPT !.rx = <<1>>, !.got = x.got]
        BY DEF NodeType, RxReset
    <2> QED BY <1>0, <1>6, <2>1, <2>2, <2>3 DEF RxSame
  <1>4. RxPush(x) \in NodeType /\ RxInv(RxPush(x)) /\ RxSame(x, RxPush(x))
    <2>1. CASE Bytes(x.rx) < MinBytes
        BY <1>3, <2>1 DEF RxPush
    <2>2. CASE ~(Bytes(x.rx) < MinBytes)
      <3> DEFINE whole == ByteBits * Bytes(x.rx)
                 g == SubSeq(x.rx, 1, whole)
      <3>1. whole \in 0 .. Len(x.rx)
        <4>1. Len(x.rx) \in Nat /\ ByteBits \in Nat /\ ByteBits > 0
            BY <1>0, BufferAssumption
        <4>2. ByteBits * (Len(x.rx) \div ByteBits) \in 0 .. Len(x.rx)
            BY <4>1, WholeBytes, Zenon
        <4> QED BY <4>2 DEF Bytes
      <3>3. g \in Seq({0, 1})
          BY <1>0, <3>1
      <3>4. RxPush(x) = [x EXCEPT !.got = g, !.rx = <<1>>]
          BY <2>2 DEF RxPush, RxReset
      <3> HIDE DEF g
      <3>5. <<1>> \in Seq({0, 1}) /\ Len(<<1>>) = 1
          OBVIOUS
      <3>6. RxPush(x) \in NodeType /\ RxPush(x).rx = <<1>>
          BY <3>3, <3>4, <3>5 DEF NodeType
      <3>7. RxPush(x) = [x EXCEPT !.rx = <<1>>, !.got = g]
          BY <3>4 DEF NodeType
      <3> QED BY <1>0, <1>6, <3>3, <3>5, <3>6, <3>7 DEF RxSame
    <2> QED BY <2>1, <2>2
  <1>5. x.rx[Len(x.rx)] \in {0, 1}
      BY <1>0, <1>1
  <1> QED BY <1>2, <1>3, <1>4, <1>5

-----------------------------------------------------------------------------
(* A node and its operators.  Most of them leave alone what the line and   *)
(* the other nodes can see of it.                                          *)

\* The half-bit timer is the same, or has been started.
Begun(h, g) == g = h \/ (~h.run /\ g.run /\ g.count = 0 /\ g.raw = h.raw /\ g.due = h.due)

\* What network_start_tx may change: the half-bit timer, if it stands still
\* and the queue holds a frame.
StartFrame(x, y) == /\ y \in NodeType
                    /\ y.state = x.state /\ y.out = x.out /\ y.edge = x.edge
                    /\ y.isHigh = x.isHigh /\ y.timeout = x.timeout
                    /\ y.cursor = x.cursor /\ y.queued = x.queued /\ y.pc = x.pc
                    /\ y.hb.due = x.hb.due /\ y.hb.raw = x.hb.raw
                    /\ x.hb.run => y.hb = x.hb
                    /\ Begun(x.hb, y.hb)
                    /\ y.hb.run => x.hb.run \/ x.queued > 0

\* Starting the half-bit timer keeps the timers and the cursor consistent, and
\* changes nothing if the timer runs.
LEMMA LaunchedOK ==
    ASSUME NEW x \in NodeType, NEW f, NodeInv(x, f)
    PROVE  /\ Launched(x) \in NodeType /\ NodeInv(Launched(x), f)
           /\ Launched(x) = [x EXCEPT !.hb = Launched(x).hb]
           /\ x.hb.run => Launched(x) = x
           /\ Launched(x).hb.due = x.hb.due /\ Launched(x).hb.raw = x.hb.raw
           /\ Begun(x.hb, Launched(x).hb)
  <1>1. CASE x.hb.run
      BY <1>1 DEF Launched, NodeType, Begun
  <1>2. CASE ~x.hb.run
    <2> DEFINE h == Started(Rewound(x.hb))
    <2>1. h \in TimerType /\ TimerOK(h) /\ h.period = x.hb.period /\ h.run /\ h.count = 0
          /\ h.due = x.hb.due /\ h.raw = x.hb.raw
      <3>1. x.hb \in TimerType /\ TimerOK(x.hb)
          BY DEF NodeType, NodeInv, TimersInv
      <3> QED BY <3>1 DEF TimerType, TimerOK, Started, Rewound
    <2>2. Launched(x) = [x EXCEPT !.hb = h]
        BY <1>2 DEF Launched
    <2> HIDE DEF h
    <2>3. Launched(x) \in NodeType
        BY <2>1, <2>2 DEF NodeType
    <2>4. /\ Launched(x).hb = h /\ Launched(x).timeout = x.timeout
          /\ Launched(x).backoff = x.backoff /\ Launched(x).cursor = x.cursor
          /\ Launched(x).out = x.out /\ Launched(x).rx = x.rx
          /\ Launched(x).isHigh = x.isHigh /\ Launched(x).edge = x.edge
        BY <2>2 DEF NodeType
    <2>5. NodeInv(Launched(x), f)
      <3>1. TimersInv(Launched(x))
          BY <1>2, <2>1, <2>4 DEF NodeInv, TimersInv
      <3>2. CursorInv(Launched(x), f)
          BY <1>2, <2>4 DEF NodeInv, CursorInv
      <3>3. RxInv(Launched(x)) /\ HandlerInv(Launched(x))
          BY <2>4 DEF NodeInv, RxInv, HandlerInv
      <3> QED BY <3>1, <3>2, <3>3 DEF NodeInv
    <2>6. Begun(x.hb, Launched(x).hb)
        BY <1>2, <2>1, <2>4 DEF Begun
    <2> QED BY <1>2, <2>1, <2>2, <2>3, <2>4, <2>5, <2>6
  <1> QED BY <1>1, <1>2

\* So does network_start_tx, which starts the timer for a queued frame only.
LEMMA StartTxOK ==
    ASSUME NEW x \in NodeType, NEW f, NodeInv(x, f)
    PROVE  NodeInv(StartTx(x), f) /\ StartFrame(x, StartTx(x))
  <1>1. CASE HasFrame(x) /\ ChannelIdle(x) /\ BackedOff(x)
    <2>1. StartTx(x) = Launched(x) /\ x.queued > 0
        BY <1>1 DEF StartTx, HasFrame
    <2> DEFINE y == Launched(x)
    <2>2. /\ y \in NodeType /\ NodeInv(y, f) /\ y = [x EXCEPT !.hb = y.hb]
          /\ x.hb.run => y = x
          /\ y.hb.due = x.hb.due /\ y.hb.raw = x.hb.raw /\ Begun(x.hb, y.hb)
        BY LaunchedOK
    <2> HIDE DEF y
    <2>3. /\ y.state = x.state /\ y.out = x.out /\ y.edge = x.edge
          /\ y.isHigh = x.isHigh /\ y.timeout = x.timeout
          /\ y.cursor = x.cursor /\ y.queued = x.queued /\ y.pc = x.pc
        BY <2>2 DEF NodeType
    <2>4. StartFrame(x, y)
        BY <2>1, <2>2, <2>3 DEF StartFrame
    <2> QED BY <2>1, <2>2, <2>4 DEF y
  <1>2. CASE ~(HasFrame(x) /\ ChannelIdle(x) /\ BackedOff(x))
      BY <1>2 DEF StartTx, StartFrame, Begun
  <1> QED BY <1>1, <1>2

\* What state_set may change besides the state.
StateFrame(x, y, s) == /\ y \in NodeType /\ y.state = s
                       /\ y.out = x.out /\ y.edge = x.edge
                       /\ y.isHigh = x.isHigh /\ y.timeout = x.timeout
                       /\ y.cursor = x.cursor /\ y.queued = x.queued /\ y.pc = x.pc
                       /\ y.hb.due = x.hb.due /\ y.hb.raw = x.hb.raw
                       /\ x.hb.run => y.hb = x.hb
                       /\ Begun(x.hb, y.hb)
                       /\ y.hb.run => x.hb.run \/ x.queued > 0

\* So does state_set, and it leaves the node in the state it was given.
LEMMA SetStateOK ==
    ASSUME NEW x \in NodeType, NEW f, NodeInv(x, f), NEW s \in States
    PROVE  NodeInv(SetState(x, s), f) /\ StateFrame(x, SetState(x, s), s)
  <1> DEFINE z == [x EXCEPT !.state = s]
  <1>1. z \in NodeType
      BY DEF NodeType
  <1>2. NodeInv(z, f)
      BY DEF NodeType, NodeInv, TimersInv, CursorInv, RxInv, HandlerInv
  <1>3. StartFrame(z, z) /\ NodeInv(StartTx(z), f) /\ StartFrame(z, StartTx(z))
      BY <1>1, <1>2, StartTxOK DEF StartFrame, Begun
  <1>4. /\ z.state = s /\ z.out = x.out /\ z.edge = x.edge /\ z.isHigh = x.isHigh
        /\ z.timeout = x.timeout /\ z.cursor = x.cursor /\ z.queued = x.queued
        /\ z.pc = x.pc /\ z.hb = x.hb
      BY DEF NodeType
  <1>5. SetState(x, s) = StartTx(z) \/ SetState(x, s) = z
      BY DEF SetState
  <1> HIDE DEF z
  <1>6. \A y \in {z, StartTx(z)} : NodeInv(y, f) /\ y \in NodeType /\ y.state = s /\ StartFrame(z, y)
      BY <1>1, <1>2, <1>3, <1>4 DEF StartFrame
  <1> QED BY <1>4, <1>5, <1>6 DEF StateFrame, StartFrame, z

-----------------------------------------------------------------------------
(* The line.                                                               *)

\* The line is high when no node pulls it low.
LEMMA LineValue ==
    ASSUME node \in [Nodes -> NodeType]
    PROVE  Line \in {0, 1} /\ (Line = 1 <=> \A m \in Nodes : node[m].out = 1)
    BY DEF Line, Level

\* What a step of node n does to the nodes.
LEMMA StepEffect ==
    ASSUME node \in [Nodes -> NodeType], NEW n \in Nodes, NEW y \in NodeType, Step(n, y)
    PROVE  /\ node' \in [Nodes -> NodeType]
           /\ Line' = Level([node EXCEPT ![n] = y])
           /\ Line' = Line => node' = [node EXCEPT ![n] = y]
           /\ Line' # Line => node' = [m \in Nodes |-> [[node EXCEPT ![n] = y][m] EXCEPT !.edge = TRUE]]
  <1> DEFINE ns == [node EXCEPT ![n] = y]
  <1>1. ns \in [Nodes -> NodeType]
      OBVIOUS
  <1> DEFINE es == [m \in Nodes |-> [ns[m] EXCEPT !.edge = TRUE]]
  <1>2. node' = IF Level(ns) = Line THEN ns ELSE es
      BY DEF Step
  <1> HIDE DEF ns
  <1>3. es \in [Nodes -> NodeType]
      BY <1>1 DEF NodeType
  <1>4. \A m \in Nodes : es[m].out = ns[m].out
      BY <1>1 DEF NodeType
  <1>5. Level(es) = Level(ns)
      BY <1>4 DEF Level
  <1> HIDE DEF es
  <1>6. Line' = Level(ns)
      BY <1>2, <1>5 DEF Line
  <1> QED BY <1>1, <1>2, <1>3, <1>6 DEF ns, es

\* A step that does not drive the line and only does to node n what leaves the
\* invariant true.
QuietStep(n, y) ==
    /\ Step(n, y) /\ NodeInv(y, Frame[n])
    /\ level' = level /\ raced \subseteq raced' /\ raced' \subseteq Nodes
    /\ talkers' = talkers /\ aired' = aired
    /\ y.out = node[n].out /\ y.cursor = node[n].cursor
    /\ y.hb.due = node[n].hb.due /\ (node[n].hb.run => y.hb = node[n].hb)
    /\ y.edge => node[n].edge
    /\ level = 1 => y.isHigh # 1
    /\ y.timeout.due => node[n].timeout.due
    /\ (y.edge => y.isHigh # None) =>
           \/ y.timeout.count = 0
           \/ /\ y.timeout.count = node[n].timeout.count
              /\ node[n].edge => node[n].isHigh # None
    /\ n \notin raced' =>
           /\ level = 0 => y.state # "IDLE"
           /\ Line = 0 => y.state # "IDLE" \/ y.edge
           /\ y.state = "IDLE" => node[n].state = "IDLE" \/ \A m \in Nodes : ~Inside(m)
           /\ MainNode(y, level, Line)
           /\ y.hb.run => y.queued > 0

\* The time a node has driven a high line is a number of ticks.
LEMMA ElapsedNat ==
    ASSUME node \in [Nodes -> NodeType], NEW m \in Nodes
    PROVE  Elapsed(m) \in Nat
  <1>1. node[m].hb.count \in Nat /\ HalfBit \in Nat
      BY TimingAssumption DEF NodeType, TimerType
  <1>2. (IF Frame[m][node[m].cursor - 1] = 1 THEN HalfBit ELSE 0) \in Nat
      BY <1>1
  <1>3. (IF node[m].hb.due THEN HalfBit ELSE node[m].hb.count) \in Nat
      BY <1>1
  <1> QED BY <1>2, <1>3 DEF Elapsed

\* A step of one node that leaves its output alone and its frame where it is
\* keeps the invariant.
LEMMA QuietKeeps ==
    ASSUME IInv, NEW n \in Nodes, NEW y \in NodeType, QuietStep(n, y),
           calls' \in [Nodes -> Nat], y.queued <= calls'[n],
           \A m \in Nodes : calls[m] <= calls'[m] /\ calls'[m] <= MaxCalls[m]
    PROVE  IInv'
  <1>1. node \in [Nodes -> NodeType]
      BY DEF IInv, TypeInv
  <1>2. Line' = Line /\ node' = [node EXCEPT ![n] = y]
    <2> DEFINE ns == [node EXCEPT ![n] = y]
    <2>0. \A m \in Nodes : ns[m].out = node[m].out
        BY <1>1 DEF QuietStep
    <2> HIDE DEF ns
    <2>1. Level(ns) = Line
      <3>1. (\A m \in Nodes : ns[m].out = 1) <=> \A m \in Nodes : node[m].out = 1
          BY <2>0
      <3> QED BY <3>1, Zenon DEF Level, Line
    <2> USE DEF ns
    <2> QED BY <1>1, <2>1, StepEffect DEF QuietStep
  <1>3. /\ node' \in [Nodes -> NodeType] /\ node'[n] = y
        /\ \A m \in Nodes \ {n} : node'[m] = node[m]
      BY <1>1, <1>2
  <1>4. \A m \in Nodes : /\ Inside(m)' <=> Inside(m)
                         /\ node'[m].out = node[m].out /\ node'[m].cursor = node[m].cursor
                         /\ node'[m].hb.due = node[m].hb.due
                         /\ Inside(m) => Elapsed(m)' = Elapsed(m)
    <2> SUFFICES ASSUME NEW m \in Nodes
                 PROVE  /\ Inside(m)' <=> Inside(m)
                        /\ node'[m].out = node[m].out /\ node'[m].cursor = node[m].cursor
                        /\ node'[m].hb.due = node[m].hb.due
                        /\ Inside(m) => Elapsed(m)' = Elapsed(m)
        OBVIOUS
    <2>1. Inside(m) => node[m].hb.run
        BY <1>1 DEF IInv, TypeInv, NodeInv, CursorInv, Inside, NodeType
    <2>2. Inside(m) => node'[m].hb = node[m].hb
        BY <1>3, <2>1 DEF QuietStep
    <2>3. node'[m].out = node[m].out /\ node'[m].cursor = node[m].cursor
          /\ node'[m].hb.due = node[m].hb.due
        BY <1>3 DEF QuietStep
    <2> QED BY <2>2, <2>3 DEF Inside, Elapsed
  <1>5. TypeInv'
    <2>1. ASSUME NEW m \in Nodes
          PROVE  NodeInv(node'[m], Frame[m]) /\ calls'[m] <= MaxCalls[m]
                 /\ node'[m].queued <= calls'[m]
      <3>1. CASE m = n
          BY <1>3, <3>1 DEF QuietStep
      <3>2. CASE m # n
        <4>1. node[m].queued \in Nat /\ calls[m] \in Nat /\ calls'[m] \in Nat
            BY <1>1 DEF IInv, TypeInv, NodeType
        <4> QED BY <1>3, <3>2, <4>1 DEF IInv, TypeInv
      <3> QED BY <3>1, <3>2
    <2> QED BY <1>3, <2>1 DEF IInv, TypeInv, QuietStep
  <1>6. FallInv'
      BY <1>2, <1>3, <1>4 DEF IInv, FallInv, QuietStep
  <1>7. LowInv'
      BY <1>2, <1>3 DEF IInv, LowInv, QuietStep
  <1>8. HeardInv'
      BY <1>2, <1>3, <1>4 DEF IInv, HeardInv, QuietStep
  <1>9. ClockInv'
    <2> SUFFICES ASSUME NEW k \in Nodes, NEW m \in Nodes, Inside(m), Line = 1,
                        node'[k].edge => node'[k].isHigh # None
                 PROVE  node'[k].timeout.count <= Elapsed(m)
        BY <1>2, <1>4 DEF ClockInv
    <2>1. Elapsed(m) \in Nat
        BY <1>1, ElapsedNat
    <2>2. CASE k = n
        BY <1>3, <2>1, <2>2 DEF QuietStep, IInv, ClockInv
    <2>3. CASE k # n
        BY <1>3, <2>3 DEF IInv, ClockInv
    <2> QED BY <2>2, <2>3
  <1>10. NoTimeoutInv'
      BY <1>2, <1>3, <1>4 DEF IInv, NoTimeoutInv, QuietStep
  <1>11. MainInv'
      BY <1>2, <1>3 DEF IInv, MainInv, QuietStep
  <1>12. SendsQueued'
      BY <1>3 DEF IInv, SendsQueued, QuietStep
  <1> QED BY <1>5, <1>6, <1>7, <1>8, <1>9, <1>10, <1>11, <1>12 DEF IInv

-----------------------------------------------------------------------------
(* The steps of main.                                                      *)

\* What the invariant says of one node.
LEMMA NodeFacts ==
    ASSUME IInv, NEW n \in Nodes
    PROVE  /\ node[n] \in NodeType /\ NodeInv(node[n], Frame[n])
           /\ node[n].queued \in Nat /\ calls[n] \in Nat /\ node[n].queued <= calls[n]
           /\ MaxCalls[n] \in Nat
    BY BusAssumption DEF IInv, TypeInv, NodeType

\* A step of main changes where it is, the number of frames queued, and may
\* start the half-bit timer.
LEMMA MainStepKeeps ==
    ASSUME IInv, NEW n \in Nodes, NEW here, NEW there \in PCs, NEW z,
           At(n, here, there, z),
           \/ z = node[n]
           \/ z = [node[n] EXCEPT !.queued = @ + 1]
           \/ z = Launched(node[n]) /\ (n \notin raced => node[n].queued > 0),
           calls' \in [Nodes -> Nat], z.queued <= calls'[n],
           \A m \in Nodes : calls[m] <= calls'[m] /\ calls'[m] <= MaxCalls[m],
           n \notin raced => MainNode([z EXCEPT !.pc = there], level, Line)
    PROVE  IInv'
  <1> DEFINE x == node[n]
             y == [z EXCEPT !.pc = there]
  <1>1. x \in NodeType /\ NodeInv(x, Frame[n])
      BY NodeFacts
  <1>2. /\ z \in NodeType /\ NodeInv(z, Frame[n])
        /\ z.state = x.state /\ z.out = x.out /\ z.edge = x.edge /\ z.isHigh = x.isHigh
        /\ z.timeout = x.timeout /\ z.cursor = x.cursor /\ z.queued \in {x.queued, x.queued + 1}
        /\ z.hb.due = x.hb.due /\ (x.hb.run => z.hb = x.hb)
        /\ n \notin raced /\ z.hb.run => z.queued > 0
    <2>0. n \notin raced /\ x.hb.run => x.queued > 0
        BY DEF IInv, SendsQueued
    <2>1. CASE z = x
        BY <1>1, <2>0, <2>1
    <2>2. CASE z = [x EXCEPT !.queued = @ + 1]
      <3>0. x.queued + 1 \in Nat
          BY <1>1 DEF NodeType
      <3>1. z \in NodeType
          BY <1>1, <2>2, <3>0 DEF NodeType
      <3>2. NodeInv(z, Frame[n])
          BY <1>1, <2>2 DEF NodeType, NodeInv, TimersInv, CursorInv, RxInv, HandlerInv
      <3> QED BY <1>1, <2>0, <2>2, <3>1, <3>2 DEF NodeType
    <2>3. CASE z = Launched(x) /\ (n \notin raced => x.queued > 0)
      <3>1. z \in NodeType /\ NodeInv(z, Frame[n]) /\ z = [x EXCEPT !.hb = z.hb]
            /\ (x.hb.run => z = x) /\ z.hb.due = x.hb.due
          BY <1>1, <2>3, LaunchedOK
      <3>2. n \notin raced => x.queued > 0
          BY <2>3
      <3> QED BY <1>1, <3>1, <3>2 DEF NodeType
    <2> QED BY <2>1, <2>2, <2>3
  <1>3. /\ y \in NodeType
        /\ y.state = z.state /\ y.out = z.out /\ y.edge = z.edge /\ y.isHigh = z.isHigh
        /\ y.timeout = z.timeout /\ y.cursor = z.cursor /\ y.queued = z.queued /\ y.hb = z.hb
        /\ y.backoff = z.backoff /\ y.rx = z.rx
      BY <1>2 DEF NodeType
  <1>4. NodeInv(y, Frame[n])
      BY <1>2, <1>3 DEF NodeInv, TimersInv, CursorInv, RxInv, HandlerInv
  <1>5. Step(n, y) /\ x.isHigh = None
      BY DEF At, Free
  <1>6. level' = level /\ raced' = raced /\ talkers' = talkers /\ aired' = aired
        /\ raced \subseteq Nodes
      BY DEF At, traffic, IInv, TypeInv
  <1>7. /\ level = 0 /\ n \notin raced => x.state # "IDLE"
        /\ Line = 0 /\ n \notin raced => x.state # "IDLE" \/ x.edge
      BY DEF IInv, LowInv
  <1>8. n \notin raced' => MainNode(y, level, Line)
      BY <1>6
  <1> HIDE DEF x, y
  <1>9. QuietStep(n, y)
      BY <1>2, <1>3, <1>4, <1>5, <1>6, <1>7, <1>8 DEF QuietStep, None, x
  <1> QED BY <1>3, <1>9, QuietKeeps

\* network_tx and the tests of network_start_tx keep the invariant.
LEMMA MainKeeps ==
    ASSUME IInv, NEW n \in Nodes, NetworkTx(n) \/ NetworkTxNothing(n) \/ Main(n)
    PROVE  IInv'
  <1>1. node[n] \in NodeType /\ node[n].queued \in Nat /\ calls[n] \in Nat
        /\ node[n].queued <= calls[n] /\ MaxCalls[n] \in Nat
      BY NodeFacts
  <1>2. calls \in [Nodes -> Nat] /\ \A m \in Nodes : calls[m] <= calls[m] /\ calls[m] <= MaxCalls[m]
      BY DEF IInv, TypeInv
  <1>3. ASSUME calls[n] < MaxCalls[n], calls' = [calls EXCEPT ![n] = @ + 1]
        PROVE  /\ calls' \in [Nodes -> Nat] /\ calls'[n] = calls[n] + 1
               /\ \A m \in Nodes : calls[m] <= calls'[m] /\ calls'[m] <= MaxCalls[m]
      BY <1>1, <1>2, <1>3
  <1>4. CASE NetworkTx(n)
    <2> DEFINE z == [node[n] EXCEPT !.queued = @ + 1]
    <2>1. At(n, "idle", "queue", z)
        BY <1>4 DEF NetworkTx
    <2>2. z.queued = node[n].queued + 1 /\ [z EXCEPT !.pc = "queue"].pc = "queue"
        BY <1>1 DEF NodeType
    <2>3. MainNode([z EXCEPT !.pc = "queue"], level, Line)
        BY <2>2 DEF MainNode
    <2> HIDE DEF z
    <2>4. calls' = [calls EXCEPT ![n] = @ + 1] /\ calls[n] < MaxCalls[n]
        BY <1>4 DEF NetworkTx
    <2>5. z = [node[n] EXCEPT !.queued = @ + 1] /\ "queue" \in PCs
        BY DEF z, PCs
    <2>6. /\ calls' \in [Nodes -> Nat] /\ z.queued <= calls'[n]
          /\ \A m \in Nodes : calls[m] <= calls'[m] /\ calls'[m] <= MaxCalls[m]
        BY <1>1, <1>3, <2>2, <2>4
    <2> QED BY <2>1, <2>3, <2>5, <2>6, MainStepKeeps
  <1>5. CASE NetworkTxNothing(n)
    <2> DEFINE z == node[n]
    <2>1. At(n, "idle", "queue", z)
        BY <1>5 DEF NetworkTxNothing
    <2>2. [z EXCEPT !.pc = "queue"].pc = "queue"
        BY <1>1 DEF NodeType
    <2>3. MainNode([z EXCEPT !.pc = "queue"], level, Line)
        BY <2>2 DEF MainNode
    <2>4. calls' = [calls EXCEPT ![n] = @ + 1] /\ calls[n] < MaxCalls[n]
        BY <1>5 DEF NetworkTxNothing
    <2> QED BY <1>1, <1>3, <2>1, <2>3, <2>4, MainStepKeeps DEF PCs
  <1>6. ASSUME NEW there \in PCs
        PROVE  LET y == [node[n] EXCEPT !.pc = there] IN
               /\ y.pc = there /\ y.queued = node[n].queued /\ y.cursor = node[n].cursor
               /\ y.hb = node[n].hb /\ y.state = node[n].state /\ y.timeout = node[n].timeout
      BY <1>1 DEF NodeType
  <1>7. MainNode([node[n] EXCEPT !.pc = "idle"], level, Line)
      BY <1>6 DEF MainNode, PCs
  <1>8. CASE TestQueue(n)
    <2>1. PICK there \in {"idle", "state"} :
              /\ At(n, "queue", there, node[n]) /\ calls' = calls
              /\ there = "state" => node[n].queued > 0
        BY <1>8 DEF TestQueue, Test, HasFrame
    <2>2. there \in PCs
        BY DEF PCs
    <2>3. MainNode([node[n] EXCEPT !.pc = there], level, Line)
        BY <1>6, <1>7, <2>1, <2>2 DEF MainNode
    <2> QED BY <1>1, <1>2, <2>1, <2>2, <2>3, MainStepKeeps
  <1>9. CASE TestState(n)
    <2>1. PICK there \in {"idle", "backoff"} :
              /\ At(n, "state", there, node[n]) /\ calls' = calls
              /\ there = "backoff" => node[n].state = "IDLE"
        BY <1>9 DEF TestState, Test, ChannelIdle
    <2>2. there \in PCs /\ node[n].pc = "state"
        BY <2>1 DEF PCs, At
    <2>3. n \notin raced => MainNode([node[n] EXCEPT !.pc = there], level, Line)
      <3>1. CASE there = "idle"
          BY <1>7, <3>1
      <3>2. CASE there = "backoff" /\ n \notin raced
        <4>1. node[n].state = "IDLE" /\ MainNode(node[n], level, Line)
            BY <2>1, <3>2 DEF IInv, MainInv
        <4>2. node[n].queued > 0
            BY <1>1, <2>2, <4>1 DEF MainNode
        <4>3. node[n].cursor \in Nat
            BY <1>1 DEF NodeType
        <4>4. node[n].cursor < 2 \/ (node[n].cursor = 2 /\ ~node[n].hb.due)
            BY <3>2, <4>1, <4>3 DEF IInv, HeardInv, Inside
        <4> QED BY <1>6, <2>2, <3>2, <4>2, <4>4 DEF MainNode
      <3> QED BY <3>1, <3>2
    <2> QED BY <1>1, <1>2, <2>1, <2>2, <2>3, MainStepKeeps
  <1>10. CASE TestBackoff(n)
    <2>1. PICK there \in {"idle", "start"} : At(n, "backoff", there, node[n]) /\ calls' = calls
        BY <1>10 DEF TestBackoff, Test
    <2>2. there \in PCs /\ node[n].pc = "backoff"
        BY <2>1 DEF PCs, At
    <2>3. n \notin raced => MainNode([node[n] EXCEPT !.pc = there], level, Line)
      <3>1. n \notin raced => MainNode(node[n], level, Line)
          BY DEF IInv, MainInv
      <3> QED BY <1>6, <1>7, <2>1, <2>2, <3>1 DEF MainNode
    <2> QED BY <1>1, <1>2, <2>1, <2>2, <2>3, MainStepKeeps
  <1>11. CASE Start(n)
    <2> DEFINE z == Launched(node[n])
    <2>1. At(n, "start", "idle", z) /\ calls' = calls /\ node[n].pc = "start"
        BY <1>11 DEF Start, At
    <2>2. n \notin raced => node[n].queued > 0
        BY <2>1 DEF IInv, MainInv, MainNode
    <2>3. z \in NodeType /\ z.queued = node[n].queued
      <3>1. NodeInv(node[n], Frame[n])
          BY NodeFacts
      <3>2. z \in NodeType /\ z = [node[n] EXCEPT !.hb = z.hb]
          BY <1>1, <3>1, LaunchedOK
      <3> QED BY <1>1, <3>2 DEF NodeType
    <2>4. MainNode([z EXCEPT !.pc = "idle"], level, Line)
      <3>1. [z EXCEPT !.pc = "idle"].pc = "idle"
          BY <2>3 DEF NodeType
      <3> QED BY <3>1 DEF MainNode
    <2> QED BY <1>1, <1>2, <2>1, <2>2, <2>3, <2>4, MainStepKeeps DEF PCs
  <1> QED BY <1>4, <1>5, <1>8, <1>9, <1>10, <1>11 DEF Main

-----------------------------------------------------------------------------
(* The handlers that do not drive the line.                                *)

\* The receive queue is nobody else's business.
LEMMA RxKeeps ==
    ASSUME NEW x \in NodeType, NEW f, NodeInv(x, f), NEW y \in NodeType,
           RxInv(y), RxSame(x, y)
    PROVE  /\ NodeInv(y, f)
           /\ y.state = x.state /\ y.out = x.out /\ y.edge = x.edge /\ y.isHigh = x.isHigh
           /\ y.hb = x.hb /\ y.timeout = x.timeout /\ y.cursor = x.cursor
           /\ y.queued = x.queued /\ y.pc = x.pc
  <1>1. PICK r, g : y = [x EXCEPT !.rx = r, !.got = g]
      BY DEF RxSame
  <1>2. /\ y.state = x.state /\ y.out = x.out /\ y.edge = x.edge /\ y.isHigh = x.isHigh
        /\ y.hb = x.hb /\ y.timeout = x.timeout /\ y.cursor = x.cursor
        /\ y.queued = x.queued /\ y.pc = x.pc /\ y.backoff = x.backoff
      BY <1>1 DEF NodeType
  <1> QED BY <1>2 DEF NodeInv, TimersInv, CursorInv, HandlerInv

\* What the invariant says of a node whose timeout has not coincided with a
\* change of the line.
LEMMA UnracedFacts ==
    ASSUME IInv, NEW n \in Nodes, n \notin raced
    PROVE  /\ level = 0 => node[n].state # "IDLE"
           /\ Line = 0 => node[n].state # "IDLE" \/ node[n].edge
           /\ MainNode(node[n], level, Line)
           /\ node[n].hb.run => node[n].queued > 0
    BY DEF IInv, LowInv, MainInv, SendsQueued

\* The first half of the edge handler keeps the invariant: it rewinds the timeout.
LEMMA ReadEdgeKeeps ==
    ASSUME IInv, NEW n \in Nodes, ReadEdge(n)
    PROVE  IInv'
  <1> DEFINE x == node[n]
             y == EdgeRead(x, Line)
             t == Started(Rewound(x.timeout))
  <1>1. x \in NodeType /\ NodeInv(x, Frame[n]) /\ x.edge /\ Line \in {0, 1} /\ Step(n, y)
      BY NodeFacts, LineValue DEF ReadEdge, IInv, TypeInv
  <1>2. t \in TimerType /\ TimerOK(t) /\ t.period = x.timeout.period /\ t.run
        /\ t.count = 0 /\ t.due = x.timeout.due /\ t.raw = x.timeout.raw
    <2>1. x.timeout \in TimerType /\ TimerOK(x.timeout)
        BY <1>1 DEF NodeType, NodeInv, TimersInv
    <2> QED BY <2>1 DEF TimerType, TimerOK, Started, Rewound
  <1>3. y = [x EXCEPT !.isHigh = Line, !.timeout = t]
      BY DEF EdgeRead
  <1> HIDE DEF t, y
  <1>4. /\ y \in NodeType
        /\ y.state = x.state /\ y.out = x.out /\ y.edge = x.edge /\ y.isHigh = Line
        /\ y.hb = x.hb /\ y.timeout = t /\ y.cursor = x.cursor /\ y.backoff = x.backoff
        /\ y.queued = x.queued /\ y.pc = x.pc /\ y.rx = x.rx
      BY <1>1, <1>2, <1>3 DEF NodeType, None
  <1>5. NodeInv(y, Frame[n])
      BY <1>1, <1>2, <1>4 DEF NodeInv, TimersInv, CursorInv, RxInv, HandlerInv
  <1>6. level = 1 => Line = 0
      BY <1>1 DEF IInv, FallInv
  <1>7. /\ level' = level /\ raced' = raced /\ talkers' = talkers /\ aired' = aired
        /\ calls' = calls /\ raced \subseteq Nodes /\ calls \in [Nodes -> Nat]
        /\ \A m \in Nodes : calls[m] <= MaxCalls[m]
      BY DEF ReadEdge, traffic, IInv, TypeInv
  <1>8. n \notin raced => MainNode(y, level, Line)
      BY <1>2, <1>4, UnracedFacts DEF MainNode
  <1>9. QuietStep(n, y)
      BY <1>1, <1>2, <1>4, <1>5, <1>6, <1>7, <1>8, UnracedFacts DEF QuietStep
  <1> QED BY <1>4, <1>7, <1>9, NodeFacts, QuietKeeps

\* The second half does: if it loses an edge, the line's level is known from the
\* first, since a line that was high can only have fallen.
LEMMA UseEdgeKeeps ==
    ASSUME IInv, NEW n \in Nodes, UseEdge(n)
    PROVE  IInv'
  <1> DEFINE x == node[n]
             b == x.isHigh
             u == [x EXCEPT !.edge = FALSE, !.isHigh = None]
             v == EdgeState(u, b)
             y == RxPushBit(v, b)
  <1>1. x \in NodeType /\ NodeInv(x, Frame[n]) /\ b \in {0, 1}
      BY NodeFacts DEF UseEdge, Free, NodeType
  <1>2. /\ u \in NodeType /\ NodeInv(u, Frame[n])
        /\ u.state = x.state /\ u.out = x.out /\ ~u.edge /\ u.isHigh = None
        /\ u.hb = x.hb /\ u.timeout = x.timeout /\ u.cursor = x.cursor
        /\ u.queued = x.queued /\ u.pc = x.pc
      BY <1>1 DEF NodeType, None, NodeInv, TimersInv, CursorInv, RxInv, HandlerInv
  <1> HIDE DEF u
  <1>3. /\ v \in NodeType /\ NodeInv(v, Frame[n])
        /\ v.out = x.out /\ ~v.edge /\ v.isHigh = None
        /\ v.hb = x.hb /\ v.timeout = x.timeout /\ v.cursor = x.cursor
        /\ v.queued = x.queued /\ v.pc = x.pc
        /\ b = 0 => v.state = "BUSY"
        /\ b = 1 => v.state = x.state
    <2>1. CASE b = 1
        BY <1>2, <2>1 DEF EdgeState
    <2>2. CASE b = 0
      <3>1. v = [u EXCEPT !.state = "BUSY"]
          BY <2>2 DEF EdgeState, SetState
      <3> HIDE DEF v
      <3>2. v \in NodeType /\ v.state = "BUSY" /\ v.out = u.out /\ v.edge = u.edge
            /\ v.isHigh = u.isHigh /\ v.hb = u.hb /\ v.timeout = u.timeout /\ v.rx = u.rx
            /\ v.cursor = u.cursor /\ v.queued = u.queued /\ v.pc = u.pc
            /\ v.backoff = u.backoff
          BY <1>2, <3>1 DEF NodeType, States
      <3>3. NodeInv(v, Frame[n])
          BY <1>2, <3>2 DEF NodeInv, TimersInv, CursorInv, RxInv, HandlerInv
      <3> QED BY <1>2, <2>2, <3>2, <3>3
    <2> QED BY <1>1, <2>1, <2>2
  <1> HIDE DEF v
  <1>4. y \in NodeType /\ RxInv(y) /\ RxSame(v, y)
      BY <1>1, <1>3, RxOps DEF NodeInv
  <1>5. Step(n, y)
      BY DEF UseEdge, EdgeUsed, v, u
  <1> HIDE DEF y
  <1>6. /\ NodeInv(y, Frame[n]) /\ y.state = v.state /\ y.out = x.out /\ ~y.edge
        /\ y.isHigh = None /\ y.hb = x.hb /\ y.timeout = x.timeout /\ y.cursor = x.cursor
        /\ y.queued = x.queued /\ y.pc = x.pc
      BY <1>3, <1>4, RxKeeps
  <1>7. /\ level' = level /\ raced' = raced /\ talkers' = talkers /\ aired' = aired
        /\ calls' = calls /\ raced \subseteq Nodes /\ calls \in [Nodes -> Nat]
        /\ \A m \in Nodes : calls[m] <= MaxCalls[m]
      BY DEF UseEdge, traffic, IInv, TypeInv
  <1>8. x.timeout.count = 0
      BY <1>1 DEF NodeInv, HandlerInv, None
  <1>9. level = 1 => b = 0
      BY <1>1 DEF IInv, FallInv
  <1>10. level \in {0, 1}
      BY DEF IInv, TypeInv
  <1>11. ASSUME n \notin raced
         PROVE  /\ level = 0 => y.state # "IDLE"
                /\ Line = 0 => y.state # "IDLE" \/ y.edge
                /\ y.state = "IDLE" => x.state = "IDLE"
                /\ MainNode(y, level, Line)
                /\ y.hb.run => y.queued > 0
    <2>1. /\ level = 0 => x.state # "IDLE"
          /\ MainNode(x, level, Line)
          /\ x.hb.run => x.queued > 0
        BY <1>11, UnracedFacts
    <2>2. y.state # "IDLE" \/ (y.state = x.state /\ level = 0)
        BY <1>1, <1>3, <1>6, <1>9, <1>10
    <2>3. y.state # "IDLE"
        BY <2>1, <2>2
    <2>4. MainNode(y, level, Line)
        BY <1>6, <2>1, <2>3 DEF MainNode
    <2> QED BY <1>6, <2>1, <2>3, <2>4
  <1>12. QuietStep(n, y)
      BY <1>5, <1>6, <1>7, <1>8, <1>11 DEF QuietStep, None
  <1> QED BY <1>4, <1>6, <1>7, <1>12, NodeFacts, QuietKeeps

\* The timeout handler does: it reports an idle line only when no frame is on it.
LEMMA TimeoutKeeps ==
    ASSUME IInv, NEW n \in Nodes, ServeTimeout(n)
    PROVE  IInv'
  <1> DEFINE x == node[n]
             t == Halted(Served(x.timeout))
             u == [x EXCEPT !.timeout = t]
             s == IF Line = 1 THEN "IDLE" ELSE "COLLISION"
             v == SetState(u, s)
             y == TimeoutHandler(x, Line)
  <1>1. x \in NodeType /\ NodeInv(x, Frame[n]) /\ Line \in {0, 1} /\ Step(n, y)
        /\ x.timeout.due /\ x.isHigh = None
      BY NodeFacts, LineValue DEF ServeTimeout, Free, IInv, TypeInv
  <1>2. t \in TimerType /\ TimerOK(t) /\ t.period = x.timeout.period /\ ~t.due
        /\ t.count = x.timeout.count /\ t.raw = x.timeout.raw
    <2>1. x.timeout \in TimerType /\ TimerOK(x.timeout)
        BY <1>1 DEF NodeType, NodeInv, TimersInv
    <2> QED BY <2>1 DEF TimerType, TimerOK, Halted, Served
  <1> HIDE DEF t
  <1>3. /\ u \in NodeType
        /\ u.state = x.state /\ u.out = x.out /\ u.edge = x.edge /\ u.isHigh = x.isHigh
        /\ u.hb = x.hb /\ u.timeout = t /\ u.cursor = x.cursor /\ u.backoff = x.backoff
        /\ u.queued = x.queued /\ u.pc = x.pc /\ u.rx = x.rx
      BY <1>1, <1>2 DEF NodeType
  <1>4. NodeInv(u, Frame[n])
      BY <1>1, <1>2, <1>3 DEF NodeInv, TimersInv, CursorInv, RxInv, HandlerInv
  <1>5. s \in States
      BY DEF States
  <1>6. y = (IF Line = 1 THEN RxPush(v) ELSE RxReset(v))
      BY DEF TimeoutHandler, t
  <1> HIDE DEF u, s, y
  <1>7. NodeInv(v, Frame[n]) /\ StateFrame(u, v, s) /\ v \in NodeType /\ RxInv(v)
      BY <1>3, <1>4, <1>5, SetStateOK DEF StateFrame, NodeInv
  <1> HIDE DEF v
  <1>8. y \in NodeType /\ RxInv(y) /\ RxSame(v, y)
      BY <1>6, <1>7, RxOps
  <1>9. /\ NodeInv(y, Frame[n]) /\ y.state = s /\ y.out = x.out /\ y.edge = x.edge
        /\ y.isHigh = None /\ y.timeout = t /\ y.cursor = x.cursor
        /\ y.queued = x.queued /\ y.pc = x.pc /\ y.hb.due = x.hb.due
        /\ x.hb.run => y.hb = x.hb
        /\ y.hb.run => x.hb.run \/ x.queued > 0
      BY <1>1, <1>3, <1>7, <1>8, RxKeeps DEF StateFrame
  <1>10. /\ level' = level /\ talkers' = talkers /\ aired' = aired
         /\ calls' = calls /\ raced \subseteq raced' /\ raced' \subseteq Nodes
         /\ Line # level => n \in raced'
         /\ calls \in [Nodes -> Nat] /\ \A m \in Nodes : calls[m] <= MaxCalls[m]
      BY DEF ServeTimeout, IInv, TypeInv
  <1>11. ASSUME n \notin raced'
         PROVE  /\ level = 0 => y.state # "IDLE"
                /\ Line = 0 => y.state # "IDLE" \/ y.edge
                /\ y.state = "IDLE" => \A m \in Nodes : ~Inside(m)
                /\ MainNode(y, level, Line)
                /\ y.hb.run => y.queued > 0
    <2>1. Line = level /\ n \notin raced
        BY <1>10, <1>11
    <2>2. MainNode(x, level, Line) /\ (x.hb.run => x.queued > 0)
        BY <2>1, UnracedFacts
    <2>3. (y.state = "IDLE" <=> Line = 1)
        BY <1>1, <1>9 DEF s
    <2>4. Line = 1 => \A m \in Nodes : ~Inside(m)
        BY <1>1, <2>1 DEF IInv, NoTimeoutInv
    <2>5. MainNode(y, level, Line)
      <3>1. y.queued = x.queued /\ y.pc = x.pc /\ y.cursor = x.cursor /\ y.hb.due = x.hb.due
            /\ ~y.timeout.due
          BY <1>2, <1>9
      <3>2. ~(x.pc = "state" /\ x.queued = 0 /\ Line = 1)
          BY <1>1, <2>1, <2>2 DEF MainNode
      <3> QED BY <2>2, <2>3, <3>1, <3>2, <1>1 DEF MainNode
    <2> QED BY <1>1, <1>9, <2>1, <2>2, <2>3, <2>4, <2>5
  <1>12. QuietStep(n, y)
      BY <1>1, <1>2, <1>9, <1>10, <1>11 DEF QuietStep, None
  <1>13. y.queued <= calls'[n] /\ calls' \in [Nodes -> Nat]
      BY <1>9, <1>10, NodeFacts
  <1> QED BY <1>8, <1>10, <1>12, <1>13, NodeFacts, QuietKeeps

\* The compare interrupt does: it only pushes a bit.
LEMMA SampleKeeps ==
    ASSUME IInv, NEW n \in Nodes, ServeSample(n)
    PROVE  IInv'
  <1> DEFINE x == node[n]
             u == [x EXCEPT !.sample = FALSE]
             b == x.rx[Len(x.rx)]
             y == RxPushBit(u, b)
  <1>1. x \in NodeType /\ NodeInv(x, Frame[n]) /\ x.isHigh = None
      BY NodeFacts DEF ServeSample, Free
  <1>2. b \in {0, 1}
      BY <1>1, RxOps DEF NodeInv
  <1>3. Step(n, y)
      BY DEF ServeSample, SampleHandler
  <1> HIDE DEF b
  <1>4. /\ u \in NodeType
        /\ u.state = x.state /\ u.out = x.out /\ u.edge = x.edge /\ u.isHigh = x.isHigh
        /\ u.hb = x.hb /\ u.timeout = x.timeout /\ u.cursor = x.cursor /\ u.backoff = x.backoff
        /\ u.queued = x.queued /\ u.pc = x.pc /\ u.rx = x.rx
      BY <1>1 DEF NodeType
  <1> HIDE DEF u
  <1>5. NodeInv(u, Frame[n])
      BY <1>1, <1>4 DEF NodeInv, TimersInv, CursorInv, RxInv, HandlerInv
  <1>6. y \in NodeType /\ RxInv(y) /\ RxSame(u, y)
      BY <1>2, <1>4, <1>5, RxOps DEF NodeInv
  <1> HIDE DEF y
  <1>7. /\ NodeInv(y, Frame[n]) /\ y.state = x.state /\ y.out = x.out /\ y.edge = x.edge
        /\ y.isHigh = x.isHigh /\ y.hb = x.hb /\ y.timeout = x.timeout /\ y.cursor = x.cursor
        /\ y.queued = x.queued /\ y.pc = x.pc
      BY <1>4, <1>5, <1>6, RxKeeps
  <1>8. /\ level' = level /\ raced' = raced /\ talkers' = talkers /\ aired' = aired
        /\ calls' = calls /\ raced \subseteq Nodes /\ calls \in [Nodes -> Nat]
        /\ \A m \in Nodes : calls[m] <= MaxCalls[m]
      BY DEF ServeSample, traffic, IInv, TypeInv
  <1>9. n \notin raced =>
           /\ level = 0 => y.state # "IDLE"
           /\ Line = 0 => y.state # "IDLE" \/ y.edge
           /\ MainNode(y, level, Line)
           /\ y.hb.run => y.queued > 0
      BY <1>7, UnracedFacts DEF MainNode
  <1>10. QuietStep(n, y)
      BY <1>1, <1>3, <1>7, <1>8, <1>9 DEF QuietStep, None
  <1>11. y.queued <= calls'[n] /\ calls' \in [Nodes -> Nat]
      BY <1>7, <1>8, NodeFacts
  <1> QED BY <1>6, <1>8, <1>10, <1>11, NodeFacts, QuietKeeps

\* The end of a backoff does: network_start_tx makes all its tests at once.
LEMMA BackoffKeeps ==
    ASSUME IInv, NEW n \in Nodes, ServeBackoff(n)
    PROVE  IInv'
  <1> DEFINE x == node[n]
             t == Halted(Served(x.backoff))
             u == [x EXCEPT !.backoff = t]
             y == StartTx(u)
  <1>1. x \in NodeType /\ NodeInv(x, Frame[n]) /\ x.isHigh = None
      BY NodeFacts DEF ServeBackoff, Free
  <1>2. t \in TimerType /\ TimerOK(t)
    <2>1. x.backoff \in TimerType /\ TimerOK(x.backoff)
        BY <1>1 DEF NodeType, NodeInv, TimersInv
    <2> QED BY <2>1 DEF TimerType, TimerOK, Halted, Served
  <1>3. Step(n, y)
      BY DEF ServeBackoff, BackoffHandler
  <1> HIDE DEF t
  <1>4. /\ u \in NodeType
        /\ u.state = x.state /\ u.out = x.out /\ u.edge = x.edge /\ u.isHigh = x.isHigh
        /\ u.hb = x.hb /\ u.timeout = x.timeout /\ u.cursor = x.cursor /\ u.backoff = t
        /\ u.queued = x.queued /\ u.pc = x.pc /\ u.rx = x.rx
      BY <1>1, <1>2 DEF NodeType
  <1> HIDE DEF u
  <1>5. NodeInv(u, Frame[n])
      BY <1>1, <1>2, <1>4 DEF NodeInv, TimersInv, CursorInv, RxInv, HandlerInv
  <1>6. y \in NodeType /\ NodeInv(y, Frame[n]) /\ StartFrame(u, y)
      BY <1>4, <1>5, StartTxOK DEF StartFrame
  <1> HIDE DEF y
  <1>7. /\ y.state = x.state /\ y.out = x.out /\ y.edge = x.edge
        /\ y.isHigh = x.isHigh /\ y.timeout = x.timeout /\ y.cursor = x.cursor
        /\ y.queued = x.queued /\ y.pc = x.pc /\ y.hb.due = x.hb.due
        /\ x.hb.run => y.hb = x.hb
        /\ y.hb.run => x.hb.run \/ x.queued > 0
      BY <1>4, <1>6 DEF StartFrame
  <1>8. /\ level' = level /\ raced' = raced /\ talkers' = talkers /\ aired' = aired
        /\ calls' = calls /\ raced \subseteq Nodes /\ calls \in [Nodes -> Nat]
        /\ \A m \in Nodes : calls[m] <= MaxCalls[m]
      BY DEF ServeBackoff, traffic, IInv, TypeInv
  <1>9. n \notin raced =>
           /\ level = 0 => y.state # "IDLE"
           /\ Line = 0 => y.state # "IDLE" \/ y.edge
           /\ MainNode(y, level, Line)
           /\ y.hb.run => y.queued > 0
      BY <1>7, UnracedFacts DEF MainNode
  <1>10. QuietStep(n, y)
      BY <1>1, <1>3, <1>6, <1>7, <1>8, <1>9 DEF QuietStep, None
  <1>11. y.queued <= calls'[n] /\ calls' \in [Nodes -> Nat]
      BY <1>7, <1>8, NodeFacts
  <1> QED BY <1>6, <1>8, <1>10, <1>11, NodeFacts, QuietKeeps

-----------------------------------------------------------------------------
(* TIM4's handler.                                                         *)

\* What is assumed of a frame: it begins with a fall, and no three of its
\* half-bits are equal.
LEMMA FrameFacts ==
    ASSUME NEW n \in Nodes
    PROVE  /\ Frame[n] \in Seq({0, 1}) /\ Len(Frame[n]) \in Nat /\ Len(Frame[n]) > 2
           /\ Frame[n][1] = 1 /\ Frame[n][2] = 0
           /\ \A k \in 1 .. Len(Frame[n]) - 2 :
                 Frame[n][k] # Frame[n][k + 1] \/ Frame[n][k + 1] # Frame[n][k + 2]
    BY BusAssumption

\* The handler ends an attempt, or goes on to the next half-bit.
HalfBitFrame(x, y, f) ==
    /\ y \in NodeType
    /\ y.state = x.state /\ y.edge = x.edge /\ y.isHigh = x.isHigh /\ y.timeout = x.timeout
    /\ y.pc = x.pc /\ y.rx = x.rx /\ ~y.hb.due /\ y.hb.count = 0
    /\ \/ /\ y.cursor = 0 /\ y.out = 1 /\ ~y.hb.run
          /\ y.queued = x.queued \/ (y.queued <= x.queued /\ x.cursor = Len(f))
       \/ /\ y.cursor = x.cursor + 1 /\ y.cursor <= Len(f) /\ y.out = f[y.cursor]
          /\ y.hb.run /\ y.queued = x.queued

\* The scaled random byte is a period.
LEMMA BackoffPeriod ==
    ASSUME NEW r \in Randoms
    PROVE  BackoffMs(r) * TicksPerMs \in Nat
  <1>0. TicksPerMs \in Nat
      BY TimingAssumption
  <1>1. r \in 0 .. 255 /\ r \in Nat
      BY BusAssumption
  <1>2. r * 1000 \in Nat /\ \A k \in Nat : k \div 255 \in Nat
      BY <1>1
  <1>3. BackoffMs(r) \in Nat
      BY <1>2 DEF BackoffMs
  <1> QED BY <1>0, <1>3

\* The half-bit handler keeps the node's timers and cursor consistent.
LEMMA HalfBitOK ==
    ASSUME NEW n \in Nodes, NEW x \in NodeType, NodeInv(x, Frame[n]), x.hb.due,
           x.isHigh = None, NEW r \in Randoms
    PROVE  LET y == HalfBitHandler(x, Frame[n], r) IN
           NodeInv(y, Frame[n]) /\ HalfBitFrame(x, y, Frame[n])
  <1> DEFINE f == Frame[n]
             h == Served(x.hb)
             u == [x EXCEPT !.hb = h]
             y == HalfBitHandler(x, f, r)
  <1>1. /\ x.hb \in TimerType /\ TimerOK(x.hb) /\ x.hb.run /\ x.hb.count = 0 /\ ~x.hb.raw
        /\ x.hb.period = HalfBit
        /\ x.cursor \in Nat /\ x.queued \in Nat /\ x.cursor <= Len(f)
      BY DEF NodeType, NodeInv, TimersInv, CursorInv
  <1>2. h \in TimerType /\ TimerOK(h) /\ h.run /\ h.count = 0 /\ ~h.raw /\ ~h.due
        /\ h.period = HalfBit
      BY <1>1 DEF TimerType, TimerOK, Served
  <1> HIDE DEF h
  <1>3. /\ u \in NodeType
        /\ u.state = x.state /\ u.out = x.out /\ u.edge = x.edge /\ u.isHigh = x.isHigh
        /\ u.hb = h /\ u.timeout = x.timeout /\ u.cursor = x.cursor /\ u.backoff = x.backoff
        /\ u.queued = x.queued /\ u.pc = x.pc /\ u.rx = x.rx
      BY <1>2 DEF NodeType
  <1>4. f \in Seq({0, 1}) /\ Len(f) \in Nat
      BY FrameFacts
  <1>5. y = IF x.state = "COLLISION" THEN Abort(u, r)
            ELSE IF x.cursor = Len(f) THEN FrameDone(u) ELSE NextHalfBit(u, f)
      BY DEF HalfBitHandler, h
  <1> HIDE DEF u, f
  <1>6. CASE x.state = "COLLISION"
    <2> DEFINE p == BackoffMs(r) * TicksPerMs
               b == Started([u.backoff EXCEPT !.period = p, !.count = 0])
               g == Halted(h)
    <2>1. b \in TimerType /\ TimerOK(b)
      <3>1. p \in Nat
          BY BackoffPeriod
      <3>2. u.backoff \in TimerType
          BY <1>3 DEF NodeType
      <3> HIDE DEF p
      <3> QED BY <3>1, <3>2 DEF TimerType, TimerOK, Started
    <2>2. g \in TimerType /\ TimerOK(g) /\ ~g.run /\ ~g.due /\ g.count = 0 /\ g.period = HalfBit
        BY <1>2 DEF TimerType, TimerOK, Halted
    <2>3. y = [u EXCEPT !.hb = g, !.cursor = 0, !.out = 1, !.backoff = b]
        BY <1>3, <1>5, <1>6 DEF Abort, NodeType
    <2> HIDE DEF b, g, y
    <2>4. /\ y \in NodeType
          /\ y.state = x.state /\ y.out = 1 /\ y.edge = x.edge /\ y.isHigh = x.isHigh
          /\ y.hb = g /\ y.timeout = x.timeout /\ y.cursor = 0 /\ y.backoff = b
          /\ y.queued = x.queued /\ y.pc = x.pc /\ y.rx = x.rx
        BY <1>3, <2>1, <2>2, <2>3 DEF NodeType
    <2>5. NodeInv(y, f)
        BY <1>4, <2>1, <2>2, <2>4 DEF NodeInv, TimersInv, CursorInv, RxInv, HandlerInv, f
    <2> QED BY <2>2, <2>4, <2>5 DEF HalfBitFrame, y, f
  <1>7. CASE x.state # "COLLISION" /\ x.cursor = Len(f)
    <2> DEFINE g == Halted(Rewound(h))
               q == IF u.queued = 0 THEN 0 ELSE u.queued - 1
    <2>1. g \in TimerType /\ TimerOK(g) /\ ~g.run /\ ~g.due /\ g.count = 0 /\ g.period = HalfBit
        BY <1>2 DEF TimerType, TimerOK, Halted, Rewound
    <2>2. q \in Nat /\ q <= x.queued
        BY <1>1, <1>3
    <2>3. y = [u EXCEPT !.hb = g, !.cursor = 0, !.queued = q, !.out = 1]
        BY <1>3, <1>5, <1>7 DEF FrameDone, NodeType
    <2> HIDE DEF g, q, y
    <2>4. /\ y \in NodeType
          /\ y.state = x.state /\ y.out = 1 /\ y.edge = x.edge /\ y.isHigh = x.isHigh
          /\ y.hb = g /\ y.timeout = x.timeout /\ y.cursor = 0 /\ y.backoff = x.backoff
          /\ y.queued = q /\ y.pc = x.pc /\ y.rx = x.rx
        BY <1>3, <2>1, <2>2, <2>3 DEF NodeType
    <2>5. NodeInv(y, f)
        BY <1>4, <2>1, <2>4 DEF NodeInv, TimersInv, CursorInv, RxInv, HandlerInv, f
    <2> QED BY <1>7, <2>1, <2>2, <2>4, <2>5 DEF HalfBitFrame, y, f
  <1>8. CASE x.state # "COLLISION" /\ x.cursor # Len(f)
    <2> DEFINE g == Started(Rewound(h))
               o == f[x.cursor + 1]
               c == x.cursor + 1
    <2>1. g \in TimerType /\ TimerOK(g) /\ g.run /\ ~g.due /\ g.count = 0 /\ ~g.raw
          /\ g.period = HalfBit
        BY <1>2 DEF TimerType, TimerOK, Started, Rewound
    <2>2. x.cursor + 1 \in 1 .. Len(f) /\ o \in {0, 1}
        BY <1>1, <1>4, <1>8
    <2>3. y = [u EXCEPT !.hb = g, !.out = o, !.cursor = c]
        BY <1>3, <1>5, <1>8 DEF NextHalfBit, NodeType
    <2>8. c \in Nat
        BY <1>1
    <2> HIDE DEF g, o, y, c
    <2>4. /\ y \in NodeType
          /\ y.state = x.state /\ y.out = o /\ y.edge = x.edge /\ y.isHigh = x.isHigh
          /\ y.hb = g /\ y.timeout = x.timeout /\ y.cursor = c
          /\ y.backoff = x.backoff /\ y.queued = x.queued /\ y.pc = x.pc /\ y.rx = x.rx
        BY <1>3, <2>1, <2>2, <2>3, <2>8 DEF NodeType
    <2>5. NodeInv(y, f)
      <3>1. TimersInv(y)
          BY <2>1, <2>4 DEF NodeInv, TimersInv
      <3>2. CursorInv(y, f)
          BY <1>1, <1>4, <2>1, <2>2, <2>4 DEF CursorInv, o, c
      <3>3. RxInv(y) /\ HandlerInv(y)
          BY <2>4 DEF NodeInv, RxInv, HandlerInv
      <3> QED BY <3>1, <3>2, <3>3 DEF NodeInv
    <2>6. y.cursor = x.cursor + 1 /\ y.cursor <= Len(f) /\ y.out = f[y.cursor]
        BY <1>1, <1>4, <2>2, <2>4 DEF o, c
    <2>7. HalfBitFrame(x, y, f)
        BY <2>1, <2>4, <2>6 DEF HalfBitFrame
    <2> QED BY <2>5, <2>7 DEF y, f
  <1> QED BY <1>6, <1>7, <1>8 DEF f

\* An edge changes nothing but the pending bits.
LEMMA EdgeSet ==
    ASSUME NEW x \in NodeType, NEW f, NodeInv(x, f)
    PROVE  LET y == [x EXCEPT !.edge = TRUE] IN
           /\ y \in NodeType /\ NodeInv(y, f) /\ y.edge
           /\ y.state = x.state /\ y.out = x.out /\ y.isHigh = x.isHigh /\ y.hb = x.hb
           /\ y.timeout = x.timeout /\ y.cursor = x.cursor /\ y.queued = x.queued
           /\ y.pc = x.pc
  <1> DEFINE y == [x EXCEPT !.edge = TRUE]
  <1>1. /\ y \in NodeType /\ y.edge
        /\ y.state = x.state /\ y.out = x.out /\ y.isHigh = x.isHigh /\ y.hb = x.hb
        /\ y.timeout = x.timeout /\ y.cursor = x.cursor /\ y.queued = x.queued
        /\ y.pc = x.pc /\ y.backoff = x.backoff /\ y.rx = x.rx
      BY DEF NodeType
  <1> HIDE DEF y
  <1>2. NodeInv(y, f)
      BY <1>1 DEF NodeInv, TimersInv, CursorInv, RxInv, HandlerInv
  <1> QED BY <1>1, <1>2 DEF y

\* The half-bit handler keeps the invariant: a falling output is an edge, a rising
\* one starts a high phase of length 0.
LEMMA HalfBitKeeps ==
    ASSUME IInv, NEW n \in Nodes, ServeHalfBit(n)
    PROVE  IInv'
  <1> DEFINE x == node[n]
             f == Frame[n]
  <1>1. x \in NodeType /\ NodeInv(x, f) /\ x.hb.due /\ x.isHigh = None
      BY NodeFacts DEF ServeHalfBit, Free
  <1>2. PICK r \in Randoms : /\ Step(n, HalfBitHandler(x, f, r))
                             /\ Recorded(n, HalfBitHandler(x, f, r))
      BY DEF ServeHalfBit
  <1> DEFINE y == HalfBitHandler(x, f, r)
  <1>3. NodeInv(y, f) /\ HalfBitFrame(x, y, f) /\ Step(n, y) /\ Recorded(n, y)
      BY <1>1, <1>2, HalfBitOK
  <1> HIDE DEF y
  <1>4. node \in [Nodes -> NodeType] /\ y \in NodeType /\ Line \in {0, 1} /\ level \in {0, 1}
      BY <1>3, LineValue DEF HalfBitFrame, IInv, TypeInv
  <1>5. calls' = calls /\ level' = level /\ raced' = raced
      BY DEF ServeHalfBit
  <1> DEFINE ns == [node EXCEPT ![n] = y]
  <1>6. /\ node' \in [Nodes -> NodeType]
        /\ Line' = Line => node' = ns
        /\ Line' # Line => node' = [m \in Nodes |-> [ns[m] EXCEPT !.edge = TRUE]]
      BY <1>3, <1>4, StepEffect
  <1>7. Line' \in {0, 1} /\ (Line' = 1 <=> \A m \in Nodes : node'[m].out = 1)
    <2>1. \A m \in Nodes : node'[m].out \in {0, 1}
        BY <1>6 DEF NodeType
    <2> QED BY <2>1 DEF Line, Level
  <1>8. \A m \in Nodes : ns[m] \in NodeType /\ NodeInv(ns[m], Frame[m])
      BY <1>1, <1>3, <1>4 DEF IInv, TypeInv
  <1>9. ns[n] = y /\ \A m \in Nodes \ {n} : ns[m] = node[m]
      BY <1>4
  <1> HIDE DEF ns
\* Only the pending bits change besides node n.
  <1>10. \A m \in Nodes :
            /\ node'[m] \in NodeType /\ NodeInv(node'[m], Frame[m])
            /\ node'[m].edge <=> (Line' # Line \/ node[m].edge)
            /\ node'[m].state = node[m].state /\ node'[m].isHigh = node[m].isHigh
            /\ node'[m].timeout = node[m].timeout /\ node'[m].pc = node[m].pc
    <2> SUFFICES ASSUME NEW m \in Nodes
                 PROVE  /\ node'[m] \in NodeType /\ NodeInv(node'[m], Frame[m])
                        /\ node'[m].edge <=> (Line' # Line \/ node[m].edge)
                        /\ node'[m].state = node[m].state /\ node'[m].isHigh = node[m].isHigh
                        /\ node'[m].timeout = node[m].timeout /\ node'[m].pc = node[m].pc
        OBVIOUS
    <2>1. /\ ns[m].edge = node[m].edge /\ ns[m].state = node[m].state
          /\ ns[m].isHigh = node[m].isHigh /\ ns[m].timeout = node[m].timeout
          /\ ns[m].pc = node[m].pc
        BY <1>3, <1>9 DEF HalfBitFrame
    <2>2. CASE Line' = Line
        BY <1>6, <1>8, <2>1, <2>2
    <2>3. CASE Line' # Line
      <3>1. node'[m] = [ns[m] EXCEPT !.edge = TRUE]
          BY <1>6, <2>3
      <3>2. /\ node'[m] \in NodeType /\ NodeInv(node'[m], Frame[m]) /\ node'[m].edge
            /\ node'[m].state = ns[m].state /\ node'[m].isHigh = ns[m].isHigh
            /\ node'[m].timeout = ns[m].timeout /\ node'[m].pc = ns[m].pc
          BY <1>8, <3>1, EdgeSet
      <3> QED BY <2>1, <2>3, <3>2
    <2> QED BY <2>2, <2>3
  <1>11. \A m \in Nodes : /\ node'[m].out = ns[m].out /\ node'[m].hb = ns[m].hb
                          /\ node'[m].cursor = ns[m].cursor /\ node'[m].queued = ns[m].queued
      BY <1>6, <1>8, EdgeSet
  <1>12. /\ node'[n].out = y.out /\ node'[n].hb = y.hb
         /\ node'[n].cursor = y.cursor /\ node'[n].queued = y.queued
         /\ \A m \in Nodes \ {n} :
               /\ node'[m].out = node[m].out /\ node'[m].hb = node[m].hb
               /\ node'[m].cursor = node[m].cursor /\ node'[m].queued = node[m].queued
      BY <1>9, <1>11
  <1>13. y.out = 0 => Line' = 0
      BY <1>7, <1>12
  <1>14. level = 1 /\ Line = 0 => Line' = 0
    <2> SUFFICES ASSUME level = 1, Line = 0 PROVE Line' = 0
        OBVIOUS
    <2>1. x.out # 0
        BY <1>1 DEF IInv, FallInv
    <2>2. PICK m \in Nodes : node[m].out # 1
        BY <1>4, LineValue
    <2>3. node[m].out = 0
        BY <1>4, <2>2 DEF NodeType
    <2>4. m # n
        BY <2>1, <2>3
    <2> QED BY <1>7, <1>12, <2>2, <2>4
  <1>15. f \in Seq({0, 1}) /\ Len(f) \in Nat /\ Len(f) > 2 /\ f[1] = 1 /\ f[2] = 0
         /\ \A k \in 1 .. Len(f) - 2 : f[k] # f[k + 1] \/ f[k + 1] # f[k + 2]
      BY FrameFacts
  <1>16. x.cursor \in Nat /\ x.cursor <= Len(f) /\ x.queued \in Nat /\ y.cursor \in Nat
         /\ y.queued \in Nat /\ y.queued <= x.queued
      BY <1>1, <1>3, <1>4 DEF NodeType, NodeInv, CursorInv, HalfBitFrame
\* If node n is inside its frame now, it was, or it has just pulled the line low.
  <1>17. Inside(n)' => /\ y.cursor = x.cursor + 1 /\ y.cursor <= Len(f)
                       /\ y.out = f[y.cursor]
                       /\ Inside(n) \/ (x.cursor = 1 /\ Line' = 0)
    <2> SUFFICES ASSUME Inside(n)'
                 PROVE  /\ y.cursor = x.cursor + 1 /\ y.cursor <= Len(f)
                        /\ y.out = f[y.cursor]
                        /\ Inside(n) \/ (x.cursor = 1 /\ Line' = 0)
        OBVIOUS
    <2>1. y.cursor >= 2
        BY <1>12 DEF Inside
    <2>2. y.cursor = x.cursor + 1 /\ y.cursor <= Len(f) /\ y.out = f[y.cursor]
        BY <1>3, <2>1 DEF HalfBitFrame
    <2>3. x.cursor >= 2 \/ x.cursor = 1
        BY <1>16, <2>1, <2>2
    <2>4. x.cursor = 1 => Line' = 0
        BY <1>13, <1>15, <2>2
    <2> QED BY <2>2, <2>3, <2>4 DEF Inside
  <1>18. \A m \in Nodes \ {n} : Inside(m)' <=> Inside(m)
      BY <1>12 DEF Inside
  <1>19. TypeInv'
    <2>1. talkers' \subseteq Nodes
        BY <1>3 DEF Recorded, IInv, TypeInv
    <2>2. aired' \in {Frame[m] : m \in Nodes} \cup {<< >>}
        BY <1>3 DEF Recorded, IInv, TypeInv
    <2>3. ASSUME NEW m \in Nodes
          PROVE  calls'[m] <= MaxCalls[m] /\ node'[m].queued <= calls'[m]
      <3>1. calls[m] \in Nat /\ calls[m] <= MaxCalls[m] /\ node[m].queued \in Nat
            /\ node[m].queued <= calls[m]
          BY <1>4 DEF IInv, TypeInv, NodeType
      <3>2. CASE m = n
          BY <1>5, <1>12, <1>16, <3>1, <3>2
      <3>3. CASE m # n
          BY <1>5, <1>12, <3>1, <3>3
      <3> QED BY <3>2, <3>3
    <2> QED BY <1>5, <1>6, <1>10, <2>1, <2>2, <2>3 DEF IInv, TypeInv
  <1>20. FallInv'
    <2> SUFFICES ASSUME level = 1, NEW m \in Nodes
                 PROVE  /\ node'[m].out = 0 => ~node'[m].hb.due
                        /\ node'[m].edge => Line' = 0
                        /\ node'[m].isHigh # 1
        BY <1>5 DEF FallInv
    <2>1. /\ node[m].out = 0 => ~node[m].hb.due
          /\ node[m].edge => Line = 0
          /\ node[m].isHigh # 1
        BY DEF IInv, FallInv
    <2>2. node'[m].out = 0 => ~node'[m].hb.due
      <3>1. ~y.hb.due
          BY <1>3 DEF HalfBitFrame
      <3> QED BY <1>12, <2>1, <3>1
    <2>3. node'[m].edge => Line' = 0
        BY <1>4, <1>7, <1>10, <1>14, <2>1
    <2> QED BY <1>10, <2>1, <2>2, <2>3
  <1>21. LowInv'
    <2> SUFFICES ASSUME NEW m \in Nodes \ raced
                 PROVE  /\ level = 0 => node'[m].state # "IDLE"
                        /\ Line' = 0 => node'[m].state # "IDLE" \/ node'[m].edge
        BY <1>5 DEF LowInv
    <2>1. /\ level = 0 => node[m].state # "IDLE"
          /\ Line = 0 => node[m].state # "IDLE" \/ node[m].edge
        BY DEF IInv, LowInv
    <2> QED BY <1>10, <2>1
  <1>22. HeardInv'
    <2> SUFFICES ASSUME NEW k \in Nodes \ raced, NEW m \in Nodes, Inside(m)'
                 PROVE  \/ node'[k].state # "IDLE"
                        \/ /\ level = 1 /\ Line' = 0
                           /\ node'[m].cursor = 2 /\ ~node'[m].hb.due
        BY <1>5 DEF HeardInv
    <2>1. CASE m # n
        BY <1>10, <1>12, <1>14, <1>18, <2>1 DEF IInv, HeardInv
    <2>2. CASE m = n /\ Inside(n)
      <3>1. node[k].state # "IDLE"
          BY <1>1, <2>2 DEF IInv, HeardInv
      <3> QED BY <1>10, <3>1
    <2>3. CASE m = n /\ x.cursor = 1 /\ Line' = 0
      <3>1. y.cursor = 2 /\ ~y.hb.due
          BY <1>3, <1>17, <2>3 DEF HalfBitFrame
      <3>2. level = 0 => node[k].state # "IDLE"
          BY DEF IInv, LowInv
      <3> QED BY <1>4, <1>10, <1>12, <2>3, <3>1, <3>2
    <2> QED BY <1>17, <2>1, <2>2, <2>3
  <1>23. ClockInv'
    <2> SUFFICES ASSUME NEW k \in Nodes, NEW m \in Nodes, Inside(m)', Line' = 1,
                        node'[k].edge => node'[k].isHigh # None
                 PROVE  node'[k].timeout.count <= Elapsed(m)'
        BY DEF ClockInv
    <2>1. Elapsed(m)' \in Nat
      <3>1. node'[m].hb.count \in Nat /\ HalfBit \in Nat
          BY <1>10, TimingAssumption DEF NodeType, TimerType
      <3> QED BY <3>1 DEF Elapsed
    <2>2. CASE Line = 0
      <3>1. node'[k].isHigh # None
          BY <1>10, <2>2
      <3>2. node'[k].timeout.count = 0
          BY <1>10, <3>1 DEF NodeInv, HandlerInv
      <3> QED BY <2>1, <3>2
    <2>3. CASE Line = 1 /\ m # n
      <3>1. Inside(m) /\ Elapsed(m)' = Elapsed(m)
          BY <1>12, <1>18, <2>3 DEF Elapsed
      <3>2. node[k].edge => node[k].isHigh # None
          BY <1>10
      <3> QED BY <1>10, <2>3, <3>1, <3>2 DEF IInv, ClockInv
    <2>4. CASE Line = 1 /\ m = n
      <3>1. Inside(n) /\ y.cursor = x.cursor + 1 /\ y.cursor <= Len(f) /\ y.out = f[y.cursor]
          BY <1>17, <2>4
      <3>2. x.cursor >= 2 /\ x.out = f[x.cursor]
          BY <1>1, <1>16, <3>1 DEF Inside, NodeInv, CursorInv
      <3>3. x.out = 1 /\ y.out = 1
          BY <1>4, <1>7, <1>12, <2>4, LineValue
      <3>4. f[x.cursor] = 1 /\ f[x.cursor + 1] = 1
          BY <3>1, <3>2, <3>3
      <3>5. f[x.cursor - 1] # 1
        <4>1. x.cursor - 1 \in 1 .. Len(f) - 2
          <5>1. x.cursor \in Nat /\ Len(f) \in Nat /\ x.cursor + 1 <= Len(f) /\ x.cursor >= 2
              BY <1>15, <1>16, <3>1, <3>2
          <5> QED BY <5>1
        <4>2. (x.cursor - 1) + 1 = x.cursor /\ (x.cursor - 1) + 2 = x.cursor + 1
            BY <1>16
        <4>3. f[x.cursor - 1] # f[x.cursor] \/ f[x.cursor] # f[x.cursor + 1]
            BY <1>15, <4>1, <4>2
        <4> QED BY <3>4, <4>3
      <3>6. Elapsed(n) = HalfBit
          BY <1>1, <3>5, TimingAssumption DEF Elapsed
      <3>7. Elapsed(n)' = HalfBit
        <4>1. node'[n].cursor - 1 = x.cursor /\ node'[n].hb = y.hb
            BY <1>12, <1>16, <3>1
        <4>2. ~y.hb.due /\ y.hb.count = 0
            BY <1>3 DEF HalfBitFrame
        <4> QED BY <3>4, <4>1, <4>2, TimingAssumption DEF Elapsed
      <3>8. node[k].timeout.count <= Elapsed(n)
          BY <1>10, <2>4, <3>1 DEF IInv, ClockInv
      <3> QED BY <1>10, <2>4, <3>6, <3>7, <3>8
    <2> QED BY <1>4, <2>2, <2>3, <2>4
  <1>24. NoTimeoutInv'
    <2> SUFFICES ASSUME NEW k \in Nodes, NEW m \in Nodes, Inside(m)', Line' = 1, level = 1
                 PROVE  ~node'[k].timeout.due
        BY <1>5 DEF NoTimeoutInv
    <2>1. Line = 1
        BY <1>4, <1>14
    <2>2. Inside(m)
        BY <1>17, <1>18
    <2> QED BY <1>10, <2>1, <2>2 DEF IInv, NoTimeoutInv
  <1>25. MainInv'
    <2> SUFFICES ASSUME NEW k \in Nodes \ raced
                 PROVE  MainNode(node'[k], level, Line')
        BY <1>5 DEF MainInv
    <2>1. MainNode(node[k], level, Line)
        BY DEF IInv, MainInv
    <2>2. CASE k # n
        BY <1>10, <1>12, <1>14, <2>1, <2>2 DEF MainNode
    <2>3. ASSUME k = n, x.pc \in {"backoff", "start"}
          PROVE  y.queued > 0 /\ (y.cursor < 2 \/ (y.cursor = 2 /\ ~y.hb.due))
      <3>1. x.queued > 0 /\ x.cursor < 2
          BY <1>1, <2>1, <2>3 DEF MainNode
      <3>2. x.cursor # Len(f)
          BY <1>15, <1>16, <3>1
      <3>3. ~y.hb.due /\ y.queued = x.queued /\ (y.cursor = 0 \/ y.cursor = x.cursor + 1)
          BY <1>3, <3>2 DEF HalfBitFrame
      <3> QED BY <1>16, <3>1, <3>3
    <2>4. ASSUME k = n, x.pc = "state", y.queued = 0
          PROVE  x.state # "IDLE" /\ (level = 1 => Line' = 0 \/ ~x.timeout.due)
      <3>1. CASE x.queued = 0
          BY <1>14, <2>1, <2>4, <3>1 DEF MainNode
      <3>2. CASE x.queued # 0
        <4>1. x.cursor = Len(f)
            BY <1>3, <2>4, <3>2 DEF HalfBitFrame
        <4>2. Inside(n)
            BY <1>15, <1>16, <4>1 DEF Inside
        <4>3. x.state # "IDLE"
            BY <1>1, <2>4, <4>2 DEF IInv, HeardInv
        <4>4. level = 1 /\ Line = 1 => ~x.timeout.due
            BY <4>2 DEF IInv, NoTimeoutInv
        <4> QED BY <1>4, <1>14, <4>3, <4>4
      <3> QED BY <3>1, <3>2
    <2>5. CASE k = n
      <3>1. /\ node'[k].pc = x.pc /\ node'[k].state = x.state /\ node'[k].timeout = x.timeout
            /\ node'[k].queued = y.queued /\ node'[k].cursor = y.cursor /\ node'[k].hb = y.hb
          BY <1>10, <1>12, <2>5
      <3> QED BY <2>3, <2>4, <2>5, <3>1 DEF MainNode
    <2> QED BY <2>2, <2>5
  <1>26. SendsQueued'
    <2> SUFFICES ASSUME NEW m \in Nodes \ raced, node'[m].hb.run
                 PROVE  node'[m].queued > 0
        BY <1>5 DEF SendsQueued
    <2>1. node[m].hb.run => node[m].queued > 0
        BY DEF IInv, SendsQueued
    <2>2. x.hb.run
        BY <1>1 DEF NodeInv, TimersInv
    <2>3. y.hb.run => y.queued = x.queued
        BY <1>3 DEF HalfBitFrame
    <2> QED BY <1>12, <2>1, <2>2, <2>3
  <1> QED BY <1>19, <1>20, <1>21, <1>22, <1>23, <1>24, <1>25, <1>26 DEF IInv

-----------------------------------------------------------------------------
(* Time.                                                                   *)

\* A tick keeps the timers and the cursor of a node consistent.
LEMMA TickedOK ==
    ASSUME NEW x \in NodeType, NEW f, NodeInv(x, f), ~Pending(x)
    PROVE  LET y == Ticked(x) IN
           /\ y \in NodeType /\ NodeInv(y, f) /\ ~y.edge /\ y.isHigh = None
           /\ y.state = x.state /\ y.out = x.out /\ y.cursor = x.cursor
           /\ y.queued = x.queued /\ y.pc = x.pc /\ y.hb.run = x.hb.run
           /\ y.hb = Counted(x.hb) /\ y.timeout = Counted(x.timeout)
  <1> DEFINE y == Ticked(x)
             h == Counted(x.hb)
             t == Counted(x.timeout)
             b == Counted(x.backoff)
             s == x.sample \/ (x.timeout.run /\ x.timeout.count + 1 = SampleAt)
  <1>1. /\ x.hb \in TimerType /\ TimerOK(x.hb) /\ ~x.hb.due
        /\ x.timeout \in TimerType /\ TimerOK(x.timeout) /\ ~x.timeout.due
        /\ x.backoff \in TimerType /\ TimerOK(x.backoff)
        /\ ~x.edge /\ x.isHigh = None
      BY DEF NodeType, NodeInv, TimersInv, HandlerInv, Pending
  <1>2. /\ h \in TimerType /\ TimerOK(h) /\ h.period = x.hb.period /\ h.run = x.hb.run
        /\ h.raw => x.hb.raw
        /\ t \in TimerType /\ TimerOK(t) /\ t.period = x.timeout.period
        /\ t.raw => x.timeout.raw
        /\ b \in TimerType /\ TimerOK(b)
      BY <1>1, TimerOps
  <1>3. h.due => h.run /\ h.count = 0 /\ ~h.raw
      BY <1>1 DEF Counted, TimerType
  <1>4. s \in BOOLEAN
      BY DEF NodeType
  <1>5. y = [x EXCEPT !.hb = h, !.backoff = b, !.timeout = t, !.sample = s]
      BY DEF Ticked
  <1> HIDE DEF y, h, t, b, s
  <1>6. /\ y \in NodeType /\ y.edge = x.edge /\ y.isHigh = x.isHigh
        /\ y.state = x.state /\ y.out = x.out /\ y.cursor = x.cursor
        /\ y.queued = x.queued /\ y.pc = x.pc /\ y.rx = x.rx
        /\ y.hb = h /\ y.timeout = t /\ y.backoff = b
      BY <1>2, <1>4, <1>5 DEF NodeType
  <1>7. TimersInv(y)
      BY <1>2, <1>3, <1>6 DEF NodeInv, TimersInv
  <1>8. CursorInv(y, f)
      BY <1>2, <1>6 DEF NodeInv, CursorInv
  <1>9. RxInv(y) /\ HandlerInv(y)
      BY <1>1, <1>6 DEF NodeInv, RxInv, HandlerInv
  <1> QED BY <1>1, <1>2, <1>6, <1>7, <1>8, <1>9 DEF NodeInv, y, h, t

\* A tick keeps the invariant: the timeouts count no faster than the senders.
LEMMA TickKeeps ==
    ASSUME IInv, Tick
    PROVE  IInv'
  <1>1. /\ node \in [Nodes -> NodeType] /\ Line \in {0, 1}
        /\ Line = 1 <=> \A m \in Nodes : node[m].out = 1
      BY LineValue DEF IInv, TypeInv
  <1>2. /\ level' = Line /\ raced' = raced /\ calls' = calls
        /\ talkers' = talkers /\ aired' = aired
      BY DEF Tick
  <1>3. \A m \in Nodes :
            /\ node'[m] \in NodeType /\ NodeInv(node'[m], Frame[m])
            /\ ~node'[m].edge /\ node'[m].isHigh = None
            /\ node'[m].state = node[m].state /\ node'[m].out = node[m].out
            /\ node'[m].cursor = node[m].cursor /\ node'[m].queued = node[m].queued
            /\ node'[m].pc = "idle" /\ node'[m].hb.run = node[m].hb.run
            /\ node'[m].hb = Counted(node[m].hb) /\ node'[m].timeout = Counted(node[m].timeout)
    <2> SUFFICES ASSUME NEW m \in Nodes
        PROVE  /\ node'[m] \in NodeType /\ NodeInv(node'[m], Frame[m])
               /\ ~node'[m].edge /\ node'[m].isHigh = None
               /\ node'[m].state = node[m].state /\ node'[m].out = node[m].out
               /\ node'[m].cursor = node[m].cursor /\ node'[m].queued = node[m].queued
               /\ node'[m].pc = "idle" /\ node'[m].hb.run = node[m].hb.run
               /\ node'[m].hb = Counted(node[m].hb) /\ node'[m].timeout = Counted(node[m].timeout)
        OBVIOUS
    <2>1. /\ node'[m] = Ticked(node[m]) /\ ~Pending(node[m]) /\ node[m].pc = "idle"
          /\ node[m] \in NodeType /\ NodeInv(node[m], Frame[m])
        BY NodeFacts DEF Tick
    <2> QED BY <2>1, TickedOK
  <1>4. node' \in [Nodes -> NodeType]
    <2>1. node' = [m \in Nodes |-> Ticked(node[m])]
        BY DEF Tick
    <2> QED BY <1>3, <2>1
  <1>5. \A m \in Nodes : ~node[m].edge /\ node[m].isHigh = None
                         /\ ~node[m].hb.due /\ ~node[m].timeout.due
      BY NodeFacts DEF Tick, Pending, NodeInv, HandlerInv
  <1>6. Line' = Line
    <2>1. (\A m \in Nodes : node'[m].out = 1) <=> \A m \in Nodes : node[m].out = 1
        BY <1>3
    <2> QED BY <2>1, Zenon DEF Line, Level
  <1>7. \A m \in Nodes : Inside(m)' <=> Inside(m)
      BY <1>3 DEF Inside
\* A high phase inside a frame is a tick longer, and not longer than a bit.
  <1>8. ASSUME NEW m \in Nodes, Inside(m)
        PROVE  /\ Elapsed(m) \in Nat /\ Elapsed(m)' = Elapsed(m) + 1
               /\ Elapsed(m) + 1 <= 2 * HalfBit
    <2> DEFINE h == node[m].hb
               before == IF Frame[m][node[m].cursor - 1] = 1 THEN HalfBit ELSE 0
    <2>1. /\ h \in TimerType /\ TimerOK(h) /\ h.period = HalfBit /\ ~h.due
          /\ node[m].cursor \in Nat
        BY <1>1, <1>5 DEF IInv, TypeInv, NodeType, NodeInv, TimersInv
    <2>2. h.run /\ ~h.raw
        BY <1>1, <1>8, <2>1 DEF IInv, TypeInv, NodeInv, CursorInv, Inside
    <2>3. HalfBit \in Nat /\ HalfBit > 0
        BY TimingAssumption
    <2>4. /\ h.count + 1 # HalfBit => Counted(h).count = h.count + 1 /\ ~Counted(h).due
          /\ h.count + 1 = HalfBit => Counted(h).count = 0 /\ Counted(h).due
        BY <2>1, <2>2, <2>3, TimerTick
    <2>5. h.count \in Nat /\ h.count < HalfBit
        BY <2>1, <2>3 DEF TimerType, TimerOK
    <2>6. before \in Nat /\ before <= HalfBit
        BY <2>3
    <2>7. Elapsed(m) = before + h.count
        BY <2>1 DEF Elapsed
    <2>8. Elapsed(m)' = before + (IF Counted(h).due THEN HalfBit ELSE Counted(h).count)
        BY <1>3 DEF Elapsed
    <2> HIDE DEF before, h
    <2> QED BY <2>3, <2>4, <2>5, <2>6, <2>7, <2>8
\* A timeout counts at most a tick.
  <1>9. ASSUME NEW k \in Nodes
        PROVE  /\ node[k].timeout.count \in Nat
               /\ node'[k].timeout.count <= node[k].timeout.count + 1
               /\ node'[k].timeout.due => node[k].timeout.count + 1 = TimeoutAt
    <2> DEFINE t == node[k].timeout
    <2>1. t \in TimerType /\ TimerOK(t) /\ t.period = TimeoutAt /\ ~t.due /\ ~t.raw
        BY <1>1, <1>5 DEF IInv, TypeInv, NodeType, NodeInv, TimersInv
    <2>2. TimeoutAt \in Nat /\ TimeoutAt > 0
        BY TimingAssumption
    <2>3. /\ ~t.run => Counted(t) = t
          /\ t.run /\ t.count + 1 # TimeoutAt =>
                 Counted(t).count = t.count + 1 /\ ~Counted(t).due
          /\ t.run /\ t.count + 1 = TimeoutAt => Counted(t).count = 0 /\ Counted(t).due
        BY <2>1, <2>2, TimerTick
    <2>4. t.count \in Nat
        BY <2>1 DEF TimerType
    <2>5. node'[k].timeout = Counted(t)
        BY <1>3
    <2> HIDE DEF t
    <2>6. Counted(t).count <= t.count + 1 /\ (Counted(t).due => t.count + 1 = TimeoutAt)
        BY <2>1, <2>3, <2>4
    <2> QED BY <2>4, <2>5, <2>6 DEF t
  <1>10. TypeInv'
      BY <1>1, <1>2, <1>3, <1>4 DEF IInv, TypeInv
  <1>11. FallInv'
      BY <1>1, <1>2, <1>3, None = 2 DEF FallInv, None
  <1>12. LowInv'
      BY <1>2, <1>3, <1>5, <1>6 DEF IInv, LowInv
  <1>13. HeardInv'
      BY <1>2, <1>3, <1>5, <1>7 DEF IInv, HeardInv, LowInv
  <1>14. ASSUME NEW k \in Nodes, NEW m \in Nodes, Inside(m), Line = 1
         PROVE  node[k].timeout.count <= Elapsed(m)
      BY <1>5, <1>14 DEF IInv, ClockInv
  <1>15. ClockInv'
    <2> SUFFICES ASSUME NEW k \in Nodes, NEW m \in Nodes, Inside(m)', Line' = 1
                 PROVE  node'[k].timeout.count <= Elapsed(m)'
        BY DEF ClockInv
    <2>1. node[k].timeout.count <= Elapsed(m) /\ Inside(m)
        BY <1>6, <1>7, <1>14
    <2>2. node'[k].timeout.count \in Nat
        BY <1>3 DEF NodeType, TimerType
    <2> QED BY <1>8, <1>9, <2>1, <2>2
  <1>16. NoTimeoutInv'
    <2> SUFFICES ASSUME NEW k \in Nodes, NEW m \in Nodes, Inside(m)', Line' = 1
                 PROVE  ~node'[k].timeout.due
        BY DEF NoTimeoutInv
    <2>1. node[k].timeout.count <= Elapsed(m) /\ Inside(m)
        BY <1>6, <1>7, <1>14
    <2>2. 2 * HalfBit < TimeoutAt /\ HalfBit \in Nat /\ TimeoutAt \in Nat
        BY TimingAssumption
    <2> QED BY <1>8, <1>9, <2>1, <2>2
  <1>17. MainInv'
      BY <1>3 DEF MainInv, MainNode
  <1>18. SendsQueued'
      BY <1>2, <1>3 DEF IInv, SendsQueued
  <1> QED BY <1>10, <1>11, <1>12, <1>13, <1>15, <1>16, <1>17, <1>18 DEF IInv

-----------------------------------------------------------------------------
(* The theorems.                                                           *)

\* The invariant holds after reset.
LEMMA InitOK == Init => IInv
  <1> SUFFICES ASSUME Init PROVE IInv
      OBVIOUS
  <1> DEFINE S == Stopped(HalfBit)
             B == Stopped(100 * TicksPerMs)
             T == [Stopped(TimeoutAt) EXCEPT !.raw = FALSE]
  <1>1. HalfBit \in Nat /\ TimeoutAt \in Nat /\ 100 * TicksPerMs \in Nat
      BY TimingAssumption
  <1>2. ASSUME NEW p \in Nat
        PROVE  /\ Stopped(p) \in TimerType /\ TimerOK(Stopped(p)) /\ Stopped(p).period = p
               /\ ~Stopped(p).run /\ ~Stopped(p).due
               /\ Stopped(p).count = 0
      BY DEF TimerType, TimerOK, Stopped
  <1>3. /\ S \in TimerType /\ TimerOK(S) /\ S.period = HalfBit /\ ~S.run /\ ~S.due
        /\ B \in TimerType /\ TimerOK(B)
      BY <1>1, <1>2
  <1>4. /\ T \in TimerType /\ TimerOK(T) /\ T.period = TimeoutAt /\ ~T.run /\ ~T.due /\ ~T.raw
        /\ T.count = 0
      BY <1>1, <1>2 DEF TimerType, TimerOK
  <1> HIDE DEF S, B, T
  <1>5. Fresh = [ state |-> "IDLE", out |-> 1, edge |-> FALSE, isHigh |-> None, hb |-> S,
                  timeout |-> T, sample |-> FALSE, backoff |-> B, cursor |-> 0, queued |-> 0,
                  rx |-> <<1>>, got |-> << >>, pc |-> "idle" ]
      BY DEF Fresh, S, B, T
  <1>6. <<1>> \in Seq({0, 1}) /\ << >> \in Seq({0, 1}) /\ Len(<<1>>) = 1
      OBVIOUS
  <1>7. /\ Fresh.state = "IDLE" /\ Fresh.out = 1 /\ ~Fresh.edge
        /\ Fresh.isHigh = None /\ Fresh.hb = S /\ Fresh.timeout = T /\ Fresh.backoff = B
        /\ Fresh.cursor = 0 /\ Fresh.queued = 0 /\ Fresh.rx = <<1>>
        /\ Fresh.pc = "idle"
      BY <1>5
  <1>8. Fresh \in NodeType
      BY <1>3, <1>4, <1>5, <1>6 DEF NodeType, States, PCs
  <1>9. ASSUME NEW n \in Nodes PROVE NodeInv(Fresh, Frame[n])
    <2>1. TimersInv(Fresh)
        BY <1>3, <1>4, <1>7 DEF TimersInv
    <2>2. CursorInv(Fresh, Frame[n])
        BY <1>7, FrameFacts DEF CursorInv
    <2>3. MaxBytes * ByteBits \in Nat
        BY BufferAssumption
    <2>4. RxInv(Fresh) /\ HandlerInv(Fresh)
        BY <1>6, <1>7, <2>3 DEF RxInv, HandlerInv
    <2> QED BY <2>1, <2>2, <2>4 DEF NodeInv
  <1>10. \A n \in Nodes : node[n] = Fresh /\ calls[n] = 0
      BY DEF Init
  <1>11. level = 1 /\ raced = {} /\ talkers = {} /\ aired = << >>
      BY DEF Init
  <1>12. TypeInv
    <2>1. \A n \in Nodes : MaxCalls[n] \in Nat
        BY BusAssumption
    <2>2. node \in [Nodes -> NodeType] /\ calls \in [Nodes -> Nat]
        BY <1>8 DEF Init
    <2> QED BY <1>7, <1>9, <1>10, <1>11, <2>1, <2>2 DEF TypeInv
  <1>13. Line = 1
      BY <1>7, <1>10 DEF Line, Level
  <1>14. FallInv
      BY <1>7, <1>10 DEF FallInv, None
  <1>15. LowInv
      BY <1>11, <1>13 DEF LowInv
  <1>16. HeardInv /\ ClockInv /\ NoTimeoutInv
      BY <1>7, <1>10 DEF HeardInv, ClockInv, NoTimeoutInv, Inside
  <1>17. MainInv
      BY <1>7, <1>10 DEF MainInv, MainNode
  <1>18. SendsQueued
      BY <1>3, <1>7, <1>10 DEF SendsQueued
  <1> QED BY <1>12, <1>14, <1>15, <1>16, <1>17, <1>18 DEF IInv

\* Every step keeps the invariant.
LEMMA NextKeeps == IInv /\ [Next]_vars => IInv'
  <1> SUFFICES ASSUME IInv, [Next]_vars PROVE IInv'
      OBVIOUS
  <1>1. CASE Tick
      BY <1>1, TickKeeps
  <1>2. ASSUME NEW n \in Nodes, NetworkTx(n) \/ NetworkTxNothing(n) \/ Main(n)
        PROVE  IInv'
      BY <1>2, MainKeeps
  <1>3. ASSUME NEW n \in Nodes, Handler(n)
        PROVE  IInv'
    <2>1. CASE ReadEdge(n)
        BY <2>1, ReadEdgeKeeps
    <2>2. CASE UseEdge(n)
        BY <2>2, UseEdgeKeeps
    <2>3. CASE ServeTimeout(n)
        BY <2>3, TimeoutKeeps
    <2>4. CASE ServeSample(n)
        BY <2>4, SampleKeeps
    <2>5. CASE ServeBackoff(n)
        BY <2>5, BackoffKeeps
    <2>6. CASE ServeHalfBit(n)
        BY <2>6, HalfBitKeeps
    <2> QED BY <1>3, <2>1, <2>2, <2>3, <2>4, <2>5, <2>6 DEF Handler
  <1>4. CASE UNCHANGED vars
    <2>1. /\ node' = node /\ calls' = calls /\ level' = level /\ raced' = raced
          /\ talkers' = talkers /\ aired' = aired
        BY <1>4 DEF vars, traffic
    <2>2. Line' = Line
        BY <2>1 DEF Line, Level
    <2>3. \A m \in Nodes : (Inside(m)' <=> Inside(m)) /\ Elapsed(m)' = Elapsed(m)
        BY <2>1 DEF Inside, Elapsed
    <2>4. TypeInv' /\ FallInv' /\ LowInv' /\ SendsQueued'
        BY <2>1, <2>2 DEF IInv, TypeInv, FallInv, LowInv, SendsQueued
    <2>5. HeardInv' /\ ClockInv' /\ NoTimeoutInv' /\ MainInv'
        BY <2>1, <2>2, <2>3 DEF IInv, HeardInv, ClockInv, NoTimeoutInv, MainInv
    <2> QED BY <2>4, <2>5 DEF IInv
  <1> QED BY <1>1, <1>2, <1>3, <1>4 DEF Next

\* The invariant holds always.
LEMMA Invariance == SafetySpec => []IInv
  <1> QED BY InitOK, NextKeeps, PTL DEF SafetySpec

\* The timers' counts stay below their periods, the cursor inside the frame,
\* the receive index at most one past its buffer, and no more frames are queued
\* than network_tx has been called.
THEOREM TypeCorrect == SafetySpec => []TypeOK
  <1>1. IInv => TypeOK
    <2> SUFFICES ASSUME IInv PROVE TypeOK
        OBVIOUS
    <2>1. ASSUME NEW n \in Nodes
          PROVE  /\ node[n].state \in States /\ node[n].out \in {0, 1}
                 /\ {node[n].edge, node[n].sample} \subseteq BOOLEAN
                 /\ node[n].isHigh \in {0, 1, None} /\ (node[n].edge \/ Free(n))
                 /\ TimerOK(node[n].hb) /\ TimerOK(node[n].timeout) /\ TimerOK(node[n].backoff)
                 /\ node[n].cursor \in 0 .. Len(Frame[n])
                 /\ calls[n] \in 0 .. MaxCalls[n] /\ node[n].queued \in 0 .. calls[n]
                 /\ Len(node[n].rx) \in 1 .. MaxBytes * ByteBits + 1
                 /\ node[n].pc \in {"idle", "queue", "state", "backoff", "start"}
      <3>1. node[n] \in NodeType /\ NodeInv(node[n], Frame[n])
          BY NodeFacts
      <3>2. /\ node[n].queued \in Nat /\ calls[n] \in Nat /\ node[n].queued <= calls[n]
            /\ calls[n] <= MaxCalls[n] /\ MaxCalls[n] \in Nat
          BY NodeFacts DEF IInv, TypeInv
      <3>3. calls[n] \in 0 .. MaxCalls[n] /\ node[n].queued \in 0 .. calls[n]
          BY <3>2
      <3>4. node[n].cursor \in 0 .. Len(Frame[n])
          BY <3>1, FrameFacts DEF NodeType, NodeInv, CursorInv
      <3>5. node[n].edge \/ Free(n)
          BY <3>1 DEF NodeInv, HandlerInv, Free
      <3>6. TimerOK(node[n].hb) /\ TimerOK(node[n].timeout) /\ TimerOK(node[n].backoff)
          BY <3>1 DEF NodeInv, TimersInv
      <3>7. Len(node[n].rx) \in 1 .. MaxBytes * ByteBits + 1
          BY <3>1 DEF NodeInv, RxInv
      <3> QED BY <3>1, <3>3, <3>4, <3>5, <3>6, <3>7 DEF NodeType, PCs
    <2> QED BY <2>1 DEF TypeOK, IInv, TypeInv
  <1> QED BY <1>1, Invariance, PTL

\* The half-bit timer runs only over a queue with a frame, unless the timeout
\* of the node has expired as the line changed.
THEOREM SendsAreQueued == SafetySpec => []SendsQueued
  <1>1. IInv => SendsQueued
      BY DEF IInv
  <1> QED BY <1>1, Invariance, PTL

\* A node that has served its edges and calls the channel idle is right, unless
\* its timeout has expired as the line changed.
THEOREM IdleMeansQuiet == SafetySpec => []IdleIsQuiet
  <1>1. IInv => IdleIsQuiet
    <2> SUFFICES ASSUME IInv, NEW n \in Nodes \ raced, node[n].state = "IDLE", ~node[n].edge,
                        NEW m \in Nodes
                 PROVE  node[m].cursor <= 1
        BY DEF IdleIsQuiet
    <2>1. Line # 0
        BY DEF IInv, LowInv
    <2>2. ~Inside(m)
        BY <2>1 DEF IInv, HeardInv
    <2>3. node[m].cursor \in Nat
        BY NodeFacts DEF NodeType
    <2> QED BY <2>2, <2>3 DEF Inside
  <1> QED BY <1>1, Invariance, PTL

-----------------------------------------------------------------------------
(* What the transmit queue's model assumes.                                *)

\* A step shows the other nodes an edge, and no more.
LEMMA StepShows ==
    ASSUME node \in [Nodes -> NodeType], NEW n \in Nodes, NEW y \in NodeType, Step(n, y),
           NEW m \in Nodes
    PROVE  /\ node'[m].timeout = (IF m = n THEN y ELSE node[m]).timeout
           /\ node'[m].queued = (IF m = n THEN y ELSE node[m]).queued
  <1> DEFINE ns == [node EXCEPT ![n] = y]
  <1>1. ns[m] = (IF m = n THEN y ELSE node[m]) /\ ns[m] \in NodeType
      OBVIOUS
  <1>2. node'[m] = ns[m] \/ node'[m] = [ns[m] EXCEPT !.edge = TRUE]
      BY StepEffect
  <1> HIDE DEF ns
  <1>3. node'[m].timeout = ns[m].timeout /\ node'[m].queued = ns[m].queued
      BY <1>1, <1>2 DEF NodeType
  <1> QED BY <1>1, <1>3

\* Only the timeout handler answers a timeout, and only the half-bit handler takes
\* a frame from the queue.
LEMMA OthersWait ==
    ASSUME IInv, NEW n \in Nodes,
           \/ NetworkTx(n) \/ NetworkTxNothing(n) \/ Main(n)
           \/ ReadEdge(n) \/ UseEdge(n) \/ ServeSample(n) \/ ServeBackoff(n)
    PROVE  \E y \in NodeType : /\ Step(n, y) /\ y.timeout.due = node[n].timeout.due
                               /\ node[n].queued <= y.queued
  <1> DEFINE x == node[n]
             Goal == \E y \in NodeType : /\ Step(n, y) /\ y.timeout.due = x.timeout.due
                                         /\ x.queued <= y.queued
  <1>1. x \in NodeType /\ NodeInv(x, Frame[n]) /\ x.queued \in Nat
      BY NodeFacts
  <1>2. ASSUME NEW here, NEW there \in PCs, NEW z \in NodeType, At(n, here, there, z),
               z.timeout = x.timeout, x.queued <= z.queued
        PROVE  Goal
    <2> DEFINE y == [z EXCEPT !.pc = there]
    <2>1. y \in NodeType /\ y.timeout = z.timeout /\ y.queued = z.queued
        BY <1>2 DEF NodeType
    <2>2. Step(n, y)
        BY <1>2 DEF At
    <2> HIDE DEF y
    <2> QED BY <1>2, <2>1, <2>2
  <1>3. CASE NetworkTx(n)
    <2> DEFINE z == [x EXCEPT !.queued = @ + 1]
    <2>1. At(n, "idle", "queue", z)
        BY <1>3 DEF NetworkTx
    <2>2. z \in NodeType /\ z.timeout = x.timeout /\ z.queued = x.queued + 1
        BY <1>1 DEF NodeType
    <2> HIDE DEF z
    <2>3. x.queued <= z.queued
        BY <1>1, <2>2
    <2> QED BY <1>2, <2>1, <2>2, <2>3 DEF PCs
  <1>4. CASE NetworkTxNothing(n)
    <2>1. At(n, "idle", "queue", x)
        BY <1>4 DEF NetworkTxNothing
    <2> QED BY <1>1, <1>2, <2>1 DEF PCs
  <1>5. CASE TestQueue(n) \/ TestState(n) \/ TestBackoff(n)
    <2>1. PICK here, there \in PCs : At(n, here, there, x)
        BY <1>5 DEF TestQueue, TestState, TestBackoff, Test, PCs
    <2> QED BY <1>1, <1>2, <2>1
  <1>6. CASE Start(n)
    <2> DEFINE z == Launched(x)
    <2>1. At(n, "start", "idle", z)
        BY <1>6 DEF Start
    <2>2. z \in NodeType /\ z = [x EXCEPT !.hb = z.hb]
        BY <1>1, LaunchedOK
    <2> HIDE DEF z
    <2>3. z.timeout = x.timeout /\ z.queued = x.queued
        BY <1>1, <2>2 DEF NodeType
    <2> QED BY <1>1, <1>2, <2>1, <2>2, <2>3 DEF PCs
  <1>7. CASE ReadEdge(n)
    <2> DEFINE t == Started(Rewound(x.timeout))
               y == EdgeRead(x, Line)
    <2>1. t \in TimerType /\ t.due = x.timeout.due
      <3>1. x.timeout \in TimerType
          BY <1>1 DEF NodeType
      <3> QED BY <3>1 DEF TimerType, Started, Rewound
    <2>2. y = [x EXCEPT !.isHigh = Line, !.timeout = t] /\ Line \in {0, 1}
        BY LineValue DEF EdgeRead, IInv, TypeInv
    <2>3. Step(n, y)
        BY <1>7 DEF ReadEdge
    <2> HIDE DEF t, y
    <2>4. y \in NodeType /\ y.timeout = t /\ y.queued = x.queued
        BY <1>1, <2>1, <2>2 DEF NodeType
    <2> QED BY <1>1, <2>1, <2>3, <2>4
  <1>8. CASE UseEdge(n)
    <2> DEFINE b == x.isHigh
               u == [x EXCEPT !.edge = FALSE, !.isHigh = None]
               v == EdgeState(u, b)
               y == RxPushBit(v, b)
    <2>1. b \in {0, 1} /\ Step(n, y)
        BY <1>1, <1>8 DEF UseEdge, EdgeUsed, Free, NodeType
    <2>2. /\ u \in NodeType /\ u.timeout = x.timeout /\ u.queued = x.queued /\ u.rx = x.rx
        BY <1>1 DEF NodeType, None
    <2> HIDE DEF u
    <2>3. v = u \/ v = [u EXCEPT !.state = "BUSY"]
        BY DEF EdgeState, SetState
    <2> HIDE DEF v
    <2>4. v \in NodeType /\ v.timeout = x.timeout /\ v.queued = x.queued /\ v.rx = x.rx
        BY <2>2, <2>3 DEF NodeType, States
    <2>5. y \in NodeType /\ RxSame(v, y)
        BY <1>1, <2>1, <2>4, RxOps DEF NodeInv, RxInv
    <2> HIDE DEF y
    <2>6. y.timeout = x.timeout /\ y.queued = x.queued
        BY <2>4, <2>5 DEF RxSame, NodeType
    <2> QED BY <1>1, <2>1, <2>5, <2>6
  <1>9. CASE ServeSample(n)
    <2> DEFINE b == x.rx[Len(x.rx)]
               u == [x EXCEPT !.sample = FALSE]
               y == RxPushBit(u, b)
    <2>1. b \in {0, 1} /\ Step(n, y)
        BY <1>1, <1>9, RxOps DEF ServeSample, SampleHandler, NodeInv
    <2> HIDE DEF b
    <2>2. u \in NodeType /\ u.timeout = x.timeout /\ u.queued = x.queued /\ u.rx = x.rx
        BY <1>1 DEF NodeType
    <2> HIDE DEF u
    <2>3. y \in NodeType /\ RxSame(u, y)
        BY <1>1, <2>1, <2>2, RxOps DEF NodeInv, RxInv
    <2> HIDE DEF y
    <2>4. y.timeout = x.timeout /\ y.queued = x.queued
        BY <2>2, <2>3 DEF RxSame, NodeType
    <2> QED BY <1>1, <2>1, <2>3, <2>4
  <1>10. CASE ServeBackoff(n)
    <2> DEFINE t == Halted(Served(x.backoff))
               u == [x EXCEPT !.backoff = t]
               y == StartTx(u)
    <2>1. Step(n, y)
        BY <1>10 DEF ServeBackoff, BackoffHandler
    <2>2. t \in TimerType /\ TimerOK(t)
      <3>1. x.backoff \in TimerType /\ TimerOK(x.backoff)
          BY <1>1 DEF NodeType, NodeInv, TimersInv
      <3> QED BY <3>1 DEF TimerType, TimerOK, Halted, Served
    <2> HIDE DEF t
    <2>3. /\ u \in NodeType /\ u.timeout = x.timeout /\ u.queued = x.queued
          /\ u.hb = x.hb /\ u.backoff = t /\ u.cursor = x.cursor /\ u.out = x.out
          /\ u.rx = x.rx /\ u.isHigh = x.isHigh /\ u.edge = x.edge
        BY <1>1, <2>2 DEF NodeType
    <2> HIDE DEF u
    <2>4. NodeInv(u, Frame[n])
        BY <1>1, <2>2, <2>3 DEF NodeInv, TimersInv, CursorInv, RxInv, HandlerInv
    <2>5. y \in NodeType /\ y.timeout = x.timeout /\ y.queued = x.queued
        BY <2>3, <2>4, StartTxOK DEF StartFrame
    <2> HIDE DEF y
    <2> QED BY <1>1, <2>1, <2>5
  <1> QED BY <1>3, <1>4, <1>5, <1>6, <1>7, <1>8, <1>9, <1>10 DEF Main

\* What TxQueue assumes of the time it does not have: unless the timeout of the
\* node has expired as the line changed, no timeout finds a high line in the
\* middle of the node's own frame, and no frame leaves the queue while main is
\* between the last test of network_start_tx and the start of the timer.
THEOREM TxQueueMayAssume == SafetySpec => TxQueueAssumes
  <1> DEFINE Step1(n) ==
                 /\ node[n].timeout.due /\ ~node'[n].timeout.due /\ Line = 1
                       => node[n].cursor <= 1
                 /\ node'[n].queued < node[n].queued => node[n].pc # "start"
  <1>1. ASSUME IInv, [Next]_vars, NEW n \in Nodes, n \notin raced' PROVE Step1(n)
    <2> DEFINE x == node[n]
               Kept == node'[n].timeout.due = x.timeout.due /\ x.queued <= node'[n].queued
    <2>1. x \in NodeType /\ NodeInv(x, Frame[n]) /\ x.queued \in Nat /\ x.cursor \in Nat
          /\ node \in [Nodes -> NodeType]
        BY <1>1, NodeFacts DEF NodeType, IInv, TypeInv
    <2>2. node'[n].queued \in Nat
        BY <1>1, NextKeeps DEF IInv, TypeInv, NodeType
    <2>3. Kept => Step1(n)
        BY <2>1, <2>2
    <2>4. ASSUME NEW m \in Nodes, NEW y \in NodeType, Step(m, y),
                 m = n => y.timeout.due = x.timeout.due /\ x.queued <= y.queued
          PROVE  Step1(n)
      <3>1. /\ node'[n].timeout = (IF n = m THEN y ELSE node[n]).timeout
            /\ node'[n].queued = (IF n = m THEN y ELSE node[n]).queued
          BY <2>1, <2>4, StepShows
      <3>2. x.queued <= x.queued
          BY <2>1
      <3> QED BY <2>3, <2>4, <3>1, <3>2
    <2>5. CASE Tick
      <3>1. node'[n] = Ticked(x)
          BY <2>5 DEF Tick
      <3>2. ~x.timeout.due
          BY <2>5 DEF Tick, Pending
      <3>3. node'[n].queued = x.queued
          BY <2>1, <3>1 DEF Ticked, NodeType
      <3> QED BY <2>1, <3>2, <3>3
    <2>6. ASSUME NEW m \in Nodes,
                 \/ NetworkTx(m) \/ NetworkTxNothing(m) \/ Main(m)
                 \/ ReadEdge(m) \/ UseEdge(m) \/ ServeSample(m) \/ ServeBackoff(m)
          PROVE  Step1(n)
        BY <1>1, <2>4, <2>6, OthersWait
\* The line was high when the instant began, so no frame is being sent.
    <2>7. ASSUME NEW m \in Nodes, ServeTimeout(m)
          PROVE  Step1(n)
      <3> DEFINE z == node[m]
                 y == TimeoutHandler(z, Line)
                 t == Halted(Served(z.timeout))
                 u == [z EXCEPT !.timeout = t]
                 s == IF Line = 1 THEN "IDLE" ELSE "COLLISION"
                 v == SetState(u, s)
      <3>1. z \in NodeType /\ NodeInv(z, Frame[m]) /\ z.isHigh = None /\ z.timeout.due
            /\ Step(m, y)
          BY <1>1, <2>7, NodeFacts DEF ServeTimeout, Free
      <3>2. t \in TimerType /\ TimerOK(t) /\ t.period = z.timeout.period /\ t.raw = z.timeout.raw
        <4>1. z.timeout \in TimerType /\ TimerOK(z.timeout)
            BY <3>1 DEF NodeType, NodeInv, TimersInv
        <4> QED BY <4>1 DEF TimerType, TimerOK, Halted, Served
      <3>3. y = (IF Line = 1 THEN RxPush(v) ELSE RxReset(v))
          BY DEF TimeoutHandler
      <3> HIDE DEF t, y
      <3>4. /\ u \in NodeType /\ u.queued = z.queued /\ u.timeout = t
            /\ u.hb = z.hb /\ u.backoff = z.backoff /\ u.cursor = z.cursor /\ u.out = z.out
            /\ u.rx = z.rx /\ u.isHigh = z.isHigh /\ u.edge = z.edge
          BY <3>1, <3>2 DEF NodeType
      <3> HIDE DEF u
      <3>5. NodeInv(u, Frame[m])
          BY <3>1, <3>2, <3>4 DEF NodeInv, TimersInv, CursorInv, RxInv, HandlerInv
      <3>6. s \in States
          BY DEF States
      <3> HIDE DEF s
      <3>7. NodeInv(v, Frame[m]) /\ v \in NodeType /\ v.queued = z.queued
          BY <3>4, <3>5, <3>6, SetStateOK DEF StateFrame
      <3> HIDE DEF v
      <3>8. y \in NodeType /\ RxSame(v, y)
          BY <3>3, <3>7, RxOps DEF NodeInv
      <3>9. y.queued = z.queued
          BY <3>7, <3>8 DEF RxSame, NodeType
      <3>10. node'[n].queued = x.queued /\ (n # m => node'[n].timeout = x.timeout)
          BY <2>1, <3>1, <3>8, <3>9, StepShows
      <3>11. CASE n # m
          BY <2>1, <2>3, <3>10, <3>11
      <3>12. CASE n = m
        <4>1. Line = level
            BY <1>1, <2>7, <3>12 DEF ServeTimeout
        <4>2. Line = 1 => ~Inside(n)
            BY <1>1, <3>1, <3>12, <4>1 DEF IInv, NoTimeoutInv
        <4> QED BY <2>1, <3>10, <4>2 DEF Inside
      <3> QED BY <3>11, <3>12
\* A frame leaves the queue when the handler is at its end; main has seen the
\* channel idle, so it is at its beginning.
    <2>8. ASSUME NEW m \in Nodes, ServeHalfBit(m)
          PROVE  Step1(n)
      <3> DEFINE z == node[m]
      <3>1. z \in NodeType /\ NodeInv(z, Frame[m]) /\ z.hb.due /\ z.isHigh = None
          BY <1>1, <2>8, NodeFacts DEF ServeHalfBit, Free
      <3>2. PICK r \in Randoms : Step(m, HalfBitHandler(z, Frame[m], r))
          BY <2>8 DEF ServeHalfBit
      <3> DEFINE y == HalfBitHandler(z, Frame[m], r)
      <3>3. HalfBitFrame(z, y, Frame[m]) /\ Step(m, y)
          BY <3>1, <3>2, HalfBitOK
      <3> HIDE DEF y
      <3>4. y \in NodeType /\ y.timeout = z.timeout
            /\ (y.queued = z.queued \/ z.cursor = Len(Frame[m]))
          BY <3>3 DEF HalfBitFrame
      <3>5. /\ node'[n].timeout = x.timeout
            /\ node'[n].queued = x.queued \/ (n = m /\ x.cursor = Len(Frame[n]))
          BY <2>1, <3>3, <3>4, StepShows
      <3>6. CASE node'[n].queued = x.queued
          BY <2>1, <2>3, <3>5, <3>6
      <3>7. CASE n = m /\ x.cursor = Len(Frame[n])
        <4>1. n \notin raced
            BY <1>1, <2>8 DEF ServeHalfBit
        <4>2. MainNode(x, level, Line)
            BY <1>1, <4>1, UnracedFacts
        <4>3. Len(Frame[n]) \in Nat /\ Len(Frame[n]) > 2
            BY FrameFacts
        <4>4. x.pc # "start"
            BY <2>1, <3>1, <3>7, <4>2, <4>3 DEF MainNode
        <4> QED BY <3>5, <4>4
      <3> QED BY <3>5, <3>6, <3>7
    <2>9. CASE UNCHANGED vars
        BY <2>1, <2>3, <2>9 DEF vars
    <2> QED BY <1>1, <2>5, <2>6, <2>7, <2>8, <2>9 DEF Next, Handler
  <1>2. IInv /\ [Next]_vars => [\A n \in Nodes \ raced' : Step1(n)]_vars
      BY <1>1
  <1> QED BY <1>2, Invariance, PTL DEF SafetySpec, TxQueueAssumes
=============================================================================
