--------------------------- MODULE TxQueue_proofs ---------------------------
(***************************************************************************)
(* Proofs about the transmit queue, for every size of the queue, number of *)
(* calls, number of collisions and length of the frames.                   *)
(***************************************************************************)
EXTENDS TxQueue, FrameRing_proofs, SequenceTheorems

-----------------------------------------------------------------------------
(* The inductive invariant, in parts.                                      *)

\* Main holds a frame from the call of network_tx to the end of the push.
CallsInv == pc \in {"push", "copy", "copying", "size", "publish"} => calls > 0

\* The test for a full queue stays true: nobody else pushes.
SpaceInv == pc \in {"copy", "copying", "size", "publish"} => ~Full

\* The test for an empty queue stays true: main is prompt.
StartInv == pc = "start" => ~Empty

\* What main has built of the frame it is pushing.
BuildInv == /\ pc \in {"size", "publish"} => slots[push].buffer = calls
            /\ pc = "publish" => slots[push].size = HalfBits[calls]

\* The cursor is 0 between attempts; within one, every half-bit came from the
\* slot of the oldest frame.
CursorInv == /\ ~hb => cursor = 0
             /\ onWire = IF cursor = 0 THEN {} ELSE {slots[Sending].buffer}

IsWhole(slot) == slot.buffer \in Frames /\ slot.size = HalfBits[slot.buffer]

\* Every queued slot holds one whole frame and the size of that frame.
QueuedInv == \A k \in 1 .. Count(pop, push) : IsWhole(slots[SlotAt(pop, k)])

IInv == /\ TypeOK /\ CallsInv /\ SpaceInv /\ StartInv /\ BuildInv
        /\ CursorInv /\ QueuedInv /\ TickFindsFrame

-----------------------------------------------------------------------------
\* The invariant holds after reset.
LEMMA InitIInv == Init => IInv
  <1> SUFFICES ASSUME Init PROVE IInv
    OBVIOUS
  <1>1. TypeOK
    BY QueueSizeAssumption, TxAssumption
    DEF Init, TypeOK, PCs, States, Frames, Torn, Indices, InitialPop, InitialPush
  <1>2. Count(pop, push) = 0
    BY DEF Init, Count, InitialPop, InitialPush
  <1> QED
    BY <1>1, <1>2 DEF Init, IInv, CallsInv, SpaceInv, StartInv, BuildInv,
                      CursorInv, QueuedInv, TickFindsFrame

\* The number of the last call is that of a frame.
LEMMA CallIsFrame ==
    ASSUME TypeOK, calls > 0
    PROVE  calls \in Frames /\ HalfBits[calls] \in Nat /\ HalfBits[calls] > 0
  BY TxAssumption DEF TypeOK, Frames

\* A step that leaves the queue alone leaves what is said of its slots alone.
LEMMA QueueUntouched ==
    ASSUME QueuedInv, UNCHANGED queue
    PROVE  QueuedInv' /\ Full' = Full /\ Empty' = Empty /\ Sending' = Sending
  BY DEF QueuedInv, queue, Full, Empty, Sending, IsWhole

\* The slot main writes to is not queued, so it is not the one being sent.
LEMMA WritesSpareQueued ==
    ASSUME IInv, NEW node, slots' = [slots EXCEPT ![push] = node],
           UNCHANGED <<push, pop>>, ~Full
    PROVE  /\ QueuedInv'
           /\ cursor # 0 => slots'[Sending] = slots[Sending]
  <1>1. push \in Indices /\ pop \in Indices
    BY DEF IInv, TypeOK
  <1>2. \A i \in Indices : i # push => slots'[i] = slots[i]
    BY <1>1 DEF IInv, TypeOK
  <1>3. ASSUME NEW k \in 1 .. Count(pop, push)
        PROVE  IsWhole(slots'[SlotAt(pop, k)])
    <2>1. SlotAt(pop, k) \in Indices /\ SlotAt(pop, k) # push
      BY <1>1, PushSlotIsFree
    <2>2. slots'[SlotAt(pop, k)] = slots[SlotAt(pop, k)]
      BY <1>2, <2>1
    <2> QED BY <2>2 DEF IInv, QueuedInv
  <1>4. ASSUME cursor # 0 PROVE slots'[Sending] = slots[Sending]
    <2>1. ~Empty
      BY <1>4 DEF IInv, CursorInv, TickFindsFrame
    <2>2. Sending # push /\ Sending \in Indices
      BY <1>1, <2>1, SuccValue DEF Empty, IsEmpty, Sending
    <2> QED BY <1>2, <2>2
  <1> QED BY <1>3, <1>4 DEF QueuedInv, IsWhole

-----------------------------------------------------------------------------
(* Every step keeps the invariant.                                         *)

\* Every step keeps the variables in their ranges.
LEMMA TypeStep == IInv /\ [Next]_vars => TypeOK'
  <1> SUFFICES ASSUME IInv, [Next]_vars PROVE TypeOK'
    OBVIOUS
  <1> USE DEF IInv, TypeOK, PCs, States, queue, bus, main, air
  <1>1. CASE NetworkTx
    BY <1>1, TxAssumption DEF NetworkTx
  <1>2. CASE NetworkTxNothing
    BY <1>2 DEF NetworkTxNothing
  <1>3. CASE PushFull
    BY <1>3 DEF PushFull
  <1>4. CASE PushNotFull
    BY <1>4 DEF PushNotFull
  <1>5. CASE CopyBegin
    BY <1>5 DEF CopyBegin
  <1>6. CASE CopyEnd
    BY <1>6 DEF CopyEnd, Frames, Torn
  <1>7. CASE SetSize
    <2>1. HalfBits[calls] \in Nat
      BY <1>7, CallIsFrame DEF SetSize, CallsInv
    <2> QED BY <1>7, <2>1 DEF SetSize
  <1>8. CASE Publish
    BY <1>8, SuccValue DEF Publish
  <1>9. CASE StartRefused \/ StartAllowed \/ Start
    BY <1>9 DEF StartRefused, StartAllowed, Start, Return
  <1>10. CASE SendHalfBit
    <2>1. TickFindsFrame /\ ~Empty
      BY <1>10 DEF TickFindsFrame, SendHalfBit
    <2>2. Sending \in Indices
      BY SuccValue DEF Sending
    <2> QED BY <1>10, <2>2 DEF SendHalfBit
  <1>11. CASE FrameDone
    <2>1. Emitted \in Frames \cup {Torn}
      BY DEF Emitted
    <2>2. sent' \in Seq(Frames \cup {Torn})
      BY <1>11, <2>1, AppendProperties DEF FrameDone
    <2> QED BY <1>11, <2>2, SuccValue DEF FrameDone, PopSent
  <1>12. CASE Abort
    BY <1>12 DEF Abort, CursorReset
  <1>13. CASE ExpectedEdge \/ ForeignEdge
    BY <1>13 DEF ExpectedEdge, ForeignEdge, AfterEdge
  <1>14. CASE TimeoutIdle \/ BackoffOver
    BY <1>14 DEF TimeoutIdle, BackoffOver, StartFromHandler
  <1>15. CASE TimeoutCollision
    <2>1. collisions' \in 0 .. MaxCollisions
      BY <1>15, TxAssumption DEF TimeoutCollision
    <2> QED BY <1>15, <2>1 DEF TimeoutCollision
  <1>16. CASE UNCHANGED vars
    BY <1>16 DEF vars
  <1> QED
    BY <1>1, <1>2, <1>3, <1>4, <1>5, <1>6, <1>7, <1>8, <1>9, <1>10, <1>11,
       <1>12, <1>13, <1>14, <1>15, <1>16 DEF Next, Main, TIM4

\* What main knows: each part is about main's own position and the indices.
LEMMA MainPartsStep ==
    IInv /\ [Next]_vars => CallsInv' /\ SpaceInv' /\ StartInv' /\ BuildInv'
  <1> SUFFICES ASSUME IInv, [Next]_vars
               PROVE  CallsInv' /\ SpaceInv' /\ StartInv' /\ BuildInv'
    OBVIOUS
  <1>1. push \in Indices /\ pop \in Indices /\ calls \in Nat
    BY TxAssumption DEF IInv, TypeOK
  <1> USE DEF IInv, CallsInv, SpaceInv, StartInv, BuildInv, queue, bus, main, air
  <1>2. CASE NetworkTx \/ NetworkTxNothing \/ PushFull \/ PushNotFull
    BY <1>1, <1>2 DEF NetworkTx, NetworkTxNothing, PushFull, PushNotFull, Full, Empty
  <1>3. CASE CopyBegin \/ CopyEnd \/ SetSize
    <2>1. UNCHANGED <<push, pop, calls>> /\ pc' \in {"copying", "size", "publish"}
      BY <1>3 DEF CopyBegin, CopyEnd, SetSize
    <2>2. CallsInv' /\ SpaceInv' /\ StartInv'
      BY <1>3, <2>1 DEF Full, CopyBegin, CopyEnd, SetSize
    <2>3. BuildInv'
      BY <1>1, <1>3 DEF TypeOK, CopyBegin, CopyEnd, SetSize
    <2> QED BY <2>2, <2>3
  <1>4. CASE Publish
    BY <1>4 DEF Publish
  <1>5. CASE StartRefused \/ StartAllowed \/ Start
    BY <1>5 DEF StartRefused, StartAllowed, Start, Return, MayStart, Empty
  <1>6. CASE FrameDone
    <2>1. ~Empty /\ pop' = Succ(pop)
      BY <1>6 DEF FrameDone, PopSent, TickFindsFrame
    <2>2. ~Full'
      BY <1>1, <1>6, <2>1, PopCount DEF FrameDone, Empty, Full
    <2>3. UNCHANGED <<slots, push, pc, calls>> /\ pc # "start"
      BY <1>6 DEF FrameDone
    <2> QED BY <2>2, <2>3
  <1>7. CASE UNCHANGED <<queue, main>>
    BY <1>7 DEF Full, Empty
  <1>8. ASSUME SendHalfBit \/ Abort \/ ExpectedEdge \/ ForeignEdge \/ TimeoutIdle
               \/ TimeoutCollision \/ BackoffOver \/ UNCHANGED vars
        PROVE  UNCHANGED <<queue, main>>
    BY <1>8 DEF SendHalfBit, Abort, ExpectedEdge, ForeignEdge, AfterEdge, TimeoutIdle,
                TimeoutCollision, BackoffOver, vars
  <1> QED
    BY <1>2, <1>3, <1>4, <1>5, <1>6, <1>7, <1>8 DEF Next, Main, TIM4

\* What the handler of the half-bit timer knows.
LEMMA HandlerPartsStep ==
    IInv /\ [Next]_vars => CursorInv' /\ QueuedInv' /\ TickFindsFrame'
  <1> SUFFICES ASSUME IInv, [Next]_vars
               PROVE  CursorInv' /\ QueuedInv' /\ TickFindsFrame'
    OBVIOUS
  <1>1. push \in Indices /\ pop \in Indices /\ cursor \in Nat
    BY DEF IInv, TypeOK
  <1> USE DEF IInv
  <1>2. CASE UNCHANGED <<queue, air>>
    <2>1. QueuedInv' /\ Full' = Full /\ Empty' = Empty /\ Sending' = Sending
      BY <1>2, QueueUntouched
    <2> QED BY <1>2, <2>1 DEF CursorInv, TickFindsFrame, queue, air
  <1>3. CASE CopyBegin \/ CopyEnd \/ SetSize
    <2>1. /\ \E node : slots' = [slots EXCEPT ![push] = node]
          /\ UNCHANGED <<push, pop, hb, cursor, onWire>> /\ ~Full
      BY <1>3 DEF CopyBegin, CopyEnd, SetSize, SpaceInv, air
    <2>2. QueuedInv' /\ (cursor # 0 => slots'[Sending] = slots[Sending])
      BY <2>1, WritesSpareQueued
    <2> QED BY <2>1, <2>2 DEF CursorInv, TickFindsFrame, Empty, Sending
  <1>4. CASE Publish
    <2>1. /\ ~Full /\ push' = Succ(push)
          /\ UNCHANGED <<slots, pop, hb, cursor, onWire>>
      BY <1>4 DEF Publish, SpaceInv, air
    <2>2. Count(pop, push') = Count(pop, push) + 1 /\ ~Empty'
          /\ SlotAt(pop, Count(pop, push) + 1) = push
      BY <1>1, <2>1, PushCount DEF Full, Empty
    <2>3. IsWhole(slots[push])
      BY <1>4, CallIsFrame DEF Publish, CallsInv, BuildInv, IsWhole
    <2>4. QueuedInv'
      <3>1. ASSUME NEW k \in 1 .. Count(pop, push')
            PROVE  IsWhole(slots[SlotAt(pop, k)])
        <4>1. Count(pop, push) \in Nat
          BY <1>1, CountRange
        <4>2. CASE k = Count(pop, push) + 1
          BY <4>2, <2>2, <2>3
        <4>3. CASE k # Count(pop, push) + 1
          BY <4>1, <4>3, <3>1, <2>2 DEF QueuedInv
        <4> QED BY <4>2, <4>3
      <3> QED BY <3>1, <2>1 DEF QueuedInv, IsWhole
    <2> QED BY <2>1, <2>2, <2>4 DEF CursorInv, TickFindsFrame, Sending
  <1>5. CASE Start
    <2>1. UNCHANGED <<queue, cursor, onWire>> /\ hb' /\ ~Empty
      BY <1>5 DEF Start, StartInv
    <2> QED BY <2>1, QueueUntouched DEF CursorInv, TickFindsFrame, queue
  <1>6. CASE SendHalfBit
    <2>1. UNCHANGED queue /\ UNCHANGED hb /\ hb /\ ~Empty
      BY <1>6 DEF SendHalfBit, TickFindsFrame
    <2>2. /\ cursor' = cursor + 1
          /\ onWire' = onWire \cup {slots[Sending].buffer}
      BY <1>6 DEF SendHalfBit
    <2>3. onWire' = {slots[Sending].buffer} /\ cursor' # 0
      BY <1>1, <2>2 DEF CursorInv
    <2> QED BY <2>1, <2>3, QueueUntouched DEF CursorInv, TickFindsFrame, queue
  <1>7. CASE FrameDone
    <2>1. ~Empty /\ pop' = Succ(pop)
      BY <1>7 DEF FrameDone, PopSent, TickFindsFrame
    <2>2. UNCHANGED <<slots, push>> /\ ~hb' /\ cursor' = 0 /\ onWire' = {}
      BY <1>7 DEF FrameDone
    <2>3. /\ Count(pop', push) = Count(pop, push) - 1
          /\ \A k \in 1 .. Count(pop, push) - 1 : SlotAt(pop', k) = SlotAt(pop, k + 1)
      BY <1>1, <2>1, PopCount DEF Empty
    <2>4. ASSUME NEW k \in 1 .. Count(pop, push) - 1
          PROVE  IsWhole(slots[SlotAt(pop', k)])
      <3>1. k + 1 \in 1 .. Count(pop, push)
        BY <1>1, CountRange
      <3> QED BY <3>1, <2>3 DEF QueuedInv
    <2> QED BY <2>2, <2>3, <2>4 DEF CursorInv, QueuedInv, IsWhole, TickFindsFrame
  <1>8. CASE Abort
    <2>1. UNCHANGED queue /\ ~hb' /\ cursor' = 0 /\ onWire' = {}
      BY <1>8 DEF Abort, CursorReset
    <2> QED BY <2>1, QueueUntouched DEF CursorInv, TickFindsFrame
  <1>9. CASE TimeoutIdle \/ BackoffOver
    <2>1. UNCHANGED <<queue, cursor, onWire>> /\ (hb' => hb \/ ~Empty)
                                            /\ (~hb' => ~hb)
      BY <1>9 DEF TimeoutIdle, BackoffOver, StartFromHandler
    <2> QED BY <2>1, QueueUntouched DEF CursorInv, TickFindsFrame, queue
  <1>10. ASSUME NetworkTx \/ NetworkTxNothing \/ PushFull \/ PushNotFull
                \/ StartRefused \/ StartAllowed \/ ExpectedEdge \/ ForeignEdge
                \/ TimeoutCollision \/ UNCHANGED vars
         PROVE  UNCHANGED <<queue, air>>
    BY <1>10 DEF NetworkTx, NetworkTxNothing, PushFull, PushNotFull, StartRefused,
                 StartAllowed, ExpectedEdge, ForeignEdge, AfterEdge,
                 TimeoutCollision, vars
  <1> QED
    BY <1>2, <1>3, <1>4, <1>5, <1>6, <1>7, <1>8, <1>9, <1>10 DEF Next, Main, TIM4

-----------------------------------------------------------------------------
(* The safety theorems.                                                    *)

\* The invariant of slots, indices, cursor and main holds always.
THEOREM Invariance == Spec => []IInv
  <1>1. IInv /\ [Next]_vars => IInv'
    BY TypeStep, MainPartsStep, HandlerPartsStep DEF IInv
  <1> QED BY InitIInv, <1>1, PTL DEF Spec, SafetySpec

\* Every variable stays in its range: no index leaves the array.
THEOREM TypeCorrect == Spec => []TypeOK
  <1>1. IInv => TypeOK
    BY DEF IInv
  <1> QED BY Invariance, <1>1, PTL

\* TIM4_IRQHandler never runs on an empty queue.
THEOREM TickAlwaysFindsFrame == Spec => []TickFindsFrame
  <1>1. IInv => TickFindsFrame
    BY DEF IInv
  <1> QED BY Invariance, <1>1, PTL

\* While the handler is inside a frame, the frame is there, whole.
LEMMA SendingIsWhole ==
    ASSUME IInv, hb
    PROVE  /\ IsWhole(slots[Sending])
           /\ Count(pop, push) > 0
           /\ SlotAt(pop, 1) = Sending
  <1>1. push \in Indices /\ pop \in Indices /\ ~Empty
    BY DEF IInv, TypeOK, TickFindsFrame
  <1>2. Count(pop, push) \in Nat /\ Count(pop, push) > 0
    BY <1>1, CountRange, QueueSizeAssumption DEF Empty
  <1>3. SlotAt(pop, 1) = Sending
    BY <1>1, PopCount DEF Empty, Sending
  <1>4. IsWhole(slots[SlotAt(pop, 1)])
    BY <1>2 DEF IInv, QueuedInv
  <1> QED BY <1>2, <1>3, <1>4

\* The half-bits put on the wire belong to one frame, complete in its slot.
THEOREM NeverTorn == Spec => []NoTornRead
  <1>1. IInv => NoTornRead
    <2> SUFFICES ASSUME IInv PROVE NoTornRead
      OBVIOUS
    <2>1. CASE cursor = 0
      BY <2>1 DEF IInv, CursorInv, NoTornRead
    <2>2. CASE cursor # 0
      <3>1. hb
        BY <2>2 DEF IInv, CursorInv
      <3>2. slots[Sending].buffer \in Frames
        BY <3>1, SendingIsWhole DEF IsWhole
      <3>3. slots[Succ(pop)].buffer # Torn
        BY <3>2, TxAssumption DEF Sending, Frames, Torn
      <3> QED BY <2>2, <3>3 DEF IInv, CursorInv, NoTornRead, Sending
    <2> QED BY <2>1, <2>2
  <1> QED BY Invariance, <1>1, PTL

-----------------------------------------------------------------------------
(* The transmit queue implements the bounded FIFO.                         *)

\* The frames from pop to push are a sequence as long as their number.
LEMMA WaitingIsSeq ==
    ASSUME push \in Indices, pop \in Indices
    PROVE  /\ Waiting \in Seq({slots[SlotAt(pop, k)].buffer : k \in 1 .. Count(pop, push)})
           /\ Len(Waiting) = Count(pop, push)
           /\ \A k \in 1 .. Count(pop, push) : Waiting[k] = slots[SlotAt(pop, k)].buffer
  <1>1. Count(pop, push) \in Nat
    BY CountRange
  <1> QED BY <1>1 DEF Waiting

\* The frames that wait do not change while the queued slots do not.
LEMMA WaitingKept ==
    ASSUME UNCHANGED <<push, pop>>,
           \A k \in 1 .. Count(pop, push) : slots'[SlotAt(pop, k)] = slots[SlotAt(pop, k)]
    PROVE  Waiting' = Waiting
  BY DEF Waiting

\* The advance of the push index is an accept of the FIFO.
LEMMA PublishAccepts == ASSUME IInv, Publish PROVE Fifo!Next
  <1>1. /\ push \in Indices /\ pop \in Indices /\ ~Full
        /\ push' = Succ(push) /\ UNCHANGED <<slots, pop, sent>>
    BY DEF IInv, TypeOK, SpaceInv, Publish, air
  <1> DEFINE n == Count(pop, push)
  <1>2. /\ Count(pop, push') = n + 1 /\ SlotAt(pop, n + 1) = push
        /\ n \in Nat /\ n < QueueSize - 1
    BY <1>1, PushCount, CountRange, QueueSizeAssumption DEF Full
  <1>3. calls \in Frames /\ slots[push].buffer = calls
    BY CallIsFrame DEF IInv, CallsInv, BuildInv, Publish
  <1>4. Waiting' = Append(Waiting, calls)
    <2>1. Waiting' = [k \in 1 .. n + 1 |-> slots[SlotAt(pop, k)].buffer]
      BY <1>1, <1>2 DEF Waiting
    <2>2. Waiting = [k \in 1 .. n |-> slots[SlotAt(pop, k)].buffer]
      BY DEF Waiting
    <2>3. Append(Waiting, calls) =
            [k \in 1 .. n + 1 |-> IF k <= n THEN slots[SlotAt(pop, k)].buffer ELSE calls]
      BY <1>2, <2>2
    <2> QED BY <2>1, <2>3, <1>2, <1>3
  <1>5. Len(Waiting) = n
    BY <1>1, WaitingIsSeq
  <1> QED BY <1>1, <1>2, <1>3, <1>4, <1>5 DEF Fifo!Next, Fifo!Accept

\* The end of a frame is a send of the FIFO.
LEMMA DoneSends == ASSUME IInv, FrameDone PROVE Fifo!Next
  <1>1. /\ push \in Indices /\ pop \in Indices /\ ~Empty /\ hb
        /\ pop' = Succ(pop) /\ UNCHANGED <<slots, push>>
        /\ sent' = Append(sent, Emitted)
        /\ cursor = slots[Sending].size
    BY DEF IInv, TypeOK, TickFindsFrame, FrameDone, PopSent
  <1> DEFINE n == Count(pop, push)
             frame == slots[Sending].buffer
  <1>2. /\ IsWhole(slots[Sending]) /\ n > 0 /\ n \in Nat /\ SlotAt(pop, 1) = Sending
    BY <1>1, SendingIsWhole, CountRange
  <1>3. Emitted = frame
    <2>1. frame \in Frames /\ cursor = HalfBits[frame] /\ cursor # 0
      BY <1>1, <1>2, TxAssumption DEF IsWhole, Frames
    <2>2. onWire = {frame}
      BY <2>1 DEF IInv, CursorInv
    <2> QED BY <2>1, <2>2 DEF Emitted
  <1>4. /\ Count(pop', push) = n - 1
        /\ \A k \in 1 .. n - 1 : SlotAt(pop', k) = SlotAt(pop, k + 1)
    BY <1>1, PopCount DEF Empty
  <1>5. Waiting = [k \in 1 .. n |-> slots[SlotAt(pop, k)].buffer]
    BY DEF Waiting
  <1>6. Waiting' = [k \in 1 .. n - 1 |-> slots[SlotAt(pop, k + 1)].buffer]
    BY <1>1, <1>4 DEF Waiting
  <1>7. /\ Waiting # << >> /\ Head(Waiting) = frame
        /\ Tail(Waiting) = [k \in 1 .. n - 1 |-> slots[SlotAt(pop, k + 1)].buffer]
    BY <1>2, <1>5
  <1> QED BY <1>1, <1>3, <1>6, <1>7 DEF Fifo!Next, Fifo!Send

\* Frames leave in the order of the calls, once each and whole, and never
\* more than QueueSize - 1 of them wait.
THEOREM Refinement == Spec => ImplementsFifo
  <1>1. Init => Fifo!Init
    BY DEF Init, Fifo!Init, Waiting, Count, InitialPop, InitialPush
  <1>2. IInv /\ [Next]_vars => [Fifo!Next]_<<Waiting, sent>>
    <2> SUFFICES ASSUME IInv, [Next]_vars
                 PROVE  Fifo!Next \/ UNCHANGED <<Waiting, sent>>
      OBVIOUS
    <2>1. CASE Publish
      BY <2>1, PublishAccepts
    <2>2. CASE FrameDone
      BY <2>2, DoneSends
    <2>3. CASE CopyBegin \/ CopyEnd \/ SetSize
      <3>1. /\ \E node : slots' = [slots EXCEPT ![push] = node]
            /\ UNCHANGED <<push, pop, sent>>
        BY <2>3 DEF CopyBegin, CopyEnd, SetSize, air
      <3>2. push \in Indices /\ pop \in Indices
        BY DEF IInv, TypeOK
      <3>3. \A i \in Indices : i # push => slots'[i] = slots[i]
        BY <3>1, <3>2 DEF IInv, TypeOK
      <3>4. \A k \in 1 .. Count(pop, push) : slots'[SlotAt(pop, k)] = slots[SlotAt(pop, k)]
        BY <3>2, <3>3, PushSlotIsFree
      <3> QED BY <3>1, <3>4, WaitingKept
    <2>4. CASE UNCHANGED <<queue, sent>>
      BY <2>4 DEF Waiting, queue
    <2>5. ASSUME \/ NetworkTx \/ NetworkTxNothing \/ PushFull \/ PushNotFull
                 \/ StartRefused \/ StartAllowed \/ Start \/ SendHalfBit \/ Abort
                 \/ ExpectedEdge \/ ForeignEdge \/ TimeoutIdle
                 \/ TimeoutCollision \/ BackoffOver \/ UNCHANGED vars
          PROVE  UNCHANGED <<queue, sent>>
      BY <2>5 DEF NetworkTx, NetworkTxNothing, PushFull, PushNotFull, StartRefused,
                  StartAllowed, Start, SendHalfBit, Abort, ExpectedEdge, ForeignEdge,
                  AfterEdge, TimeoutIdle, TimeoutCollision, BackoffOver, air, vars
    <2> QED BY <2>1, <2>2, <2>3, <2>4, <2>5 DEF Next, Main, TIM4
  <1> QED
    BY Invariance, <1>1, <1>2, PTL DEF Spec, SafetySpec, ImplementsFifo, Fifo!Spec
=============================================================================
