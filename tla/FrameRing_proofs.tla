-------------------------- MODULE FrameRing_proofs --------------------------
(***************************************************************************)
(* Facts about the index arithmetic of the two queues, for every           *)
(* QueueSize: the proofs about TxQueue and RxQueue cite them by name.      *)
(***************************************************************************)
EXTENDS FrameRing, TLAPS

\* Wrapping an index is the choice between the next one and 0.
LEMMA SuccValue ==
    ASSUME NEW i \in Indices
    PROVE  /\ Succ(i) = IF i = QueueSize - 1 THEN 0 ELSE i + 1
           /\ Succ(i) \in Indices
           /\ Succ(i) # i
  BY QueueSizeAssumption DEF Succ, Indices

\* A slot fewer than QueueSize places ahead, with at most one wrap.
LEMMA SlotAtValue ==
    ASSUME NEW pop \in Indices, NEW k \in 0 .. QueueSize
    PROVE  /\ SlotAt(pop, k) = IF pop + k >= QueueSize
                               THEN pop + k - QueueSize ELSE pop + k
           /\ SlotAt(pop, k) \in Indices
  <1>1. CASE pop + k >= 2 * QueueSize
    BY <1>1, QueueSizeAssumption DEF Indices
  <1>2. CASE pop + k < QueueSize
    BY <1>2, QueueSizeAssumption DEF SlotAt, Indices
  <1>3. CASE pop + k >= QueueSize /\ pop + k < 2 * QueueSize
    <2>1. (pop + k) % QueueSize = pop + k - QueueSize
      BY <1>3, QueueSizeAssumption DEF Indices
    <2> QED BY <2>1, <1>3, QueueSizeAssumption DEF SlotAt, Indices
  <1> QED BY <1>1, <1>2, <1>3, QueueSizeAssumption DEF Indices

\* The tests for empty and full agree with the count, which never reaches
\* QueueSize: one slot of the array is always unused.
LEMMA CountRange ==
    ASSUME NEW pop \in Indices, NEW push \in Indices
    PROVE  /\ Count(pop, push) \in 0 .. QueueSize - 1
           /\ IsEmpty(pop, push) <=> Count(pop, push) = 0
           /\ IsFull(pop, push) <=> Count(pop, push) = QueueSize - 1
  BY SuccValue, QueueSizeAssumption DEF Count, IsEmpty, IsFull, Indices

\* Popping takes the oldest element and shifts the others by one place.
LEMMA PopCount ==
    ASSUME NEW pop \in Indices, NEW push \in Indices, ~IsEmpty(pop, push)
    PROVE  /\ Count(Succ(pop), push) = Count(pop, push) - 1
           /\ ~IsFull(Succ(pop), push)
           /\ SlotAt(pop, 1) = Succ(pop)
           /\ \A k \in 1 .. Count(pop, push) - 1 :
                 SlotAt(Succ(pop), k) = SlotAt(pop, k + 1)
  <1>1. Count(Succ(pop), push) = Count(pop, push) - 1
    BY SuccValue, QueueSizeAssumption DEF Count, IsEmpty, Indices
  <1>2. ~IsFull(Succ(pop), push)
    BY DEF IsEmpty, IsFull
  <1>3. SlotAt(pop, 1) = Succ(pop)
    BY DEF SlotAt, Succ
  <1>4. ASSUME NEW k \in 1 .. Count(pop, push) - 1
        PROVE  SlotAt(Succ(pop), k) = SlotAt(pop, k + 1)
    <2>1. k \in 0 .. QueueSize /\ k + 1 \in 0 .. QueueSize
      BY CountRange, QueueSizeAssumption
    <2>2. Succ(pop) \in Indices /\ Succ(pop) = IF pop = QueueSize - 1 THEN 0 ELSE pop + 1
      BY SuccValue
    <2>3. SlotAt(Succ(pop), k) = IF Succ(pop) + k >= QueueSize
                                 THEN Succ(pop) + k - QueueSize ELSE Succ(pop) + k
      BY <2>1, <2>2, SlotAtValue
    <2>4. SlotAt(pop, k + 1) = IF pop + (k + 1) >= QueueSize
                               THEN pop + (k + 1) - QueueSize ELSE pop + (k + 1)
      BY <2>1, SlotAtValue
    <2> QED BY <2>1, <2>2, <2>3, <2>4, QueueSizeAssumption DEF Indices
  <1> QED BY <1>1, <1>2, <1>3, <1>4

\* Pushing adds the slot of the push index behind the others.
LEMMA PushCount ==
    ASSUME NEW pop \in Indices, NEW push \in Indices, ~IsFull(pop, push)
    PROVE  /\ Count(pop, Succ(push)) = Count(pop, push) + 1
           /\ ~IsEmpty(pop, Succ(push))
           /\ SlotAt(pop, Count(pop, push) + 1) = push
  <1>1. Count(pop, Succ(push)) = Count(pop, push) + 1
    BY SuccValue, QueueSizeAssumption DEF Count, IsFull, Indices
  <1>2. ~IsEmpty(pop, Succ(push))
    BY SuccValue, QueueSizeAssumption DEF IsEmpty, IsFull, Indices
  <1>3. SlotAt(pop, Count(pop, push) + 1) = push
    <2>1. Count(pop, push) + 1 \in 0 .. QueueSize
      BY CountRange, QueueSizeAssumption
    <2> DEFINE k == Count(pop, push) + 1
    <2>2. SlotAt(pop, k) = IF pop + k >= QueueSize
                           THEN pop + k - QueueSize ELSE pop + k
      BY <2>1, SlotAtValue
    <2> QED BY <2>2, QueueSizeAssumption DEF Count, IsFull, Indices
  <1> QED BY <1>1, <1>2, <1>3

\* The slot under construction holds no queued element: when the queue is
\* full, it is the slot popped last.
LEMMA PushSlotIsFree ==
    ASSUME NEW pop \in Indices, NEW push \in Indices,
           NEW k \in 1 .. Count(pop, push)
    PROVE  /\ SlotAt(pop, k) \in Indices
           /\ SlotAt(pop, k) # push
           /\ SlotAt(pop, k) # pop
  <1>1. k \in 0 .. QueueSize
    BY CountRange, QueueSizeAssumption
  <1>2. /\ SlotAt(pop, k) = IF pop + k >= QueueSize
                            THEN pop + k - QueueSize ELSE pop + k
        /\ SlotAt(pop, k) \in Indices
    BY <1>1, SlotAtValue
  <1> QED BY <1>2, QueueSizeAssumption DEF Count, Indices

\* The queued slots are those strictly between the two indices.
LEMMA QueuedIs ==
    ASSUME NEW pop \in Indices, NEW push \in Indices, NEW i \in Indices
    PROVE  i \in Queued(pop, push) <=>
             IF push > pop THEN pop < i /\ i < push ELSE pop < i \/ i < push
  <1>1. ASSUME NEW k \in 1 .. Count(pop, push), i = SlotAt(pop, k)
        PROVE  IF push > pop THEN pop < i /\ i < push ELSE pop < i \/ i < push
    <2>1. k \in 0 .. QueueSize
      BY CountRange, QueueSizeAssumption
    <2>2. i = IF pop + k >= QueueSize THEN pop + k - QueueSize ELSE pop + k
      BY <1>1, <2>1, SlotAtValue
    <2> QED BY <2>2, QueueSizeAssumption DEF Count, Indices
  <1>2. ASSUME IF push > pop THEN pop < i /\ i < push ELSE pop < i \/ i < push
        PROVE  i \in Queued(pop, push)
    <2> DEFINE k == IF pop < i THEN i - pop ELSE i + QueueSize - pop
    <2>1. k \in 1 .. Count(pop, push) /\ k \in 0 .. QueueSize
      BY <1>2, QueueSizeAssumption DEF Count, Indices
    <2>2. SlotAt(pop, k) = IF pop + k >= QueueSize
                           THEN pop + k - QueueSize ELSE pop + k
      BY <2>1, SlotAtValue
    <2>3. SlotAt(pop, k) = i
      BY <2>2, QueueSizeAssumption DEF Indices
    <2> QED BY <2>1, <2>3 DEF Queued
  <1> QED BY <1>1, <1>2 DEF Queued

\* The slots queued are slots of the ring, and neither index is one of them.
LEMMA QueuedInIndices ==
    ASSUME NEW pop \in Indices, NEW push \in Indices
    PROVE  /\ Queued(pop, push) \subseteq Indices
           /\ pop \notin Queued(pop, push)
           /\ push \notin Queued(pop, push)
  BY PushSlotIsFree DEF Queued

\* Popping removes one slot from the queued ones.
LEMMA PopQueued ==
    ASSUME NEW pop \in Indices, NEW push \in Indices, ~IsEmpty(pop, push)
    PROVE  /\ Succ(pop) \in Queued(pop, push)
           /\ Queued(Succ(pop), push) = Queued(pop, push) \ {Succ(pop)}
  <1>1. Succ(pop) \in Indices /\ Succ(pop) = IF pop = QueueSize - 1 THEN 0 ELSE pop + 1
    BY SuccValue
  <1>2. Succ(pop) # push
    BY DEF IsEmpty
  <1>3. Succ(pop) \in Queued(pop, push)
    BY <1>1, <1>2, QueuedIs, QueueSizeAssumption DEF Indices
  <1>4. ASSUME NEW i \in Indices
        PROVE  i \in Queued(Succ(pop), push) <=> i \in Queued(pop, push) /\ i # Succ(pop)
    BY <1>1, <1>2, QueuedIs, QueueSizeAssumption DEF Indices
  <1> QED BY <1>1, <1>3, <1>4, QueuedInIndices

\* Pushing adds one slot, and opens one that was neither queued nor pushed to.
LEMMA PushQueued ==
    ASSUME NEW pop \in Indices, NEW push \in Indices, ~IsFull(pop, push)
    PROVE  /\ Queued(pop, Succ(push)) = Queued(pop, push) \cup {push}
           /\ Succ(push) \notin Queued(pop, push)
           /\ Succ(push) # push
  <1>1. /\ Succ(push) \in Indices /\ Succ(push) # push
        /\ Succ(push) = IF push = QueueSize - 1 THEN 0 ELSE push + 1
    BY SuccValue
  <1>2. pop # push
    BY DEF IsFull
  <1>3. ASSUME NEW i \in Indices
        PROVE  i \in Queued(pop, Succ(push)) <=> i \in Queued(pop, push) \/ i = push
    BY <1>1, <1>2, QueuedIs, QueueSizeAssumption DEF Indices
  <1>4. Succ(push) \notin Queued(pop, push)
    BY <1>1, <1>2, QueuedIs, QueueSizeAssumption DEF Indices
  <1> QED BY <1>1, <1>3, <1>4, QueuedInIndices
=============================================================================
