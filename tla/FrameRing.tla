----------------------------- MODULE FrameRing -----------------------------
(***************************************************************************)
(* The index arithmetic shared by the transmit and the receive queue of    *)
(* network.c.  Both queues are arrays of QueueSize nodes with two indices: *)
(* the push index is the slot the next element goes to, the pop index is   *)
(* the slot most recently popped.  So "pop = push" is full, "pop + 1 =     *)
(* push" is empty, and a queue holds at most QueueSize - 1 elements.       *)
(***************************************************************************)
EXTENDS Integers

CONSTANT QueueSize          \* TX_QUEUE_SIZE and RX_QUEUE_SIZE, both 10

ASSUME QueueSizeAssumption == QueueSize \in Nat /\ QueueSize >= 2

Indices == 0 .. QueueSize - 1

\* Slip (no part of the model, see README.md): the index is not wrapped.
SuccUnwrapped(i) == i + 1

Succ(i) == (i + 1) % QueueSize

InitialPop  == 0
InitialPush == 1

IsFull(pop, push)  == pop = push

IsEmpty(pop, push) == Succ(pop) = push

\* The number of queued elements.
Count(pop, push) ==
    IF push > pop THEN push - pop - 1 ELSE (push + QueueSize) - pop - 1

\* The slot of the k-th element to be popped, k = 1 being the next one.
SlotAt(pop, k) == (pop + k) % QueueSize

\* The slots that hold queued elements.
Queued(pop, push) == {SlotAt(pop, k) : k \in 1 .. Count(pop, push)}
=============================================================================
