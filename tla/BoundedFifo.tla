---------------------------- MODULE BoundedFifo ----------------------------
(***************************************************************************)
(* What the transmit queue promises its users: frames leave the node in    *)
(* the order in which network_tx accepted them, each of them once and      *)
(* whole, and at most Capacity of them wait at a time.                     *)
(***************************************************************************)
EXTENDS Naturals, Sequences

CONSTANTS Frames,           \* the frames that can be queued
          Capacity          \* the number of frames that can wait

VARIABLES waiting,          \* the frames accepted and not yet sent, in order
          sent              \* the frames sent, in order

Init == /\ waiting = << >>
        /\ sent = << >>

Accept(f) == /\ Len(waiting) < Capacity
             /\ waiting' = Append(waiting, f)
             /\ UNCHANGED sent

Send == /\ waiting # << >>
        /\ sent' = Append(sent, Head(waiting))
        /\ waiting' = Tail(waiting)

Next == Send \/ \E f \in Frames : Accept(f)

Spec == Init /\ [][Next]_<<waiting, sent>>
=============================================================================
