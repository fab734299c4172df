---------------------------- MODULE FrameInbox -----------------------------
(***************************************************************************)
(* What the receive queue promises main: frames are handed over in the     *)
(* order in which they came, none twice, and none is lost on the way but   *)
(* those known to be fragile when they were queued.                        *)
(***************************************************************************)
EXTENDS Naturals, Sequences

CONSTANTS Frames,           \* the frames that can arrive
          Capacity          \* the number of frames that can wait

VARIABLES waiting,          \* the queued frames, each marked fragile or not
          delivered         \* the frames handed to main, in order

Init == /\ waiting = << >>
        /\ delivered = << >>

Arrive(f, isFragile) == /\ Len(waiting) < Capacity
                        /\ waiting' = Append(waiting, [frame |-> f, fragile |-> isFragile])
                        /\ UNCHANGED delivered

Deliver == /\ waiting # << >>
           /\ delivered' = Append(delivered, Head(waiting).frame)
           /\ waiting' = Tail(waiting)

Lose == /\ waiting # << >>
        /\ Head(waiting).fragile
        /\ waiting' = Tail(waiting)
        /\ UNCHANGED delivered

Next == \/ Deliver
        \/ Lose
        \/ \E f \in Frames, b \in BOOLEAN : Arrive(f, b)

Spec == Init /\ [][Next]_<<waiting, delivered>>
=============================================================================
