------------------------------- MODULE MCBus -------------------------------
(***************************************************************************)
(* TLC instances of Bus.  A tick is 125 us; a frame is four encoded bits   *)
(* (network_encode_manchester: 1 is sent 0 1, 0 is sent 1 0), and begins   *)
(* with a 0 as every preamble does.                                        *)
(***************************************************************************)
EXTENDS Bus

CONSTANTS n1, n2, n3

Symbol(b) == IF b = 1 THEN <<0, 1>> ELSE <<1, 0>>

Encoded(b1, b2, b3, b4) == Symbol(b1) \o Symbol(b2) \o Symbol(b3) \o Symbol(b4)

MCFrame == [n \in Nodes |-> IF n = n1 THEN Encoded(0, 1, 0, 1) ELSE Encoded(0, 1, 1, 0)]

\* Every node sends the same: frames that overlap by a fraction of a half-bit
\* end together.
SameFrame == [n \in Nodes |-> Encoded(0, 1, 0, 1)]

OneEach == [n \in Nodes |-> 1]

\* Three calls; a third node only listens.
TwoOfFirst == [n \in Nodes |-> IF n = n1 THEN 2 ELSE IF n = n2 THEN 1 ELSE 0]
=============================================================================
