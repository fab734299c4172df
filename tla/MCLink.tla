------------------------------- MODULE MCLink -------------------------------
(***************************************************************************)
(* The TLC instance of Link.  The first two frames differ in the last bit  *)
(* of the source only, so that they overlap without a low phase long enough*)
(* to be taken for a collision, and two doubled half-bits turn their       *)
(* message into another one with the same CRC.  The message of the third   *)
(* holds a frame: when its first byte ends high, that one is received.     *)
(***************************************************************************)
EXTENDS Link

MCFrames == { [source |-> 2, destination |-> 0, message |-> <<176>>],
              [source |-> 3, destination |-> 0, message |-> <<176>>],
              [source |-> 1, destination |-> 1,
               message |-> <<231, Preamble, Version, 1, 1, 0, CrcOn>>] }

\* Two faults, and one in a frame that is longer.
MCMaxFaults == [f \in MCFrames |-> IF Len(f.message) = 1 THEN 2 ELSE 1]
=============================================================================
