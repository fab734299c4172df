----------------------------- MODULE MCTxQueue -----------------------------
(***************************************************************************)
(* TLC instance of TxQueue: a queue for two frames, so that five calls     *)
(* fill it, wrap both indices and reuse every slot; frames of two lengths, *)
(* so that a size left over from an earlier frame would show.              *)
(***************************************************************************)
EXTENDS TxQueue

MCHalfBits == [f \in 1 .. MaxCalls |-> 2 + (f % 2)]
=============================================================================
