----------------------------- MODULE MCRxQueue -----------------------------
(***************************************************************************)
(* TLC instance of RxQueue: a queue for two frames and six transmissions,  *)
(* one of them noise, so that the queue fills, stays full for a whole      *)
(* transmission, wraps and has every slot reused.                          *)
(***************************************************************************)
EXTENDS RxQueue

MCNoise == {3}
=============================================================================
