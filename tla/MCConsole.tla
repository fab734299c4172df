----------------------------- MODULE MCConsole -----------------------------
(***************************************************************************)
(* TLC instance of Console: a ring of four slots, so that the indices wrap,*)
(* the queue fills and overflows while main pulls, and a newline can be in *)
(* any slot; what fgets takes at most is less than the ring holds.         *)
(***************************************************************************)
EXTENDS Console
=============================================================================
