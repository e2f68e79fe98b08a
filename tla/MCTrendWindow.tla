----------------------------- MODULE MCTrendWindow -----------------------------
(***************************************************************************)
(* TLC instance of TrendWindow: samples in the same millisecond, a moment  *)
(* later, and so much later that a byte more is less than one per second   *)
(* and that two samples grow old in one call.                              *)
(***************************************************************************)
EXTENDS TrendWindow

SomeBytes == {0, 1, 4}
SomePaces == {0, 1, 1100}
===============================================================================
