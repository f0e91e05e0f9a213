--------------------------- MODULE MCSnakeCounter ---------------------------
(* A window of three cells and counters two below zero to twice its width. *)
EXTENDS SnakeCounterSpec

MCInputs == -2 .. 7
=============================================================================
