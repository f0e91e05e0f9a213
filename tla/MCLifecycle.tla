---------------------------- MODULE MCLifecycle ----------------------------
(* Two goroutines that start and stop one peer. *)
EXTENDS Lifecycle

CONSTANTS g1, g2

TwoCallers == {g1, g2}
=============================================================================
