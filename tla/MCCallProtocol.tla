--------------------------- MODULE MCCallProtocol ---------------------------
(* Model values for the call protocol. *)
EXTENDS CallProtocol, TLC

CONSTANTS c1, c2, c3

TwoCalls == {c1, c2}
ThreeCalls == {c1, c2, c3}

CallSymmetry == Permutations(Calls)

OnlySuccess == {"ok"}
SomeResults == {"ok", "srv"}
AllResults == {"ok", "error", "srv"}
=============================================================================
