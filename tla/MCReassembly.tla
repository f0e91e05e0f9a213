---------------------------- MODULE MCReassembly ----------------------------
(* Two requests under one transaction id, of two processes of the client:  *)
(* three blocks, answered by two, and two blocks, answered by a response   *)
(* longer than the client accepts.                                         *)
EXTENDS Reassembly, TLC

CONSTANTS m1, m2

TwoMessages == {m1, m2}
Processes == m1 :> 1 @@ m2 :> 2
Tids == m1 :> 1 @@ m2 :> 1
Sizes == m1 :> 5 @@ m2 :> 3
ResponseSizes == m1 :> 3 @@ m2 :> 4
=============================================================================
