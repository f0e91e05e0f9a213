------------------------------ MODULE MCNonces ------------------------------
(* A ring of three nonces and draws enough to go around it twice. *)
EXTENDS NoncesSpec
=============================================================================
