------------------------------- MODULE Nonces -------------------------------
(***************************************************************************)
(* The ring of one-time nonces a peer hands out to clients that want to    *)
(* authenticate (xchg/utils_nonces.go).  A nonce is its index in the ring  *)
(* and eleven random bytes; the bytes are a tag here, and a draw from      *)
(* crypto/rand is the next tag of a supply that never repeats.             *)
(*                                                                         *)
(* Pure operators on a ring [nonces, currentIndex]; Next and Check hold    *)
(* the mutex of the ring throughout, so each is one atomic step.           *)
(***************************************************************************)
EXTENDS Integers

CONSTANT NonceCount     \* the size of the ring; NewNonces(100) in the code

ASSUME NonceCountAssumption == NonceCount \in Nat \ {0}

Indexes == 0 .. NonceCount - 1

Nonce == [index : Nat, tag : Nat]

(* Cell index gets its own index and a fresh draw. *)
fillNonce(ring, index, tag) ==
  [ring EXCEPT !.nonces[index] = [index |-> index, tag |-> tag]]

(* Every cell is filled at creation: the first NonceCount draws. *)
NewNonces == [nonces |-> [i \in Indexes |-> [index |-> i, tag |-> i + 1]],
              currentIndex |-> 0]

(* Next refills the current cell, returns it and moves on around the ring. *)
AfterNextUnwrapped(ring, tag) ==
  [fillNonce(ring, ring.currentIndex, tag) EXCEPT !.currentIndex = @ + 1]

AfterNextStuck(ring, tag) == fillNonce(ring, ring.currentIndex, tag)

AfterNext(ring, tag) ==
  [fillNonce(ring, ring.currentIndex, tag)
     EXCEPT !.currentIndex = IF @ + 1 >= NonceCount THEN 0 ELSE @ + 1]

NextNonce(ring, tag) == [index |-> ring.currentIndex, tag |-> tag]

(* Check compares the whole nonce with the cell its index names; a nonce   *)
(* that matches is used up by refilling the cell.                          *)
CheckIndexOnly(ring, nonce) == nonce.index \in Indexes

Check(ring, nonce) ==
  nonce.index \in Indexes /\ ring.nonces[nonce.index] = nonce

AfterCheckKept(ring, nonce, tag) == ring

AfterCheck(ring, nonce, tag) ==
  IF Check(ring, nonce) THEN fillNonce(ring, nonce.index, tag) ELSE ring
=============================================================================
