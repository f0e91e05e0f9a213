----------------------------- MODULE NoncesSpec -----------------------------
(***************************************************************************)
(* One ring of nonces, asked for nonces by any number of get-nonce calls   *)
(* and shown nonces by any number of auth calls: issued ones, early, late  *)
(* or repeated, and ones nobody issued.                                    *)
(***************************************************************************)
EXTENDS Nonces, Sequences

CONSTANT MaxTag         \* bound on the number of random draws

ASSUME MaxTagAssumption == MaxTag \in Nat /\ MaxTag >= NonceCount

VARIABLES
  ring,        \* the Nonces structure
  drawn,       \* how many tags were drawn
  issued,      \* history: the nonces returned by Next, oldest first
  grants       \* history: how often each tag passed Check

nonceVars == <<ring, drawn, issued, grants>>

Tags == 0 .. MaxTag    \* 0 is never drawn

Init ==
  /\ ring = NewNonces
  /\ drawn = NonceCount
  /\ issued = <<>>
  /\ grants = [t \in Tags |-> 0]

GetNonce ==
  /\ drawn < MaxTag
  /\ drawn' = drawn + 1
  /\ ring' = AfterNext(ring, drawn + 1)
  /\ issued' = Append(issued, NextNonce(ring, drawn + 1))
  /\ UNCHANGED grants

Present(nonce) ==
  /\ Check(ring, nonce) => drawn < MaxTag
  /\ ring' = AfterCheck(ring, nonce, drawn + 1)
  /\ IF Check(ring, nonce)
       THEN /\ drawn' = drawn + 1
            /\ grants' = [grants EXCEPT ![nonce.tag] = @ + 1]
       ELSE UNCHANGED <<drawn, grants>>
  /\ UNCHANGED issued

(* A nonce made up by the sender: any index, bytes that were never drawn.  *)
Forged == [index : 0 .. NonceCount, tag : {0}]

Next ==
  \/ GetNonce
  \/ \E p \in DOMAIN issued : Present(issued[p])
  \/ \E nonce \in Forged : Present(nonce)

Spec == Init /\ [][Next]_nonceVars

-----------------------------------------------------------------------------
(* Cell i of the ring always holds a nonce of index i. *)
TypeOK ==
  /\ ring \in [nonces : [Indexes -> [index : Indexes, tag : Tags]],
               currentIndex : Indexes]
  /\ drawn \in NonceCount .. MaxTag
  /\ issued \in Seq([index : Indexes, tag : Tags])
  /\ grants \in [Tags -> Nat]
  /\ \A i \in Indexes : ring.nonces[i].index = i

(* A nonce opens at most one session, however often the auth frame that    *)
(* carries it is delivered (Nonces.Check refills the cell it matched).     *)
GrantedOnce == \A t \in Tags : grants[t] <= 1

(* Which nonces still stand: exactly the last NonceCount issued, less the  *)
(* ones already granted.  So a client whose auth frame is overtaken by     *)
(* NonceCount other get-nonce calls is refused, and no one sooner.         *)
StandingExact ==
  \A p \in DOMAIN issued :
    Check(ring, issued[p]) <=>
      Len(issued) - p < NonceCount /\ grants[issued[p].tag] = 0

(* Only a nonce that Next returned is ever granted: not one of the cells   *)
(* filled at creation, not one refilled after a grant, not a made-up one.  *)
GrantedWereIssued ==
  \A t \in Tags : grants[t] > 0 => \E p \in DOMAIN issued : issued[p].tag = t
=============================================================================
