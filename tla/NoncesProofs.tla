---------------------------- MODULE NoncesProofs ----------------------------
(***************************************************************************)
(* Proofs about the nonce ring, for every size of the ring and any number  *)
(* of draws.  StandingExact is not inductive by itself: it needs to know   *)
(* which cell each of the last NonceCount issued nonces went to, and that  *)
(* draws never repeat.                                                     *)
(***************************************************************************)
EXTENDS NoncesSpec, SequenceTheorems, TLAPS

(* The cell, when the ring stands at k, of the nonce that was issued d     *)
(* nonces before the last one.                                             *)
Slot(k, d) == IF k - 1 - d >= 0 THEN k - 1 - d ELSE k - 1 - d + NonceCount

Advanced(k) == IF k + 1 >= NonceCount THEN 0 ELSE k + 1

(* The last NonceCount issued nonces went to different cells. *)
Placed ==
  \A p \in DOMAIN issued :
    Len(issued) - p < NonceCount =>
      issued[p].index = Slot(ring.currentIndex, Len(issued) - p)

(* A tag that was drawn is never drawn again. *)
Fresh ==
  /\ \A i \in Indexes : 0 < ring.nonces[i].tag /\ ring.nonces[i].tag <= drawn
  /\ \A p \in DOMAIN issued : issued[p].tag <= drawn
  /\ \A t \in Tags : t > drawn => grants[t] = 0
  /\ \A p, q \in DOMAIN issued : p # q => issued[p].tag # issued[q].tag

IInv ==
  /\ TypeOK
  /\ Placed
  /\ Fresh
  /\ StandingExact
  /\ GrantedOnce

(* What an issued nonce is, and how its tag compares with the draws. *)
LEMMA IssuedNonce ==
  ASSUME TypeOK, NEW p \in DOMAIN issued
  PROVE  /\ issued[p] \in [index : Indexes, tag : Tags]
         /\ issued[p].index \in Nat /\ issued[p].tag \in Nat
PROOF
<1>1. issued[p] \in [index : Indexes, tag : Tags]
  <2>1. issued \in Seq([index : Indexes, tag : Tags]) /\ p \in 1 .. Len(issued)
    BY DEF TypeOK
  <2> QED
    BY <2>1, ElementOfSeq
<1> QED
  BY <1>1, NonceCountAssumption, MaxTagAssumption DEF Indexes, Tags

(* The inductive invariant at the start. *)
LEMMA InitIInv == Init => IInv
PROOF
<1> USE NonceCountAssumption, MaxTagAssumption DEF Indexes, Tags
<1> SUFFICES ASSUME Init PROVE IInv
  OBVIOUS
<1>1. TypeOK
  BY DEF Init, TypeOK, NewNonces
<1>2. DOMAIN issued = {}
  BY DEF Init
<1>3. Fresh
  BY <1>2 DEF Init, Fresh, NewNonces
<1> QED
  BY <1>1, <1>2, <1>3 DEF Init, IInv, Placed, StandingExact, GrantedOnce

(* The slots of the last NonceCount nonces are cells, and all different. *)
LEMMA SlotsDiffer ==
  ASSUME NEW k \in Indexes,
         NEW d \in 0 .. NonceCount - 1, NEW e \in 0 .. NonceCount - 1, d # e
  PROVE  Slot(k, d) \in Indexes /\ Slot(k, d) # Slot(k, e)
BY NonceCountAssumption DEF Slot, Indexes

(* When the ring advances, every issued nonce is one further from the last *)
(* and keeps its slot, and the cell refilled is the slot of the nonce that *)
(* drops out.                                                              *)
LEMMA SlotsShift ==
  ASSUME NEW k \in Indexes, NEW d \in 0 .. NonceCount - 1
  PROVE  /\ Advanced(k) \in Indexes
         /\ Slot(Advanced(k), 0) = k
         /\ d < NonceCount - 1 => Slot(k, d) # k /\ Slot(Advanced(k), d + 1) = Slot(k, d)
         /\ d = NonceCount - 1 => Slot(k, d) = k
BY NonceCountAssumption DEF Slot, Advanced, Indexes

(* It is kept by GetNonce. *)
LEMMA GetNonceIInv == IInv /\ GetNonce => IInv'
PROOF
<1> USE NonceCountAssumption, MaxTagAssumption
<1> SUFFICES ASSUME IInv, GetNonce PROVE IInv'
  OBVIOUS
<1> DEFINE k == ring.currentIndex
           t == drawn + 1
           n == Len(issued)
           new == [index |-> k, tag |-> t]
<1>0. /\ ring.nonces \in [Indexes -> [index : Indexes, tag : Tags]]
      /\ k \in Indexes /\ drawn \in Nat /\ t \in Nat /\ t <= MaxTag /\ drawn >= NonceCount
      /\ issued \in Seq([index : Indexes, tag : Tags])
      /\ n \in Nat /\ DOMAIN issued = 1 .. n
      /\ grants \in [Tags -> Nat]
      /\ \A i \in Indexes : ring.nonces[i].index = i
  BY DEF IInv, TypeOK, GetNonce
<1>r. ring' = [nonces |-> [ring.nonces EXCEPT ![k] = new], currentIndex |-> Advanced(k)]
  <2>1. ring' = [fillNonce(ring, k, t) EXCEPT !.currentIndex = IF @ + 1 >= NonceCount THEN 0 ELSE @ + 1]
    BY DEF GetNonce, AfterNext
  <2>2. ring \in [nonces : [Indexes -> [index : Indexes, tag : Tags]], currentIndex : Indexes]
    BY DEF IInv, TypeOK
  <2>3. fillNonce(ring, k, t) = [nonces |-> [ring.nonces EXCEPT ![k] = new], currentIndex |-> k]
    BY <2>2 DEF fillNonce
  <2> QED
    BY <2>1, <2>3 DEF Advanced
<1>1. /\ ring'.nonces = [ring.nonces EXCEPT ![k] = new]
      /\ ring'.currentIndex = Advanced(k)
      /\ drawn' = t
      /\ issued' = Append(issued, new)
      /\ grants' = grants
  <2>1. issued' = Append(issued, new)
    BY DEF GetNonce, NextNonce
  <2> QED
    BY <1>r, <2>1 DEF GetNonce
<1>a. n \in Nat /\ k \in Indexes /\ NonceCount \in Nat \ {0}
  BY <1>0
<1>b. ASSUME NEW p \in 1 .. n, n - p < NonceCount
      PROVE  issued[p].index = Slot(k, n - p)
  BY <1>b, <1>0 DEF IInv, Placed
<1>c. ASSUME NEW p \in 1 .. n
      PROVE  /\ issued[p] \in [index : Indexes, tag : Tags]
             /\ issued[p].tag \in Nat /\ issued[p].tag <= drawn /\ issued[p].tag # t
  <2>1. issued[p] \in [index : Indexes, tag : Tags]
    BY <1>0, IssuedNonce DEF IInv
  <2>2. issued[p].tag \in Nat
    BY <1>0, IssuedNonce DEF IInv
  <2>3. issued[p].tag <= drawn
    BY <1>0 DEF IInv, Fresh
  <2> QED
    BY <2>1, <2>2, <2>3, <1>0
<1>d. \A p, q \in 1 .. n : p # q => issued[p].tag # issued[q].tag
  BY <1>0 DEF IInv, Fresh
<1>2. new \in [index : Indexes, tag : Tags] /\ t \in Tags
  BY <1>0 DEF Tags
<1>3. /\ Len(issued') = n + 1
      /\ DOMAIN issued' = 1 .. n + 1
      /\ issued'[n + 1] = new
      /\ \A p \in 1 .. n : issued'[p] = issued[p]
      /\ issued' \in Seq([index : Indexes, tag : Tags])
  BY <1>0, <1>1, <1>2
<1>4. ring'.currentIndex \in Indexes
  BY <1>a, <1>1, SlotsShift
<1>5. TypeOK'
  <2>1. ring'.nonces \in [Indexes -> [index : Indexes, tag : Tags]]
    BY <1>0, <1>1, <1>2
  <2>2. \A i \in Indexes : ring'.nonces[i].index = i
    BY <1>0, <1>1
  <2>3. drawn' \in NonceCount .. MaxTag
    BY <1>0, <1>1
  <2> QED
    BY <1>r, <1>0, <1>1, <1>3, <1>4, <2>1, <2>2, <2>3 DEF TypeOK
<1>6. Placed'
  <2> SUFFICES ASSUME NEW p \in 1 .. n + 1, n + 1 - p < NonceCount
               PROVE  issued'[p].index = Slot(Advanced(k), n + 1 - p)
    BY <1>1, <1>3 DEF Placed
  <2>1. CASE p = n + 1
    <3>1. n + 1 - p = 0 /\ 0 \in 0 .. NonceCount - 1
      BY <2>1, <1>a
    <3>2. Slot(Advanced(k), 0) = k
      BY <3>1, <1>a, SlotsShift
    <3> QED
      BY <2>1, <3>1, <3>2, <1>3
  <2>2. CASE p \in 1 .. n
    <3>1. n - p \in 0 .. NonceCount - 1 /\ n - p < NonceCount - 1 /\ n + 1 - p = (n - p) + 1
      BY <2>2, <1>a
    <3>2. issued[p].index = Slot(k, n - p)
      BY <2>2, <3>1, <1>a, <1>b
    <3>3. Slot(Advanced(k), (n - p) + 1) = Slot(k, n - p)
      BY <3>1, <1>a, SlotsShift
    <3> QED
      BY <2>2, <3>1, <3>2, <3>3, <1>3
  <2> QED
    BY <2>1, <2>2, <1>a
<1>7. Fresh'
  <2>1. \A i \in Indexes : 0 < ring'.nonces[i].tag /\ ring'.nonces[i].tag <= drawn'
    <3>1. \A i \in Indexes : ring.nonces[i].tag \in Nat
      BY <1>0 DEF Tags
    <3> QED
      BY <1>0, <1>1, <3>1 DEF IInv, Fresh
  <2>2. \A p \in 1 .. n + 1 : p \in 1 .. n \/ p = n + 1
    BY <1>a
  <2>3. \A p \in 1 .. n + 1 : issued'[p].tag <= drawn'
    <3> SUFFICES ASSUME NEW p \in 1 .. n + 1 PROVE issued'[p].tag <= drawn'
      OBVIOUS
    <3>1. CASE p \in 1 .. n
      BY <3>1, <1>0, <1>1, <1>3, <1>c
    <3>2. CASE p = n + 1
      BY <3>2, <1>0, <1>1, <1>3
    <3> QED
      BY <3>1, <3>2, <2>2
  <2>4. \A p, q \in 1 .. n + 1 : p # q => issued'[p].tag # issued'[q].tag
    BY <2>2, <1>3, <1>c, <1>d
  <2>5. \A u \in Tags : u > drawn' => grants'[u] = 0
    BY <1>0, <1>1 DEF IInv, Fresh, Tags
  <2> QED
    BY <2>1, <2>3, <2>4, <2>5, <1>3 DEF Fresh
<1>8. StandingExact'
  <2> SUFFICES ASSUME NEW p \in 1 .. n + 1
               PROVE  Check(ring, issued[p])' <=>
                        n + 1 - p < NonceCount /\ grants'[issued'[p].tag] = 0
    BY <1>3 DEF StandingExact
  <2>1. CASE p = n + 1
    <3>1. Check(ring, issued[p])'
      BY <2>1, <1>0, <1>1, <1>3 DEF Check
    <3>2. grants'[t] = 0
      BY <1>0, <1>1, <1>2 DEF IInv, Fresh
    <3> QED
      BY <2>1, <3>1, <3>2, <1>0, <1>3
  <2>2. CASE p \in 1 .. n
    <3> DEFINE old == issued[p]
    <3>1. /\ issued'[p] = old /\ old \in [index : Indexes, tag : Tags]
          /\ old.tag # t /\ old.index \in Indexes
      BY <2>2, <1>3, <1>c
    <3>2. Check(ring, issued[p]) <=> n - p < NonceCount /\ grants[old.tag] = 0
      BY <2>2, <1>0 DEF IInv, StandingExact
    <3>3. CASE old.index = k
      <4>1. ~Check(ring, issued[p])'
        BY <3>1, <3>3, <1>0, <1>1 DEF Check
      <4>2. ~(n + 1 - p < NonceCount)
        <5> SUFFICES ASSUME n + 1 - p < NonceCount PROVE FALSE
          OBVIOUS
        <5>1. n - p \in 0 .. NonceCount - 1 /\ n - p < NonceCount - 1
          BY <2>2, <1>a
        <5>2. old.index = Slot(k, n - p)
          BY <2>2, <5>1, <1>a, <1>b
        <5>3. Slot(k, n - p) # k
          BY <5>1, <1>a, SlotsShift
        <5> QED
          BY <5>2, <5>3, <3>3
      <4> QED
        BY <4>1, <4>2
    <3>4. CASE old.index # k
      <4>1. Check(ring, issued[p])' <=> Check(ring, issued[p])
        <5>1. ring'.nonces[old.index] = ring.nonces[old.index]
          BY <3>1, <3>4, <1>0, <1>1
        <5> QED
          BY <5>1, <3>1 DEF Check
      <4>2. n - p # NonceCount - 1
        <5> SUFFICES ASSUME n - p = NonceCount - 1 PROVE FALSE
          OBVIOUS
        <5>1. old.index = Slot(k, n - p)
          BY <2>2, <1>a, <1>b
        <5>2. n - p \in 0 .. NonceCount - 1
          BY <1>a
        <5>3. Slot(k, n - p) = k
          BY <5>2, <1>a, SlotsShift
        <5> QED
          BY <5>1, <5>3, <3>4
      <4>3. n + 1 - p < NonceCount <=> n - p < NonceCount
        BY <4>2, <2>2, <1>a
      <4> QED
        BY <3>1, <3>2, <4>1, <4>3, <1>1
    <3> QED
      BY <3>3, <3>4
  <2> QED
    BY <2>1, <2>2, <1>a
<1>9. GrantedOnce'
  BY <1>1 DEF IInv, GrantedOnce
<1> QED
  BY <1>5, <1>6, <1>7, <1>8, <1>9 DEF IInv

(* A nonce that is not in its cell changes nothing. *)
LEMMA PresentIInv == ASSUME NEW nonce, nonce \in Nonce,
                            IInv, Present(nonce),
                            nonce \in Forged \/ \E p \in DOMAIN issued : nonce = issued[p]
                     PROVE  IInv'
PROOF
<1> USE NonceCountAssumption, MaxTagAssumption
<1> DEFINE n == Len(issued)
           t == drawn + 1
           j == nonce.index
           new == [index |-> j, tag |-> t]
<1>1. CASE ~Check(ring, nonce)
  <2>1. UNCHANGED nonceVars
    BY <1>1 DEF Present, AfterCheck, nonceVars
  <2> QED
    BY <2>1 DEF IInv, TypeOK, Placed, Fresh, StandingExact, GrantedOnce, Check, nonceVars
<1>2. CASE Check(ring, nonce)
  <2>0. /\ ring.nonces \in [Indexes -> [index : Indexes, tag : Tags]]
        /\ drawn \in Nat /\ drawn < MaxTag /\ drawn >= NonceCount
        /\ issued \in Seq([index : Indexes, tag : Tags])
        /\ n \in Nat /\ DOMAIN issued = 1 .. n
        /\ grants \in [Tags -> Nat]
        /\ \A i \in Indexes : ring.nonces[i].index = i
    BY <1>2 DEF IInv, TypeOK, Present
  <2>r. ring' = [nonces |-> [ring.nonces EXCEPT ![j] = new],
                 currentIndex |-> ring.currentIndex]
    <3>1. ring' = fillNonce(ring, j, t)
      BY <1>2, Zenon DEF Present, AfterCheck
    <3> QED
      BY <3>1 DEF fillNonce, IInv, TypeOK
  <2>1. /\ ring'.nonces = [ring.nonces EXCEPT ![j] = new]
        /\ ring'.currentIndex = ring.currentIndex
        /\ drawn' = t
        /\ issued' = issued
        /\ grants' = [grants EXCEPT ![nonce.tag] = grants[nonce.tag] + 1]
    <3>3. drawn' = t /\ issued' = issued
      BY <1>2 DEF Present
    <3>4. grants' = [grants EXCEPT ![nonce.tag] = grants[nonce.tag] + 1]
      BY <1>2, Zenon DEF Present
    <3> QED
      BY <2>r, <3>3, <3>4
  <2>2. j \in Indexes /\ ring.nonces[j] = nonce
    BY <1>2 DEF Check
  <2>3. nonce.tag \in Tags /\ nonce.tag \in Nat /\ 0 < nonce.tag /\ nonce.tag <= drawn
    <3>1. nonce.tag \in Tags
      BY <2>0, <2>2
    <3> QED
      BY <3>1, <2>2 DEF IInv, Fresh, Tags
  <2>4. nonce \notin Forged
    BY <2>3 DEF Forged
  <2>5. PICK p0 \in 1 .. n : nonce = issued[p0]
    BY <2>4, <2>0
  <2>6. n - p0 < NonceCount /\ grants[nonce.tag] = 0
    BY <2>5, <1>2, <2>0 DEF IInv, StandingExact
  <2>7. ASSUME NEW p \in 1 .. n
        PROVE  /\ issued[p] \in [index : Indexes, tag : Tags]
               /\ issued[p].tag \in Nat /\ issued[p].tag <= drawn
    <3>1. issued[p] \in [index : Indexes, tag : Tags] /\ issued[p].tag \in Nat
      BY <2>0, IssuedNonce DEF IInv
    <3>2. issued[p].tag <= drawn
      BY <2>0 DEF IInv, Fresh
    <3> QED
      BY <3>1, <3>2
  <2>8. t \in Tags /\ t \in Nat /\ new \in [index : Indexes, tag : Tags]
    BY <2>0, <2>2 DEF Tags
  <2>9. TypeOK'
    <3>1. ring'.nonces \in [Indexes -> [index : Indexes, tag : Tags]]
      BY <2>0, <2>1, <2>8
    <3>2. \A i \in Indexes : ring'.nonces[i].index = i
      BY <2>0, <2>1
    <3>3. drawn' \in NonceCount .. MaxTag
      BY <2>0, <2>1
    <3>4. grants' \in [Tags -> Nat]
      <4>1. grants' = [grants EXCEPT ![nonce.tag] = 1]
        BY <2>1, <2>6
      <4> QED
        BY <4>1, <2>0
    <3>5. ring'.currentIndex \in Indexes
      BY <2>1 DEF IInv, TypeOK
    <3> QED
      BY <2>r, <2>0, <2>1, <3>1, <3>2, <3>3, <3>4, <3>5 DEF TypeOK
  <2>10. Placed'
    BY <2>1 DEF IInv, Placed
  <2>11. Fresh'
    <3>1. \A i \in Indexes : 0 < ring'.nonces[i].tag /\ ring'.nonces[i].tag <= drawn'
      <4>1. \A i \in Indexes : ring.nonces[i].tag \in Nat
        BY <2>0 DEF Tags
      <4> QED
        BY <2>0, <2>1, <4>1 DEF IInv, Fresh
    <3>2. \A p \in DOMAIN issued' : issued'[p].tag <= drawn'
      BY <2>0, <2>1, <2>7
    <3>3. \A u \in Tags : u > drawn' => grants'[u] = 0
      <4> SUFFICES ASSUME NEW u \in Tags, u > drawn' PROVE grants'[u] = 0
        OBVIOUS
      <4>1. u > drawn /\ u # nonce.tag
        BY <2>0, <2>1, <2>3 DEF Tags
      <4> QED
        BY <4>1, <2>0, <2>1 DEF IInv, Fresh
    <3> QED
      BY <2>1, <3>1, <3>2, <3>3 DEF IInv, Fresh
  <2>12. StandingExact'
    <3> SUFFICES ASSUME NEW p \in 1 .. n
                 PROVE  Check(ring, issued[p])' <=>
                          n - p < NonceCount /\ grants'[issued[p].tag] = 0
      BY <2>0, <2>1 DEF StandingExact
    <3>1. CASE p = p0
      <4>1. grants'[issued[p].tag] = 1
        BY <3>1, <2>0, <2>1, <2>3, <2>5, <2>6
      <4>2. ~Check(ring, issued[p])'
        BY <3>1, <2>0, <2>1, <2>2, <2>3, <2>5 DEF Check
      <4> QED
        BY <4>1, <4>2
    <3>2. CASE p # p0
      <4>1. issued[p].tag # nonce.tag
        BY <3>2, <2>0, <2>5 DEF IInv, Fresh
      <4>2. grants'[issued[p].tag] = grants[issued[p].tag]
        BY <4>1, <2>0, <2>1, <2>7
      <4>3. Check(ring, issued[p]) <=> n - p < NonceCount /\ grants[issued[p].tag] = 0
        BY <2>0 DEF IInv, StandingExact
      <4>4. CASE issued[p].index = j
        <5>1. ~Check(ring, issued[p]) /\ ~Check(ring, issued[p])'
          BY <4>1, <4>4, <2>0, <2>1, <2>2, <2>7 DEF Check
        <5> QED
          BY <5>1, <4>2, <4>3
      <4>5. CASE issued[p].index # j
        <5>1. Check(ring, issued[p])' <=> Check(ring, issued[p])
          BY <4>5, <2>0, <2>1, <2>7 DEF Check
        <5> QED
          BY <5>1, <4>2, <4>3
      <4> QED
        BY <4>4, <4>5
    <3> QED
      BY <3>1, <3>2
  <2>13. GrantedOnce'
    BY <2>0, <2>1, <2>6 DEF IInv, GrantedOnce
  <2> QED
    BY <2>9, <2>10, <2>11, <2>12, <2>13 DEF IInv
<1> QED
  BY <1>1, <1>2

-----------------------------------------------------------------------------
(* The strengthened invariant holds in every reachable state. *)
THEOREM NonceInvariant == Spec => []IInv
PROOF
<1>1. Init => IInv
  BY InitIInv
<1>2. IInv /\ [Next]_nonceVars => IInv'
  <2> SUFFICES ASSUME IInv, [Next]_nonceVars PROVE IInv'
    OBVIOUS
  <2>1. CASE GetNonce
    BY <2>1, GetNonceIInv
  <2>2. ASSUME NEW p \in DOMAIN issued, Present(issued[p]) PROVE IInv'
    <3>1. issued[p] \in Nonce
      BY IssuedNonce DEF IInv, Nonce
    <3> QED
      BY <2>2, <3>1, PresentIInv
  <2>3. ASSUME NEW nonce \in Forged, Present(nonce) PROVE IInv'
    <3>1. nonce \in Nonce
      BY NonceCountAssumption DEF Forged, Nonce
    <3> QED
      BY <2>3, <3>1, PresentIInv
  <2>4. CASE UNCHANGED nonceVars
    BY <2>4 DEF IInv, TypeOK, Placed, Fresh, StandingExact, GrantedOnce, Check, nonceVars
  <2> QED
    BY <2>1, <2>2, <2>3, <2>4 DEF Next
<1> QED
  BY <1>1, <1>2, PTL DEF Spec

(* Type correctness, for every size of the ring. *)
THEOREM TypeCorrect == Spec => []TypeOK
PROOF
<1>1. IInv => TypeOK
  BY DEF IInv
<1> QED
  BY <1>1, NonceInvariant, PTL

(* A nonce opens at most one session. *)
THEOREM NonceGrantedOnce == Spec => []GrantedOnce
PROOF
<1>1. IInv => GrantedOnce
  BY DEF IInv
<1> QED
  BY <1>1, NonceInvariant, PTL

(* The nonces that Check accepts are exactly the last NonceCount issued,   *)
(* less the ones already granted.                                          *)
THEOREM StandingIsExact == Spec => []StandingExact
PROOF
<1>1. IInv => StandingExact
  BY DEF IInv
<1> QED
  BY <1>1, NonceInvariant, PTL

(* Every cell holds a tag that was drawn, so bytes made up by the sender   *)
(* match none.                                                             *)
LEMMA ForgedFails ==
  ASSUME IInv, NEW nonce \in Forged
  PROVE  ~Check(ring, nonce)
BY DEF IInv, Fresh, Check, Forged

(* A grant is of a nonce that was returned by Next.                        *)
LEMMA GrantsOfIssued ==
  ASSUME IInv, GrantedWereIssued, NEW p \in DOMAIN issued, Present(issued[p])
  PROVE  GrantedWereIssued'
PROOF
<1>1. issued' = issued
  BY DEF Present
<1>2. \A t \in Tags : grants'[t] = grants[t] \/ t = issued[p].tag
  <2>1. CASE Check(ring, issued[p])
    BY <2>1 DEF Present, IInv, TypeOK
  <2>2. CASE ~Check(ring, issued[p])
    BY <2>2 DEF Present
  <2> QED
    BY <2>1, <2>2
<1> QED
  BY <1>1, <1>2 DEF GrantedWereIssued

(* GetNonce grants nothing. *)
LEMMA GetNonceKeepsGrants ==
  ASSUME IInv, GrantedWereIssued, GetNonce
  PROVE  GrantedWereIssued'
PROOF
<1>1. issued \in Seq([index : Indexes, tag : Tags]) /\ drawn + 1 \in Tags
  BY MaxTagAssumption, NonceCountAssumption DEF IInv, TypeOK, GetNonce, Tags
<1>2. NextNonce(ring, drawn + 1) \in [index : Indexes, tag : Tags]
  BY <1>1 DEF NextNonce, IInv, TypeOK
<1>3. \A p \in DOMAIN issued : p \in DOMAIN issued' /\ issued'[p] = issued[p]
  BY <1>1, <1>2, AppendProperties DEF GetNonce
<1>4. grants' = grants
  BY DEF GetNonce
<1> QED
  BY <1>3, <1>4 DEF GrantedWereIssued

(* Only a nonce that Next returned is ever granted: not the fill of        *)
(* NewNonces, not a refill by Check, not one the sender made up.           *)
THEOREM GrantedNoncesWereIssued == Spec => []GrantedWereIssued
PROOF
<1>1. Init => GrantedWereIssued
  BY DEF Init, GrantedWereIssued
<1>2. IInv /\ GrantedWereIssued /\ [Next]_nonceVars => GrantedWereIssued'
  <2> SUFFICES ASSUME IInv, GrantedWereIssued, [Next]_nonceVars PROVE GrantedWereIssued'
    OBVIOUS
  <2>1. CASE GetNonce
    BY <2>1, GetNonceKeepsGrants
  <2>2. ASSUME NEW p \in DOMAIN issued, Present(issued[p]) PROVE GrantedWereIssued'
    BY <2>2, GrantsOfIssued
  <2>3. ASSUME NEW nonce \in Forged, Present(nonce) PROVE GrantedWereIssued'
    BY <2>3, ForgedFails DEF Present, GrantedWereIssued
  <2>4. CASE UNCHANGED nonceVars
    BY <2>4 DEF GrantedWereIssued, nonceVars
  <2> QED
    BY <2>1, <2>2, <2>3, <2>4 DEF Next
<1> QED
  BY <1>1, <1>2, NonceInvariant, PTL DEF Spec
=============================================================================
