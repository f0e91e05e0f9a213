---------------------------- MODULE DeliveryProofs ----------------------------
(***************************************************************************)
(* The delivery of frames, for every number of posts and polls, every size *)
(* of a mailbox and of an answer, and every clock: what is appended is     *)
(* kept while it is young, the cursor passes over nothing without a named  *)
(* reason, nothing is handed over twice without one, and the whole is an   *)
(* implementation of Mailbox.                                              *)
(***************************************************************************)
EXTENDS Delivery, SequenceTheorems, WellFoundedInduction, TLAPS

(* A set of natural numbers that is not empty has a least member. *)
LEMMA LeastNat ==
  ASSUME NEW T \in SUBSET Nat, T # {}
  PROVE  \E n \in T : \A m \in T : n <= m
<1> DEFINE R == {p \in Nat \X Nat : p[1] < p[2]}
<1>1. IsWellFoundedOn(R, Nat)
  BY NatLessThanWellFounded DEF OpToRel
<1> HIDE DEF R
<1>2. PICK n \in T : \A m \in T : <<m, n>> \notin R
  BY <1>1, WFMin
<1>3. \A m \in T : ~(m < n)
  BY <1>2 DEF R
<1> QED
  BY <1>2, <1>3
-----------------------------------------------------------------------------
(* The operators of Storage, by induction on the length of what the loops  *)
(* have seen: g is the function the loop of Clear computes up to n.        *)
IsKept(g, messages, time, age, n) ==
  g = [i \in 0 .. n |->
         IF i = 0 THEN <<>>
         ELSE IF time - messages[i].touched < age THEN Append(g[i - 1], messages[i])
         ELSE g[i - 1]]

(* The loop of Clear computes something. *)
LEMMA KeptExists ==
  ASSUME NEW messages, NEW time, NEW age, NEW n \in Nat
  PROVE  \E g : IsKept(g, messages, time, age, n)
<1> DEFINE Bad == {k \in Nat : ~ \E g : IsKept(g, messages, time, age, k)}
<1>1. Bad = {}
  <2> SUFFICES ASSUME Bad # {} PROVE FALSE
    OBVIOUS
  <2>1. PICK k \in Bad : \A l \in Bad : k <= l
    BY LeastNat
  <2>2. k \in Nat /\ ~ \E g : IsKept(g, messages, time, age, k)
    BY <2>1
  <2>3. CASE k = 0
    <3> DEFINE g == [i \in 0 .. 0 |-> <<>>]
    <3>1. IsKept(g, messages, time, age, 0)
      BY DEF IsKept
    <3> QED
      BY <2>2, <2>3, <3>1
  <2>4. CASE k # 0
    <3>1. k - 1 \in Nat /\ k - 1 \notin Bad
      BY <2>1, <2>2, <2>4
    <3>2. PICK g : IsKept(g, messages, time, age, k - 1)
      BY <3>1
    <3> DEFINE last == IF time - messages[k].touched < age
                       THEN Append(g[k - 1], messages[k]) ELSE g[k - 1]
    <3> DEFINE h == [i \in 0 .. k |-> IF i = k THEN last ELSE g[i]]
    <3>3. \A i \in 0 .. k - 1 :
            g[i] = IF i = 0 THEN <<>>
                   ELSE IF time - messages[i].touched < age
                        THEN Append(g[i - 1], messages[i]) ELSE g[i - 1]
      BY <3>2 DEF IsKept
    <3>4. \A i \in 0 .. k - 1 : h[i] = g[i]
      BY <2>2
    <3>5. h[k] = last
      BY <2>2
    <3>6. \A i \in 0 .. k :
            h[i] = IF i = 0 THEN <<>>
                   ELSE IF time - messages[i].touched < age
                        THEN Append(h[i - 1], messages[i]) ELSE h[i - 1]
      <4> TAKE i \in 0 .. k
      <4>1. CASE i = 0
        <5>1. i \in 0 .. k - 1
          BY <4>1, <3>1
        <5>2. h[i] = g[i] /\ g[i] = <<>>
          BY <4>1, <5>1, <3>3, <3>4
        <5> HIDE DEF h
        <5> QED
          BY <4>1, <5>2
      <4>2. CASE i # 0
        <5>1. i - 1 \in 0 .. k - 1
          BY <4>2, <2>2
        <5>2. h[i - 1] = g[i - 1]
          BY <5>1, <3>4
        <5>3. i = k \/ i \in 0 .. k - 1
          BY <2>2
        <5>4. i = k \/ h[i] = g[i]
          BY <5>3, <3>4
        <5> HIDE DEF h
        <5> QED
          BY <4>2, <5>2, <5>3, <5>4, <3>3, <3>5, <2>2
      <4> QED
        BY <4>1, <4>2
    <3>7. h = [i \in 0 .. k |-> h[i]]
      OBVIOUS
    <3> HIDE DEF h
    <3>8. IsKept(h, messages, time, age, k)
      BY <3>6, <3>7 DEF IsKept
    <3> QED
      BY <2>2, <3>8
  <2> QED
    BY <2>3, <2>4
<1> QED
  BY <1>1

(* What Younger returns: the young messages, each from a place of its own  *)
(* and in the order they had; all of them, if all are young.               *)
LEMMA YoungerIs ==
  ASSUME NEW S, NEW messages \in Seq(S), NEW time, NEW age
  PROVE  /\ Younger(messages, time, age) \in Seq(S)
         /\ Len(Younger(messages, time, age)) <= Len(messages)
         /\ \A i, j \in 1 .. Len(Younger(messages, time, age)) : i < j =>
              \E k, l \in 1 .. Len(messages) :
                /\ k < l
                /\ Younger(messages, time, age)[i] = messages[k]
                /\ Younger(messages, time, age)[j] = messages[l]
         /\ \A i \in 1 .. Len(Younger(messages, time, age)) :
              \E k \in 1 .. Len(messages) :
                /\ Younger(messages, time, age)[i] = messages[k]
                /\ time - messages[k].touched < age
         /\ \A k \in 1 .. Len(messages) : time - messages[k].touched < age =>
              \E i \in 1 .. Len(Younger(messages, time, age)) :
                Younger(messages, time, age)[i] = messages[k]
         /\ (\A k \in 1 .. Len(messages) : time - messages[k].touched < age) =>
              Len(Younger(messages, time, age)) = Len(messages)
<1> DEFINE N == Len(messages)
<1> DEFINE kept[n \in 0 .. N] ==
        IF n = 0 THEN <<>>
        ELSE IF time - messages[n].touched < age THEN Append(kept[n - 1], messages[n])
        ELSE kept[n - 1]
<1>1. N \in Nat
  OBVIOUS
<1>2. PICK g : IsKept(g, messages, time, age, N)
  BY <1>1, KeptExists
<1>3. g = [i \in 0 .. N |->
             IF i = 0 THEN <<>>
             ELSE IF time - messages[i].touched < age THEN Append(g[i - 1], messages[i])
             ELSE g[i - 1]]
  BY <1>2 DEF IsKept
<1>4. kept = [i \in 0 .. N |->
                IF i = 0 THEN <<>>
                ELSE IF time - messages[i].touched < age THEN Append(kept[i - 1], messages[i])
                ELSE kept[i - 1]]
  BY <1>3, Zenon DEF kept
<1>5. Younger(messages, time, age) = kept[N]
  BY DEF Younger
<1> HIDE DEF kept
<1>6. kept[0] = <<>>
  BY <1>1, <1>4
<1>7. \A n \in 1 .. N : kept[n] = IF time - messages[n].touched < age
                                  THEN Append(kept[n - 1], messages[n]) ELSE kept[n - 1]
  <2> TAKE n \in 1 .. N
  <2>1. n \in 0 .. N /\ n # 0
    BY <1>1
  <2> HIDE DEF N
  <2> QED
    BY <2>1, <1>4, Zenon
<1> HIDE DEF N
<1> DEFINE Young(k) == time - messages[k].touched < age
<1> DEFINE Typed(n) == kept[n] \in Seq(S) /\ Len(kept[n]) <= n
<1> DEFINE Ordered(n) == \A i, j \in 1 .. Len(kept[n]) : i < j =>
              \E k, l \in 1 .. n : k < l /\ kept[n][i] = messages[k] /\ kept[n][j] = messages[l]
<1> DEFINE Old(n) == \A i \in 1 .. Len(kept[n]) : \E k \in 1 .. n : kept[n][i] = messages[k] /\ Young(k)
<1> DEFINE All(n) == \A k \in 1 .. n : Young(k) => \E i \in 1 .. Len(kept[n]) : kept[n][i] = messages[k]
<1> DEFINE Full(n) == (\A k \in 1 .. n : Young(k)) => Len(kept[n]) = n
<1> DEFINE Good(n) == Typed(n) /\ Ordered(n) /\ Old(n) /\ All(n) /\ Full(n)
<1> HIDE DEF Young
<1>8. Good(0)
  BY <1>6
<1>9. \A n \in 1 .. N : Young(n) => kept[n] = Append(kept[n - 1], messages[n])
  BY <1>7 DEF Young
<1>10. \A n \in 1 .. N : ~Young(n) => kept[n] = kept[n - 1]
  BY <1>7 DEF Young
<1>11. ASSUME NEW n \in 1 .. N, Good(n - 1)
       PROVE  Good(n)
  <2>1. n \in Nat /\ n - 1 \in Nat /\ n >= 1
    BY <1>1
  <2>2. CASE ~Young(n)
    <3>1. kept[n] = kept[n - 1]
      BY <1>10, <2>2
    <3>2. Typed(n)
      BY <3>1, <1>11, <2>1
    <3>3. Ordered(n)
      <4> SUFFICES ASSUME NEW i \in 1 .. Len(kept[n]), NEW j \in 1 .. Len(kept[n]), i < j
                   PROVE  \E k, l \in 1 .. n : /\ k < l
                                               /\ kept[n][i] = messages[k]
                                               /\ kept[n][j] = messages[l]
        OBVIOUS
      <4>1. PICK k \in 1 .. n - 1, l \in 1 .. n - 1 :
                   k < l /\ kept[n - 1][i] = messages[k] /\ kept[n - 1][j] = messages[l]
        BY <3>1, <1>11
      <4> QED
        BY <4>1, <3>1, <2>1
    <3>4. Old(n)
      BY <3>1, <1>11, <2>1
    <3>5. All(n)
      <4> SUFFICES ASSUME NEW k \in 1 .. n, Young(k)
                   PROVE  \E i \in 1 .. Len(kept[n]) : kept[n][i] = messages[k]
        OBVIOUS
      <4>1. k # n
        BY <2>2
      <4>2. k \in 1 .. n - 1
        BY <4>1, <2>1
      <4> QED
        BY <4>2, <3>1, <1>11
    <3>6. Full(n)
      BY <2>1, <2>2
    <3> QED
      BY <3>2, <3>3, <3>4, <3>5, <3>6
  <2>3. CASE Young(n)
    <3> DEFINE len == Len(kept[n - 1])
    <3>1. kept[n] = Append(kept[n - 1], messages[n])
      BY <1>9, <2>3
    <3>2. messages[n] \in S
      BY DEF N
    <3>3. kept[n - 1] \in Seq(S) /\ len <= n - 1 /\ len \in Nat
      BY <1>11
    <3>4. /\ kept[n] \in Seq(S)
          /\ Len(kept[n]) = len + 1
          /\ kept[n][len + 1] = messages[n]
          /\ \A i \in 1 .. len : kept[n][i] = kept[n - 1][i]
      BY <3>1, <3>2, <3>3
    <3>5. Typed(n)
      BY <3>3, <3>4, <2>1
    <3>6. Old(n)
      <4> SUFFICES ASSUME NEW i \in 1 .. Len(kept[n])
                   PROVE  \E k \in 1 .. n : kept[n][i] = messages[k] /\ Young(k)
        OBVIOUS
      <4>1. CASE i = len + 1
        BY <4>1, <3>4, <2>3
      <4>2. CASE i \in 1 .. len
        <5>1. PICK k \in 1 .. n - 1 : kept[n - 1][i] = messages[k] /\ Young(k)
          BY <4>2, <1>11
        <5> QED
          BY <5>1, <4>2, <3>4, <2>1
      <4> QED
        BY <4>1, <4>2, <3>3, <3>4
    <3>7. Ordered(n)
      <4> SUFFICES ASSUME NEW i \in 1 .. Len(kept[n]), NEW j \in 1 .. Len(kept[n]), i < j
                   PROVE  \E k, l \in 1 .. n : /\ k < l
                                               /\ kept[n][i] = messages[k]
                                               /\ kept[n][j] = messages[l]
        OBVIOUS
      <4>1. i \in 1 .. len
        BY <3>3, <3>4
      <4>2. CASE j = len + 1
        <5>1. PICK k \in 1 .. n - 1 : kept[n - 1][i] = messages[k]
          BY <4>1, <1>11
        <5>2. k \in 1 .. n /\ n \in 1 .. n /\ k < n
          BY <2>1
        <5>3. kept[n][i] = messages[k] /\ kept[n][j] = messages[n]
          BY <5>1, <4>1, <4>2, <3>4
        <5> QED
          BY <5>2, <5>3
      <4>3. CASE j \in 1 .. len
        <5>1. PICK k \in 1 .. n - 1, l \in 1 .. n - 1 :
                     k < l /\ kept[n - 1][i] = messages[k] /\ kept[n - 1][j] = messages[l]
          BY <4>1, <4>3, <1>11
        <5>2. k \in 1 .. n /\ l \in 1 .. n
          BY <2>1
        <5>3. kept[n][i] = messages[k] /\ kept[n][j] = messages[l]
          BY <5>1, <4>1, <4>3, <3>4
        <5> QED
          BY <5>1, <5>2, <5>3
      <4> QED
        BY <4>2, <4>3, <3>3, <3>4
    <3>8. All(n)
      <4> SUFFICES ASSUME NEW k \in 1 .. n, Young(k)
                   PROVE  \E i \in 1 .. Len(kept[n]) : kept[n][i] = messages[k]
        OBVIOUS
      <4>1. CASE k = n
        BY <4>1, <3>3, <3>4
      <4>2. CASE k \in 1 .. n - 1
        <5>1. PICK i \in 1 .. len : kept[n - 1][i] = messages[k]
          BY <4>2, <1>11
        <5> QED
          BY <5>1, <3>3, <3>4
      <4> QED
        BY <4>1, <4>2, <2>1
    <3>9. Full(n)
      BY <1>11, <3>4, <2>1
    <3> QED
      BY <3>5, <3>6, <3>7, <3>8, <3>9
  <2> QED
    BY <2>2, <2>3
<1> HIDE DEF Good
<1>12. Good(N)
  <2> DEFINE Bad == {n \in 0 .. N : ~Good(n)}
  <2> SUFFICES ASSUME Bad # {} PROVE FALSE
    BY <1>1
  <2>1. Bad \in SUBSET Nat
    BY <1>1
  <2>2. PICK n \in Bad : \A l \in Bad : n <= l
    BY <2>1, LeastNat
  <2>3. n \in 0 .. N /\ ~Good(n)
    BY <2>2
  <2>4. n # 0
    BY <2>3, <1>8
  <2>5. n \in 1 .. N /\ n - 1 \in 0 .. N /\ n - 1 < n
    BY <2>3, <2>4, <1>1
  <2>6. n - 1 \notin Bad
    BY <2>2, <2>5
  <2>7. Good(n - 1)
    BY <2>5, <2>6
  <2> QED
    BY <2>3, <2>5, <2>7, <1>11
<1> QED
  BY <1>5, <1>12 DEF Good, Young, N

(* The loop of GetMessage, the same way. *)
IsTaken(g, messages, after, lastId, n) ==
  g = [i \in 0 .. n |->
         IF i = 0 THEN [sent |-> {}, bytes |-> 0, lastId |-> lastId]
         ELSE IF messages[i].id > after /\ g[i - 1].bytes + messages[i].size < MaxSize
         THEN [sent   |-> g[i - 1].sent \cup {messages[i]},
               bytes  |-> g[i - 1].bytes + messages[i].size,
               lastId |-> messages[i].id]
         ELSE g[i - 1]]

(* One round of it. *)
TakenNext(t, m, after) ==
  IF m.id > after /\ t.bytes + m.size < MaxSize
  THEN [sent |-> t.sent \cup {m}, bytes |-> t.bytes + m.size, lastId |-> m.id]
  ELSE t

(* The loop of GetMessage computes something. *)
LEMMA TakenExists ==
  ASSUME NEW messages, NEW after, NEW lastId, NEW n \in Nat
  PROVE  \E g : IsTaken(g, messages, after, lastId, n)
<1> DEFINE none == [sent |-> {}, bytes |-> 0, lastId |-> lastId]
<1> DEFINE Is(g, k) == g = [i \in 0 .. k |-> IF i = 0 THEN none
                                             ELSE TakenNext(g[i - 1], messages[i], after)]
<1> DEFINE Bad == {k \in Nat : ~ \E g : Is(g, k)}
<1> HIDE DEF none
<1>1. Bad = {}
  <2> SUFFICES ASSUME Bad # {} PROVE FALSE
    OBVIOUS
  <2>1. PICK k \in Bad : \A l \in Bad : k <= l
    BY LeastNat
  <2>2. k \in Nat /\ ~ \E g : Is(g, k)
    BY <2>1
  <2>3. CASE k = 0
    <3> DEFINE g == [i \in 0 .. 0 |-> none]
    <3>1. Is(g, 0)
      OBVIOUS
    <3> QED
      BY <2>2, <2>3, <3>1
  <2>4. CASE k # 0
    <3>1. k - 1 \in Nat /\ k - 1 \notin Bad
      BY <2>1, <2>2, <2>4
    <3>2. PICK g : Is(g, k - 1)
      BY <3>1
    <3> DEFINE last == TakenNext(g[k - 1], messages[k], after)
    <3> DEFINE h == [i \in 0 .. k |-> IF i = k THEN last ELSE g[i]]
    <3>3. \A i \in 0 .. k - 1 :
            g[i] = IF i = 0 THEN none ELSE TakenNext(g[i - 1], messages[i], after)
      BY <3>2
    <3>4. \A i \in 0 .. k - 1 : h[i] = g[i]
      BY <2>2
    <3>5. h[k] = last
      BY <2>2
    <3>6. \A i \in 0 .. k :
            h[i] = IF i = 0 THEN none ELSE TakenNext(h[i - 1], messages[i], after)
      <4> TAKE i \in 0 .. k
      <4>1. CASE i = 0
        <5>1. i \in 0 .. k - 1
          BY <4>1, <3>1
        <5>2. h[i] = g[i] /\ g[i] = none
          BY <4>1, <5>1, <3>3, <3>4
        <5> HIDE DEF h
        <5> QED
          BY <4>1, <5>2
      <4>2. CASE i # 0
        <5>1. i - 1 \in 0 .. k - 1
          BY <4>2, <2>2
        <5>2. h[i - 1] = g[i - 1]
          BY <5>1, <3>4
        <5>3. i = k \/ i \in 0 .. k - 1
          BY <2>2
        <5>4. i = k \/ h[i] = g[i]
          BY <5>3, <3>4
        <5> HIDE DEF h
        <5> QED
          BY <4>2, <5>2, <5>3, <5>4, <3>3, <3>5, <2>2
      <4> QED
        BY <4>1, <4>2
    <3>7. h = [i \in 0 .. k |-> h[i]]
      OBVIOUS
    <3> HIDE DEF h
    <3>8. Is(h, k)
      BY <3>6, <3>7
    <3> QED
      BY <2>2, <3>8
  <2> QED
    BY <2>3, <2>4
<1> HIDE DEF Is
<1>2. PICK g : Is(g, n)
  BY <1>1
<1>3. IsTaken(g, messages, after, lastId, n)
  BY <1>2 DEF Is, IsTaken, TakenNext, none
<1> QED
  BY <1>3

(* What it takes: only messages behind id after; if none, each of them is  *)
(* too big for any answer, and the id to continue after is as it was;      *)
(* otherwise that id is the one of the last message taken, and what was    *)
(* left out in front of it is bigger than it.                              *)
LEMMA TakenIs ==
  ASSUME NEW messages \in Seq(Message), NEW after, NEW lastId
  PROVE  /\ \A x \in Taken(messages, after, lastId).sent :
              \E i \in 1 .. Len(messages) : x = messages[i] /\ messages[i].id > after
         /\ Taken(messages, after, lastId).sent = {} =>
              /\ Taken(messages, after, lastId).lastId = lastId
              /\ \A i \in 1 .. Len(messages) :
                   messages[i].id > after => messages[i].size >= MaxSize
         /\ Taken(messages, after, lastId).sent # {} =>
              \E k \in 1 .. Len(messages) :
                /\ messages[k] \in Taken(messages, after, lastId).sent
                /\ Taken(messages, after, lastId).lastId = messages[k].id
                /\ \A x \in Taken(messages, after, lastId).sent :
                     \E i \in 1 .. k : x = messages[i]
                /\ \A i \in 1 .. k :
                     messages[i].id > after =>
                       \/ messages[i] \in Taken(messages, after, lastId).sent
                       \/ messages[i].size > messages[k].size
<1> DEFINE N == Len(messages)
<1> DEFINE taken[n \in 0 .. N] ==
        IF n = 0 THEN [sent |-> {}, bytes |-> 0, lastId |-> lastId]
        ELSE IF messages[n].id > after /\ taken[n - 1].bytes + messages[n].size < MaxSize
        THEN [sent   |-> taken[n - 1].sent \cup {messages[n]},
              bytes  |-> taken[n - 1].bytes + messages[n].size,
              lastId |-> messages[n].id]
        ELSE taken[n - 1]
<1>1. N \in Nat
  OBVIOUS
<1>2. PICK g : IsTaken(g, messages, after, lastId, N)
  BY <1>1, TakenExists
<1>3. g = [i \in 0 .. N |->
             IF i = 0 THEN [sent |-> {}, bytes |-> 0, lastId |-> lastId]
             ELSE IF messages[i].id > after /\ g[i - 1].bytes + messages[i].size < MaxSize
             THEN [sent   |-> g[i - 1].sent \cup {messages[i]},
                   bytes  |-> g[i - 1].bytes + messages[i].size,
                   lastId |-> messages[i].id]
             ELSE g[i - 1]]
  BY <1>2 DEF IsTaken
<1>4. taken = [i \in 0 .. N |->
             IF i = 0 THEN [sent |-> {}, bytes |-> 0, lastId |-> lastId]
             ELSE IF messages[i].id > after /\ taken[i - 1].bytes + messages[i].size < MaxSize
             THEN [sent   |-> taken[i - 1].sent \cup {messages[i]},
                   bytes  |-> taken[i - 1].bytes + messages[i].size,
                   lastId |-> messages[i].id]
             ELSE taken[i - 1]]
  BY <1>3, Zenon DEF taken
<1>5. Taken(messages, after, lastId) = taken[N]
  BY DEF Taken
<1> HIDE DEF taken
<1>6. taken[0] = [sent |-> {}, bytes |-> 0, lastId |-> lastId]
  BY <1>1, <1>4
<1>7. \A n \in 1 .. N : taken[n] = TakenNext(taken[n - 1], messages[n], after)
  <2> TAKE n \in 1 .. N
  <2>1. n \in 0 .. N /\ n # 0
    BY <1>1
  <2> HIDE DEF N
  <2>2. taken[n] = IF messages[n].id > after /\ taken[n - 1].bytes + messages[n].size < MaxSize
                   THEN [sent   |-> taken[n - 1].sent \cup {messages[n]},
                         bytes  |-> taken[n - 1].bytes + messages[n].size,
                         lastId |-> messages[n].id]
                   ELSE taken[n - 1]
    BY <2>1, <1>4, Zenon
  <2> QED
    BY <2>2 DEF TakenNext
<1>8. \A n \in 1 .. N : messages[n].size \in Nat
  <2>1. \A n \in 1 .. N : messages[n] \in Message
    OBVIOUS
  <2> QED
    BY <2>1 DEF Message
<1> HIDE DEF N
<1> DEFINE Wanted(i) == messages[i].id > after
<1> HIDE DEF Wanted
<1> DEFINE Behind(n) == \A x \in taken[n].sent : \E i \in 1 .. n : x = messages[i] /\ Wanted(i)
<1> DEFINE Empty(n) == taken[n].sent = {} => taken[n].lastId = lastId /\ taken[n].bytes = 0
<1> DEFINE Rejected(n) == \A i \in 1 .. n : Wanted(i) =>
              messages[i] \in taken[n].sent \/ taken[n].bytes + messages[i].size >= MaxSize
<1> DEFINE Latest(n) == taken[n].sent # {} =>
              \E k \in 1 .. n :
                /\ messages[k] \in taken[n].sent
                /\ taken[n].lastId = messages[k].id
                /\ \A x \in taken[n].sent : \E i \in 1 .. k : x = messages[i]
                /\ \A i \in 1 .. k : Wanted(i) =>
                     messages[i] \in taken[n].sent \/ messages[i].size > messages[k].size
<1> DEFINE Good(n) == taken[n].bytes \in Nat /\ Behind(n) /\ Empty(n) /\ Rejected(n) /\ Latest(n)
<1>9. Good(0)
  BY <1>6
<1>10. ASSUME NEW n \in 1 .. N, Good(n - 1)
       PROVE  Good(n)
  <2>1. n \in Nat /\ n - 1 \in Nat /\ n >= 1
    BY <1>1
  <2> DEFINE t == taken[n - 1]
  <2> DEFINE fits == Wanted(n) /\ t.bytes + messages[n].size < MaxSize
  <2>2. CASE ~fits
    <3>1. taken[n] = t
      BY <1>7, <2>2 DEF TakenNext, Wanted
    <3>2. Behind(n)
      BY <3>1, <1>10, <2>1
    <3>3. Rejected(n)
      <4> SUFFICES ASSUME NEW i \in 1 .. n, Wanted(i)
                   PROVE  messages[i] \in t.sent \/ t.bytes + messages[i].size >= MaxSize
        BY <3>1
      <4>1. CASE i = n
        BY <4>1, <2>2, <1>8, <1>10, StorageAssumption
      <4>2. CASE i # n
        <5>1. i \in 1 .. n - 1
          BY <4>2, <2>1
        <5> QED
          BY <5>1, <1>10
      <4> QED
        BY <4>1, <4>2
    <3>4. Latest(n)
      <4> SUFFICES ASSUME t.sent # {}
                   PROVE  \E k \in 1 .. n :
                            /\ messages[k] \in t.sent
                            /\ t.lastId = messages[k].id
                            /\ \A x \in t.sent : \E i \in 1 .. k : x = messages[i]
                            /\ \A i \in 1 .. k : Wanted(i) =>
                                 messages[i] \in t.sent \/ messages[i].size > messages[k].size
        BY <3>1
      <4>1. PICK k \in 1 .. n - 1 :
                            /\ messages[k] \in t.sent
                            /\ t.lastId = messages[k].id
                            /\ \A x \in t.sent : \E i \in 1 .. k : x = messages[i]
                            /\ \A i \in 1 .. k : Wanted(i) =>
                                 messages[i] \in t.sent \/ messages[i].size > messages[k].size
        BY <1>10
      <4>2. k \in 1 .. n
        BY <2>1
      <4> QED
        BY <4>1, <4>2
    <3> QED
      BY <3>1, <3>2, <3>3, <3>4, <1>10
  <2>3. CASE fits
    <3>1. taken[n] = [sent   |-> t.sent \cup {messages[n]},
                      bytes  |-> t.bytes + messages[n].size,
                      lastId |-> messages[n].id]
      BY <1>7, <2>3 DEF TakenNext, Wanted
    <3>2. /\ taken[n].sent = t.sent \cup {messages[n]}
          /\ taken[n].bytes = t.bytes + messages[n].size
          /\ taken[n].lastId = messages[n].id
      BY <3>1
    <3>3. t.bytes \in Nat /\ messages[n].size \in Nat /\ taken[n].bytes \in Nat
      BY <3>2, <1>8, <1>10
    <3>4. Behind(n)
      <4> SUFFICES ASSUME NEW x \in taken[n].sent
                   PROVE  \E i \in 1 .. n : x = messages[i] /\ Wanted(i)
        OBVIOUS
      <4>1. CASE x = messages[n]
        BY <4>1, <2>3, <2>1
      <4>2. CASE x \in t.sent
        <5>1. PICK i \in 1 .. n - 1 : x = messages[i] /\ Wanted(i)
          BY <4>2, <1>10
        <5> QED
          BY <5>1, <2>1
      <4> QED
        BY <4>1, <4>2, <3>2
    <3>5. ASSUME NEW i \in 1 .. n, Wanted(i)
          PROVE  /\ messages[i] \in taken[n].sent \/ messages[i].size > messages[n].size
                 /\ messages[i] \in taken[n].sent \/ taken[n].bytes + messages[i].size >= MaxSize
      <4>1. CASE i = n
        BY <4>1, <3>2
      <4>2. CASE i # n
        <5>1. i \in 1 .. n - 1 /\ i \in 1 .. N
          BY <4>2, <2>1, <1>1
        <5>2. messages[i] \in t.sent \/ t.bytes + messages[i].size >= MaxSize
          BY <5>1, <3>5, <1>10
        <5>3. CASE messages[i] \in t.sent
          BY <5>3, <3>2
        <5>4. CASE t.bytes + messages[i].size >= MaxSize
          <6>1. messages[i].size \in Nat
            BY <5>1, <1>8
          <6>2. t.bytes + messages[n].size < MaxSize
            BY <2>3
          <6>3. t.bytes \in Nat /\ messages[n].size \in Nat /\ MaxSize \in Nat
            BY <3>3, StorageAssumption
          <6> HIDE DEF t
          <6>4. messages[i].size > messages[n].size
            BY <5>4, <6>1, <6>2, <6>3
          <6>5. taken[n].bytes + messages[i].size >= MaxSize
            BY <5>4, <6>1, <6>3, <3>2
          <6> QED
            BY <6>4, <6>5
        <5> QED
          BY <5>2, <5>3, <5>4
      <4> QED
        BY <4>1, <4>2
    <3>6. Rejected(n)
      BY <3>5
    <3>7. Latest(n)
      <4>1. \A x \in taken[n].sent : \E i \in 1 .. n : x = messages[i]
        BY <3>4
      <4>2. messages[n] \in taken[n].sent /\ n \in 1 .. n
        BY <3>2, <2>1
      <4> QED
        BY <4>1, <4>2, <3>2, <3>5
    <3> QED
      BY <3>2, <3>3, <3>4, <3>6, <3>7
  <2> QED
    BY <2>2, <2>3
<1> HIDE DEF Good
<1>11. Good(N)
  <2> DEFINE Bad == {n \in 0 .. N : ~Good(n)}
  <2> SUFFICES ASSUME Bad # {} PROVE FALSE
    BY <1>1
  <2>1. Bad \in SUBSET Nat
    BY <1>1
  <2>2. PICK n \in Bad : \A l \in Bad : n <= l
    BY <2>1, LeastNat
  <2>3. n \in 0 .. N /\ ~Good(n)
    BY <2>2
  <2>4. n # 0
    BY <2>3, <1>9
  <2>5. n \in 1 .. N /\ n - 1 \in 0 .. N /\ n - 1 < n
    BY <2>3, <2>4, <1>1
  <2>6. n - 1 \notin Bad
    BY <2>2, <2>5
  <2>7. Good(n - 1)
    BY <2>5, <2>6
  <2> QED
    BY <2>3, <2>5, <2>7, <1>10
<1> DEFINE R == taken[N]
<1>12. /\ R.bytes \in Nat
       /\ \A x \in R.sent : \E i \in 1 .. N : x = messages[i] /\ Wanted(i)
       /\ R.sent = {} => R.lastId = lastId /\ R.bytes = 0
       /\ \A i \in 1 .. N : Wanted(i) =>
            messages[i] \in R.sent \/ R.bytes + messages[i].size >= MaxSize
       /\ R.sent # {} =>
            \E k \in 1 .. N :
              /\ messages[k] \in R.sent
              /\ R.lastId = messages[k].id
              /\ \A x \in R.sent : \E i \in 1 .. k : x = messages[i]
              /\ \A i \in 1 .. k : Wanted(i) =>
                   messages[i] \in R.sent \/ messages[i].size > messages[k].size
  BY <1>11 DEF Good
<1>13. R.sent = {} => \A i \in 1 .. N : Wanted(i) => messages[i].size >= MaxSize
  BY <1>12, <1>8
<1>14. Taken(messages, after, lastId) = R
  BY <1>5
<1> HIDE DEF R
<1> QED
  BY <1>12, <1>13, <1>14, Zenon DEF Wanted, N

(* GetMessage: it sends what is behind id c, or everything if c is beyond  *)
(* the last message; the id it answers with is c or that of a message.     *)
LEMMA GetMessageType ==
  ASSUME NEW messages \in Seq(Message), NEW c \in Nat
  PROVE  /\ \A x \in GetMessage(messages, c).sent :
              \E i \in 1 .. Len(messages) :
                /\ x = messages[i]
                /\ messages[i].id > c \/ c > messages[Len(messages)].id
         /\ \/ GetMessage(messages, c).lastId = c
            \/ \E i \in 1 .. Len(messages) :
                 GetMessage(messages, c).lastId = messages[i].id
         /\ GetMessage(messages, c).lastId \in Nat
<1> DEFINE sendAll == messages # <<>> /\ c > Last(messages).id
<1> DEFINE after == IF sendAll THEN -1 ELSE c
<1> DEFINE T == Taken(messages, after, c)
<1> DEFINE G == GetMessage(messages, c)
<1>1. /\ G.sent = T.sent
      /\ G.lastId = IF T.sent = {} /\ sendAll /\ Head(messages).id > Last(messages).id
                    THEN Head(messages).id ELSE T.lastId
  BY DEF GetMessage
<1>2. /\ \A x \in T.sent : \E i \in 1 .. Len(messages) : x = messages[i] /\ messages[i].id > after
      /\ T.sent = {} => T.lastId = c
      /\ T.sent # {} => \E k \in 1 .. Len(messages) : T.lastId = messages[k].id
  <2> HIDE DEF after
  <2> QED
    BY TakenIs
<1> HIDE DEF T, G
<1>3. \A i \in 1 .. Len(messages) : messages[i].id \in Nat
  <2>1. \A i \in 1 .. Len(messages) : messages[i] \in Message
    OBVIOUS
  <2> QED
    BY <2>1 DEF Message
<1>4. G.lastId = c \/ \E i \in 1 .. Len(messages) : G.lastId = messages[i].id
  <2>1. CASE T.sent = {} /\ sendAll /\ Head(messages).id > Last(messages).id
    <3>1. 1 \in 1 .. Len(messages) /\ Head(messages) = messages[1]
      BY <2>1
    <3> QED
      BY <2>1, <3>1, <1>1
  <2>2. CASE ~(T.sent = {} /\ sendAll /\ Head(messages).id > Last(messages).id)
    BY <2>2, <1>1, <1>2
  <2> QED
    BY <2>1, <2>2
<1>5. \A x \in G.sent : \E i \in 1 .. Len(messages) :
        x = messages[i] /\ (messages[i].id > c \/ c > messages[Len(messages)].id)
  <2> SUFFICES ASSUME NEW x \in T.sent
               PROVE  \E i \in 1 .. Len(messages) :
                 x = messages[i] /\ (messages[i].id > c \/ c > messages[Len(messages)].id)
    BY <1>1
  <2>1. PICK i \in 1 .. Len(messages) : x = messages[i] /\ messages[i].id > after
    BY <1>2
  <2> QED
    BY <2>1 DEF Last
<1> QED
  BY <1>3, <1>4, <1>5 DEF G

(* When the ids increase, the id it answers with is c if nothing is sent,  *)
(* and otherwise that of the last message sent.                            *)
LEMMA GetMessageInOrder ==
  ASSUME NEW messages \in Seq(Message), NEW c \in Nat,
         \A i, j \in 1 .. Len(messages) : i < j => messages[i].id < messages[j].id
  PROVE  /\ GetMessage(messages, c).sent = {} => GetMessage(messages, c).lastId = c
         /\ GetMessage(messages, c).sent # {} =>
              \E k \in 1 .. Len(messages) :
                /\ messages[k] \in GetMessage(messages, c).sent
                /\ GetMessage(messages, c).lastId = messages[k].id
                /\ \A x \in GetMessage(messages, c).sent : \E i \in 1 .. k : x = messages[i]
<1> DEFINE sendAll == messages # <<>> /\ c > Last(messages).id
<1> DEFINE after == IF sendAll THEN -1 ELSE c
<1> DEFINE T == Taken(messages, after, c)
<1> DEFINE G == GetMessage(messages, c)
<1>1. /\ G.sent = T.sent
      /\ G.lastId = IF T.sent = {} /\ sendAll /\ Head(messages).id > Last(messages).id
                    THEN Head(messages).id ELSE T.lastId
  BY DEF GetMessage
<1>2. /\ T.sent = {} => T.lastId = c
      /\ T.sent # {} => \E k \in 1 .. Len(messages) :
                          /\ messages[k] \in T.sent
                          /\ T.lastId = messages[k].id
                          /\ \A x \in T.sent : \E i \in 1 .. k : x = messages[i]
  <2> HIDE DEF after
  <2> QED
    BY TakenIs
<1> HIDE DEF T, G
<1>3. \A i \in 1 .. Len(messages) : messages[i].id \in Nat
  <2>1. \A i \in 1 .. Len(messages) : messages[i] \in Message
    OBVIOUS
  <2> QED
    BY <2>1 DEF Message
<1>4. sendAll => ~(Head(messages).id > Last(messages).id)
  <2> SUFFICES ASSUME sendAll PROVE ~(Head(messages).id > Last(messages).id)
    OBVIOUS
  <2>1. /\ Len(messages) >= 1 /\ Len(messages) \in Nat
        /\ Head(messages) = messages[1] /\ Last(messages) = messages[Len(messages)]
    BY DEF Last
  <2>2. 1 \in 1 .. Len(messages) /\ Len(messages) \in 1 .. Len(messages)
    BY <2>1
  <2>3. messages[1].id \in Nat /\ messages[Len(messages)].id \in Nat
    BY <2>2, <1>3
  <2>4. CASE Len(messages) = 1
    BY <2>1, <2>3, <2>4
  <2>5. CASE Len(messages) # 1
    <3> DEFINE n == Len(messages)
    <3>1. n \in Nat /\ n >= 1 /\ n # 1
      BY <2>1, <2>5
    <3>2. 1 \in 1 .. n /\ n \in 1 .. n /\ 1 < n
      <4> HIDE DEF n
      <4> QED
        BY <3>1
    <3>3. \A l, j \in 1 .. n : l < j => messages[l].id < messages[j].id
      OBVIOUS
    <3> HIDE DEF n
    <3>4. messages[1].id < messages[n].id
      BY <3>2, <3>3
    <3> QED
      BY <3>4, <2>1, <2>3 DEF n
  <2> QED
    BY <2>4, <2>5
<1>5. G.lastId = T.lastId
  BY <1>1, <1>4
<1> QED
  BY <1>1, <1>2, <1>5 DEF G

(* What the id it answers with passes over: what was sent, what was behind *)
(* c already, what fits no answer, what is bigger than a message sent      *)
(* behind it, and what is out of order.                                    *)
LEMMA GetMessageCovers ==
  ASSUME NEW messages \in Seq(Message), NEW c \in Nat,
         NEW i \in 1 .. Len(messages), messages[i].id <= GetMessage(messages, c).lastId
  PROVE  \/ messages[i] \in GetMessage(messages, c).sent
         \/ messages[i].id <= c
         \/ messages[i].size >= MaxSize
         \/ \E j \in 1 .. Len(messages) :
              /\ i < j /\ messages[i].id <= messages[j].id
              /\ messages[j].size < messages[i].size
         \/ \E j \in 1 .. Len(messages) : j < i /\ messages[i].id <= messages[j].id
<1> DEFINE sendAll == messages # <<>> /\ c > Last(messages).id
<1> DEFINE after == IF sendAll THEN -1 ELSE c
<1> DEFINE T == Taken(messages, after, c)
<1> DEFINE G == GetMessage(messages, c)
<1>1. /\ G.sent = T.sent
      /\ G.lastId = IF T.sent = {} /\ sendAll /\ Head(messages).id > Last(messages).id
                    THEN Head(messages).id ELSE T.lastId
  BY DEF GetMessage
<1>2. /\ T.sent = {} =>
           /\ T.lastId = c
           /\ messages[i].id > after => messages[i].size >= MaxSize
      /\ T.sent # {} => \E k \in 1 .. Len(messages) :
                          /\ messages[k] \in T.sent
                          /\ T.lastId = messages[k].id
                          /\ i <= k /\ messages[i].id > after =>
                               messages[i] \in T.sent \/ messages[i].size > messages[k].size
  <2> HIDE DEF after
  <2>1. /\ T.sent = {} =>
           /\ T.lastId = c
           /\ \A l \in 1 .. Len(messages) : messages[l].id > after => messages[l].size >= MaxSize
        /\ T.sent # {} => \E k \in 1 .. Len(messages) :
                          /\ messages[k] \in T.sent
                          /\ T.lastId = messages[k].id
                          /\ \A l \in 1 .. k : messages[l].id > after =>
                               messages[l] \in T.sent \/ messages[l].size > messages[k].size
    BY TakenIs
  <2> HIDE DEF T
  <2> QED
    BY <2>1
<1> HIDE DEF T, G
<1>3. \A l \in 1 .. Len(messages) : messages[l].id \in Nat /\ messages[l].size \in Nat
  <2>1. \A l \in 1 .. Len(messages) : messages[l] \in Message
    OBVIOUS
  <2> QED
    BY <2>1 DEF Message
<1>4. messages[i].id <= c \/ messages[i].id > after
  BY <1>3
<1> HIDE DEF after
<1>5. messages[i].id <= G.lastId
  BY DEF G
<1>6. CASE T.sent = {} /\ sendAll /\ Head(messages).id > Last(messages).id
  BY <1>6, <1>4, <1>2
<1>7. CASE T.sent = {} /\ ~(sendAll /\ Head(messages).id > Last(messages).id)
  BY <1>7, <1>5, <1>2, <1>1
<1>8. CASE T.sent # {}
  <2>1. PICK k \in 1 .. Len(messages) :
                          /\ messages[k] \in T.sent
                          /\ T.lastId = messages[k].id
                          /\ i <= k /\ messages[i].id > after =>
                               messages[i] \in T.sent \/ messages[i].size > messages[k].size
    BY <1>8, <1>2
  <2>2. messages[i].id <= messages[k].id
    BY <2>1, <1>1, <1>5, <1>8
  <2>3. CASE k < i
    BY <2>2, <2>3
  <2>4. CASE k = i
    BY <2>1, <2>4, <1>1 DEF G
  <2>5. CASE i < k
    <3>1. messages[i] \in T.sent \/ messages[i].size > messages[k].size \/ messages[i].id <= c
      BY <2>1, <2>5, <1>4
    <3>2. messages[i].size > messages[k].size => messages[k].size < messages[i].size
      BY <1>3
    <3> QED
      BY <3>1, <3>2, <2>2, <2>5, <1>1 DEF G
  <2> QED
    BY <2>3, <2>4, <2>5
<1> QED
  BY <1>6, <1>7, <1>8

(* Storage.Put: the new message comes last, and makes the first one go if  *)
(* the storage is full.                                                    *)
LEMMA AppendedIs ==
  ASSUME NEW messages \in Seq(Message), Len(messages) <= MaxMessages, NEW m \in Message
  PROVE  /\ Appended(messages, m) \in Seq(Message)
         /\ Len(Appended(messages, m)) <= MaxMessages
         /\ \E d \in {0, 1} :
              /\ Len(Appended(messages, m)) = Len(messages) + 1 - d
              /\ d = 1 => Len(Appended(messages, m)) = MaxMessages
              /\ Len(Appended(messages, m)) >= 1
              /\ Appended(messages, m)[Len(Appended(messages, m))] = m
              /\ \A i \in 1 .. Len(messages) - d : Appended(messages, m)[i] = messages[i + d]
<1> DEFINE longer == Append(messages, m)
<1>1. /\ longer \in Seq(Message) /\ Len(longer) = Len(messages) + 1 /\ longer # <<>>
      /\ longer[Len(messages) + 1] = m
      /\ \A i \in 1 .. Len(messages) : longer[i] = messages[i]
  OBVIOUS
<1>2. Len(messages) \in Nat /\ MaxMessages \in Nat /\ MaxMessages >= 1
  BY StorageAssumption
<1>3. Appended(messages, m) = IF Len(longer) > MaxMessages THEN Tail(longer) ELSE longer
  BY DEF Appended
<1> HIDE DEF longer
<1>4. CASE Len(longer) > MaxMessages
  <2>1. Appended(messages, m) = Tail(longer) /\ Len(messages) = MaxMessages
    BY <1>1, <1>2, <1>3, <1>4
  <2>2. /\ Tail(longer) \in Seq(Message)
        /\ Len(Tail(longer)) = Len(messages)
        /\ \A i \in 1 .. Len(messages) : Tail(longer)[i] = longer[i + 1]
    BY <1>1
  <2>3. \A i \in 1 .. Len(messages) - 1 : Tail(longer)[i] = messages[i + 1]
    <3> TAKE i \in 1 .. Len(messages) - 1
    <3>1. i \in 1 .. Len(messages) /\ i + 1 \in 1 .. Len(messages)
      BY <1>2
    <3> QED
      BY <3>1, <2>2, <1>1
  <2>4. Tail(longer)[Len(messages)] = m
    BY <2>1, <2>2, <1>1, <1>2
  <2> QED
    BY <2>1, <2>2, <2>3, <2>4, <1>2
<1>5. CASE ~(Len(longer) > MaxMessages)
  <2>1. Appended(messages, m) = longer
    BY <1>3, <1>5
  <2>2. \A i \in 1 .. Len(messages) - 0 : longer[i] = messages[i + 0]
    BY <1>1, <1>2
  <2> QED
    BY <2>1, <2>2, <1>1, <1>2, <1>5
<1> QED
  BY <1>4, <1>5

-----------------------------------------------------------------------------
(* The types, and where a storage that is used comes from. *)
Types ==
  /\ TypeOK
  /\ \A f \in Posts : IF put[f].pc = "unsent" THEN put[f].storage = NoStorage
                                              ELSE put[f].storage \in Storages
  /\ \A p \in Polls : poll[p].pc = "read" => poll[p].storage \in Storages

Slot == [messages : Seq(Message), touched : 0 .. MaxTime]
PutState == [pc : {"unsent", "append", "done", "failed"},
             storage : Storages \cup {NoStorage}, id : Nat]
Entry == [message : Message, storage : Storages, reachable : BOOLEAN, router : 0 .. MaxRestarts]

(* What PutEnd(f) appends. *)
Sent(f) == [post |-> f, id |-> put[f].id, size |-> SizeOf[f], touched |-> now]
SentEntry(f) == [message |-> Sent(f), storage |-> put[f].storage,
                 reachable |-> put[f].storage = addresses, router |-> restarts]

(* The parts of the type invariant, by name. *)
LEMMA TypesOf ==
  ASSUME Types
  PROVE  /\ now \in 0 .. MaxTime /\ now \in Nat
         /\ nextId \in Nat /\ nextId >= 1
         /\ heap \in Seq(Slot) /\ Len(heap) \in Nat
         /\ \A s \in Storages : /\ heap[s] \in Slot
                                /\ heap[s].messages \in Seq(Message)
                                /\ heap[s].touched \in Nat
                                /\ Len(heap[s].messages) <= MaxMessages
                                /\ Len(heap[s].messages) \in Nat
                                /\ \A i \in 1 .. Len(heap[s].messages) :
                                     heap[s].messages[i] \in Message
         /\ addresses \in Storages \cup {NoStorage}
         /\ put \in [Posts -> PutState]
         /\ clearing \in Storages \cup {NoStorage}
         /\ restarts \in 0 .. MaxRestarts /\ restarts \in Nat
         /\ appended \in Seq(Entry) /\ Len(appended) \in Nat
         /\ \A k \in 1 .. Len(appended) : appended[k] \in Entry
         /\ PeerTypeOK
<1>1. RouterTypeOK /\ PeerTypeOK
  BY DEF Types, TypeOK
<1>2. heap \in Seq(Slot)
  BY <1>1 DEF RouterTypeOK, Slot
<1>3. \A s \in Storages : heap[s] \in Slot
  BY <1>2 DEF Storages
<1>4. \A s \in Storages : heap[s].messages \in Seq(Message) /\ heap[s].touched \in 0 .. MaxTime
  BY <1>3 DEF Slot
<1>5. \A s \in Storages : Len(heap[s].messages) <= MaxMessages
  BY <1>1 DEF RouterTypeOK
<1>6. \A s \in Storages : /\ Len(heap[s].messages) \in Nat
                          /\ \A i \in 1 .. Len(heap[s].messages) : heap[s].messages[i] \in Message
  <2> TAKE s \in Storages
  <2>1. heap[s].messages \in Seq(Message)
    BY <1>4
  <2> QED
    BY <2>1
<1>7. appended \in Seq(Entry)
  BY <1>1 DEF RouterTypeOK, Entry
<1>8. put \in [Posts -> PutState]
  BY <1>1 DEF RouterTypeOK, PutState
<1>9. MaxTime \in Nat /\ MaxRestarts \in Nat
  BY RouterAssumption
<1>10. now \in 0 .. MaxTime /\ nextId \in Nat \ {0} /\ restarts \in 0 .. MaxRestarts
  BY <1>1 DEF RouterTypeOK
<1>11. addresses \in Storages \cup {NoStorage} /\ clearing \in Storages \cup {NoStorage}
  BY <1>1 DEF RouterTypeOK
<1>12. \A k \in 1 .. Len(appended) : appended[k] \in Entry
  BY <1>7
<1>13. Len(heap) \in Nat /\ Len(appended) \in Nat
  BY <1>2, <1>7
<1>14. \A s \in Storages : heap[s].touched \in Nat
  BY <1>4, <1>9
<1>15. now \in Nat /\ restarts \in Nat /\ nextId \in Nat /\ nextId >= 1
  BY <1>9, <1>10
<1> QED
  BY <1>1, <1>2, <1>3, <1>4, <1>5, <1>6, <1>7, <1>8, <1>10, <1>11, <1>12, <1>13, <1>14, <1>15

(* What PutBegin changes. *)
LEMMA PutBeginEffect ==
  ASSUME Types, NEW f \in Posts, PutBegin(f)
  PROVE  /\ put[f].pc = "unsent"
         /\ addresses' \in Storages' /\ addresses' # NoStorage
         /\ \/ addresses # NoStorage /\ heap' = heap /\ addresses' = addresses
            \/ /\ addresses = NoStorage /\ addresses' = Len(heap) + 1
               /\ Len(heap') = Len(heap) + 1 /\ heap' \in Seq(Slot)
               /\ heap'[addresses'].messages = <<>>
               /\ heap'[addresses'].touched = now
               /\ \A s \in Storages : heap'[s] = heap[s]
         /\ Storages \subseteq Storages'
         /\ \A s \in Storages : heap'[s] = heap[s]
         /\ put'[f] = [pc |-> "append", storage |-> addresses', id |-> nextId]
         /\ \A g \in Posts : g # f => put'[g] = put[g]
         /\ DOMAIN put' = Posts
         /\ nextId' = nextId + 1
         /\ UNCHANGED <<now, clearing, restarts, appended>>
<1>1. /\ put[f].pc = "unsent"
      /\ IF addresses = NoStorage
         THEN heap' = Append(heap, NewStorage) /\ addresses' = Len(heap) + 1
         ELSE UNCHANGED <<heap, addresses>>
      /\ put' = [put EXCEPT ![f] = [pc |-> "append", storage |-> addresses', id |-> nextId]]
      /\ nextId' = nextId + 1
      /\ UNCHANGED <<now, clearing, restarts, appended>>
  BY DEF PutBegin
<1>2. put \in [Posts -> PutState]
  BY TypesOf
<1>3. CASE addresses # NoStorage
  <2>1. heap' = heap /\ addresses' = addresses /\ addresses \in Storages
    BY <1>1, <1>3, TypesOf
  <2>2. Storages' = Storages
    BY <2>1 DEF Storages
  <2> QED
    BY <2>1, <2>2, <1>1, <1>2, <1>3
<1>4. CASE addresses = NoStorage
  <2>1. heap' = Append(heap, NewStorage) /\ addresses' = Len(heap) + 1
    BY <1>1, <1>4
  <2>2. NewStorage \in Slot /\ heap \in Seq(Slot)
    BY TypesOf DEF NewStorage, Slot
  <2>3. /\ heap' \in Seq(Slot) /\ Len(heap') = Len(heap) + 1
        /\ heap'[Len(heap) + 1] = NewStorage
        /\ \A s \in 1 .. Len(heap) : heap'[s] = heap[s]
    BY <2>1, <2>2
  <2>4. /\ addresses' \in Storages' /\ addresses' # NoStorage /\ Storages \subseteq Storages'
        /\ \A s \in Storages : heap'[s] = heap[s]
    BY <2>1, <2>3, TypesOf DEF Storages, NoStorage
  <2>5. heap'[addresses'].messages = <<>> /\ heap'[addresses'].touched = now
    BY <2>1, <2>3 DEF NewStorage
  <2> QED
    BY <2>1, <2>3, <2>4, <2>5, <1>1, <1>2, <1>4
<1> QED
  BY <1>3, <1>4

(* What PutEnd changes. *)
LEMMA PutEndEffect ==
  ASSUME Types, NEW f \in Posts, PutEnd(f)
  PROVE  /\ put[f].pc = "append" /\ put[f].storage \in Storages
         /\ Sent(f) \in Message
         /\ heap' \in Seq(Slot) /\ Len(heap') = Len(heap) /\ Storages' = Storages
         /\ heap'[put[f].storage].messages = Appended(heap[put[f].storage].messages, Sent(f))
         /\ heap'[put[f].storage].touched = now
         /\ \A s \in Storages : s # put[f].storage => heap'[s] = heap[s]
         /\ put'[f] = [pc |-> "done", storage |-> put[f].storage, id |-> put[f].id]
         /\ \A g \in Posts : g # f => put'[g] = put[g]
         /\ DOMAIN put' = Posts
         /\ Len(appended') = Len(appended) + 1
         /\ appended'[Len(appended) + 1] = SentEntry(f)
         /\ \A k \in 1 .. Len(appended) : appended'[k] = appended[k]
         /\ appended' \in Seq(Entry)
         /\ UNCHANGED <<now, nextId, addresses, clearing, restarts>>
<1> DEFINE s == put[f].storage
<1>1. /\ put[f].pc = "append"
      /\ heap' = [heap EXCEPT ![s] =
                    [messages |-> Appended(heap[s].messages, Sent(f)), touched |-> now]]
      /\ put' = [put EXCEPT ![f].pc = "done"]
      /\ appended' = Append(appended, SentEntry(f))
      /\ UNCHANGED <<now, nextId, addresses, clearing, restarts>>
  BY DEF PutEnd, Sent, SentEntry
<1>2. /\ put \in [Posts -> PutState] /\ put[f] \in PutState
      /\ heap \in Seq(Slot) /\ appended \in Seq(Entry)
      /\ now \in 0 .. MaxTime /\ now \in Nat /\ restarts \in 0 .. MaxRestarts
  BY TypesOf
<1>3. s \in Storages
  BY <1>1 DEF Types
<1>4. Sent(f) \in Message
  BY <1>2, RouterAssumption DEF Sent, Message, PutState
<1>5. Appended(heap[s].messages, Sent(f)) \in Seq(Message)
  BY <1>3, <1>4, TypesOf, AppendedIs
<1>6. [messages |-> Appended(heap[s].messages, Sent(f)), touched |-> now] \in Slot
  BY <1>2, <1>5 DEF Slot
<1>7. /\ heap' \in Seq(Slot) /\ Len(heap') = Len(heap)
      /\ heap'[s] = [messages |-> Appended(heap[s].messages, Sent(f)), touched |-> now]
      /\ \A r \in Storages : r # s => heap'[r] = heap[r]
  <2> DEFINE slot == [messages |-> Appended(heap[s].messages, Sent(f)), touched |-> now]
  <2>1. slot \in Slot /\ heap' = [heap EXCEPT ![s] = slot] /\ s \in 1 .. Len(heap)
    BY <1>1, <1>3, <1>6 DEF Storages
  <2> HIDE DEF slot, s
  <2>2. heap' \in Seq(Slot) /\ Len(heap') = Len(heap) /\ heap'[s] = slot
    BY <2>1, <1>2
  <2>3. \A r \in Storages : r # s => heap'[r] = heap[r]
    BY <2>1, <1>2 DEF Storages
  <2> QED
    BY <2>2, <2>3 DEF slot
<1>8. Storages' = Storages
  BY <1>7 DEF Storages
<1>9. SentEntry(f) \in Entry
  BY <1>2, <1>3, <1>4 DEF SentEntry, Entry
<1>10. /\ Len(appended') = Len(appended) + 1
       /\ appended'[Len(appended) + 1] = SentEntry(f)
       /\ \A k \in 1 .. Len(appended) : appended'[k] = appended[k]
       /\ appended' \in Seq(Entry)
  BY <1>1, <1>2, <1>9
<1>11. /\ put'[f] = [put[f] EXCEPT !.pc = "done"]
       /\ \A g \in Posts : g # f => put'[g] = put[g]
       /\ DOMAIN put' = Posts
  BY <1>1, <1>2
<1>12. put'[f] = [pc |-> "done", storage |-> put[f].storage, id |-> put[f].id]
  BY <1>11, <1>2 DEF PutState
<1> QED
  BY <1>1, <1>3, <1>4, <1>7, <1>8, <1>10, <1>11, <1>12

(* What ClearEnd changes. *)
LEMMA ClearEndEffect ==
  ASSUME Types, ClearEnd
  PROVE  /\ clearing \in Storages
         /\ heap' \in Seq(Slot) /\ Len(heap') = Len(heap) /\ Storages' = Storages
         /\ heap'[clearing].messages = Younger(heap[clearing].messages, now, MessageAge)
         /\ heap'[clearing].touched = heap[clearing].touched
         /\ \A s \in Storages : s # clearing => heap'[s] = heap[s]
         /\ clearing' = NoStorage
         /\ UNCHANGED <<now, nextId, addresses, put, restarts, appended>>
<1>1. /\ clearing # NoStorage
      /\ heap' = [heap EXCEPT ![clearing].messages = Kept(heap[clearing].messages, now)]
      /\ clearing' = NoStorage
      /\ UNCHANGED <<now, nextId, addresses, put, restarts, appended>>
  BY DEF ClearEnd
<1>2. clearing \in Storages /\ heap \in Seq(Slot) /\ heap[clearing] \in Slot
  BY <1>1, TypesOf
<1> DEFINE kept == Younger(heap[clearing].messages, now, MessageAge)
<1>3. kept \in Seq(Message)
  BY <1>2, TypesOf, YoungerIs
<1> DEFINE slot == [heap[clearing] EXCEPT !.messages = kept]
<1>4. heap' = [heap EXCEPT ![clearing] = slot]
  BY <1>1 DEF Kept
<1> HIDE DEF kept
<1>5. slot \in Slot /\ slot.messages = kept /\ slot.touched = heap[clearing].touched
  BY <1>2, <1>3 DEF Slot
<1> HIDE DEF slot
<1>6. clearing \in 1 .. Len(heap)
  BY <1>2 DEF Storages
<1>7. heap' \in Seq(Slot) /\ Len(heap') = Len(heap) /\ heap'[clearing] = slot
  BY <1>2, <1>4, <1>5, <1>6
<1>8. \A s \in Storages : s # clearing => heap'[s] = heap[s]
  BY <1>2, <1>4 DEF Storages
<1>9. Storages' = Storages
  BY <1>7 DEF Storages
<1> QED
  BY <1>1, <1>2, <1>5, <1>7, <1>8, <1>9 DEF kept

(* A request or an answer of p. *)
PollOf(pc, after, storage, last, batch) ==
  [pc |-> pc, after |-> after, storage |-> storage, last |-> last, batch |-> batch]

(* What Read(p) reads. *)
Answer(p) == GetMessage(heap[poll[p].storage].messages, poll[p].after)

(* The fields of a poll. *)
LEMMA PollFields ==
  ASSUME Types, NEW p \in Polls
  PROVE  /\ poll[p] = PollOf(poll[p].pc, poll[p].after, poll[p].storage, poll[p].last, poll[p].batch)
         /\ poll[p].after \in Nat /\ poll[p].last \in Nat
         /\ poll[p].storage \in Storages \cup {NoStorage}
         /\ poll[p].batch \in SUBSET Posts
         /\ poll \in [Polls -> PollState]
<1>1. poll \in [Polls -> PollState]
  BY TypesOf DEF PeerTypeOK
<1>2. poll[p] \in PollState
  BY <1>1
<1> QED
  BY <1>1, <1>2 DEF PollState, PollOf

(* What each step of a poll changes: the record of the poll, and ... *)
LEMMA CheckFlagEffect ==
  ASSUME Types, NEW p \in Polls, CheckFlag(p)
  PROVE  /\ poll' = [poll EXCEPT ![p] = PollOf("checked", poll[p].after, poll[p].storage,
                                               poll[p].last, poll[p].batch)]
         /\ poll[p].pc = "idle"
         /\ UNCHANGED <<routerVars, gettingFromInternet, lastReceivedMessageId, handed, overlapped>>
<1>1. /\ poll' = [poll EXCEPT ![p].pc = "checked"]
      /\ poll[p].pc = "idle"
      /\ UNCHANGED <<routerVars, gettingFromInternet, lastReceivedMessageId, handed, overlapped>>
  BY DEF CheckFlag
<1>2. [poll[p] EXCEPT !.pc = "checked"]
         = PollOf("checked", poll[p].after, poll[p].storage, poll[p].last, poll[p].batch)
  BY PollFields, poll[p] \in PollState DEF PollState, PollOf
<1>3. poll' = [poll EXCEPT ![p] = [poll[p] EXCEPT !.pc = "checked"]]
  BY <1>1, PollFields
<1> QED
  BY <1>1, <1>2, <1>3

(* ... the flag and the history of overlaps ... *)
LEMMA BeginPollEffect ==
  ASSUME Types, NEW p \in Polls, BeginPoll(p)
  PROVE  /\ poll' = [poll EXCEPT ![p] = PollOf("request", lastReceivedMessageId, poll[p].storage,
                                               poll[p].last, poll[p].batch)]
         /\ poll[p].pc = "checked"
         /\ gettingFromInternet' = TRUE
         /\ overlapped' = (overlapped \/ \E q \in Polls : Active(q))
         /\ UNCHANGED <<routerVars, lastReceivedMessageId, handed>>
<1>1. /\ poll' = [poll EXCEPT ![p] = [poll[p] EXCEPT !.pc = "request",
                                                     !.after = lastReceivedMessageId]]
      /\ poll[p].pc = "checked"
      /\ gettingFromInternet' = TRUE
      /\ overlapped' = (overlapped \/ \E q \in Polls : Active(q))
      /\ UNCHANGED <<routerVars, lastReceivedMessageId, handed>>
  BY DEF BeginPoll
<1>2. [poll[p] EXCEPT !.pc = "request", !.after = lastReceivedMessageId]
         = PollOf("request", lastReceivedMessageId, poll[p].storage, poll[p].last, poll[p].batch)
  <2> DEFINE r == PollOf(poll[p].pc, poll[p].after, poll[p].storage, poll[p].last, poll[p].batch)
  <2>1. poll[p] = r
    BY PollFields
  <2> HIDE DEF r
  <2>2. [r EXCEPT !.pc = "request", !.after = lastReceivedMessageId]
          = [[r EXCEPT !.pc = "request"] EXCEPT !.after = lastReceivedMessageId]
    OBVIOUS
  <2>3. [r EXCEPT !.pc = "request"]
          = PollOf("request", poll[p].after, poll[p].storage, poll[p].last, poll[p].batch)
    BY DEF PollOf, r
  <2>4. [PollOf("request", poll[p].after, poll[p].storage, poll[p].last, poll[p].batch) EXCEPT !.after = lastReceivedMessageId]
          = PollOf("request", lastReceivedMessageId, poll[p].storage, poll[p].last, poll[p].batch)
    BY DEF PollOf
  <2> QED
    BY <2>1, <2>2, <2>3, <2>4
<1> QED
  BY <1>1, <1>2

(* ... where it is in its request ... *)
LEMMA LookUpEffect ==
  ASSUME Types, NEW p \in Polls, LookUp(p)
  PROVE  /\ poll' = [poll EXCEPT ![p] =
                       IF addresses = NoStorage
                       THEN PollOf("answer", poll[p].after, poll[p].storage, 0, poll[p].batch)
                       ELSE PollOf("read", poll[p].after, addresses, poll[p].last, poll[p].batch)]
         /\ poll[p].pc = "request"
         /\ UNCHANGED <<routerVars, gettingFromInternet, lastReceivedMessageId, handed, overlapped>>
<1>1. /\ poll' = [poll EXCEPT ![p] =
                    IF addresses = NoStorage
                    THEN [poll[p] EXCEPT !.pc = "answer", !.last = 0]
                    ELSE [poll[p] EXCEPT !.pc = "read", !.storage = addresses]]
      /\ poll[p].pc = "request"
      /\ UNCHANGED <<routerVars, gettingFromInternet, lastReceivedMessageId, handed, overlapped>>
  BY DEF LookUp
<1>2. [poll[p] EXCEPT !.pc = "answer", !.last = 0]
         = PollOf("answer", poll[p].after, poll[p].storage, 0, poll[p].batch)
  <2> DEFINE r == PollOf(poll[p].pc, poll[p].after, poll[p].storage, poll[p].last, poll[p].batch)
  <2>1. poll[p] = r
    BY PollFields
  <2> HIDE DEF r
  <2>2. [r EXCEPT !.pc = "answer", !.last = 0]
          = [[r EXCEPT !.pc = "answer"] EXCEPT !.last = 0]
    OBVIOUS
  <2>3. [r EXCEPT !.pc = "answer"]
          = PollOf("answer", poll[p].after, poll[p].storage, poll[p].last, poll[p].batch)
    BY DEF PollOf, r
  <2>4. [PollOf("answer", poll[p].after, poll[p].storage, poll[p].last, poll[p].batch) EXCEPT !.last = 0]
          = PollOf("answer", poll[p].after, poll[p].storage, 0, poll[p].batch)
    BY DEF PollOf
  <2> QED
    BY <2>1, <2>2, <2>3, <2>4
<1>3. [poll[p] EXCEPT !.pc = "read", !.storage = addresses]
         = PollOf("read", poll[p].after, addresses, poll[p].last, poll[p].batch)
  <2> DEFINE r == PollOf(poll[p].pc, poll[p].after, poll[p].storage, poll[p].last, poll[p].batch)
  <2>1. poll[p] = r
    BY PollFields
  <2> HIDE DEF r
  <2>2. [r EXCEPT !.pc = "read", !.storage = addresses]
          = [[r EXCEPT !.pc = "read"] EXCEPT !.storage = addresses]
    OBVIOUS
  <2>3. [r EXCEPT !.pc = "read"]
          = PollOf("read", poll[p].after, poll[p].storage, poll[p].last, poll[p].batch)
    BY DEF PollOf, r
  <2>4. [PollOf("read", poll[p].after, poll[p].storage, poll[p].last, poll[p].batch) EXCEPT !.storage = addresses]
          = PollOf("read", poll[p].after, addresses, poll[p].last, poll[p].batch)
    BY DEF PollOf
  <2> QED
    BY <2>1, <2>2, <2>3, <2>4
<1> QED
  BY <1>1, <1>2, <1>3

(* ... what it was answered ... *)
LEMMA ReadEffect ==
  ASSUME Types, NEW p \in Polls, Read(p)
  PROVE  /\ poll' = [poll EXCEPT ![p] =
                       PollOf("answer", poll[p].after, NoStorage, Answer(p).lastId,
                              {m.post : m \in Answer(p).sent})]
         /\ poll[p].pc = "read" /\ poll[p].storage \in Storages
         /\ Answer(p).lastId \in Nat
         /\ {m.post : m \in Answer(p).sent} \in SUBSET Posts
         /\ UNCHANGED <<routerVars, gettingFromInternet, lastReceivedMessageId, handed, overlapped>>
<1> DEFINE batch == {m.post : m \in Answer(p).sent}
<1>1. /\ poll' = [poll EXCEPT ![p] =
                    [poll[p] EXCEPT !.pc = "answer", !.storage = NoStorage,
                                    !.last = Answer(p).lastId, !.batch = batch]]
      /\ poll[p].pc = "read"
      /\ UNCHANGED <<routerVars, gettingFromInternet, lastReceivedMessageId, handed, overlapped>>
  BY DEF Read, Answer
<1>2. poll[p].storage \in Storages
  BY <1>1 DEF Types
<1>3. heap[poll[p].storage].messages \in Seq(Message) /\ poll[p].after \in Nat
  BY <1>2, TypesOf, PollFields
<1>4. /\ Answer(p).lastId \in Nat
      /\ \A x \in Answer(p).sent : \E i \in 1 .. Len(heap[poll[p].storage].messages) :
           x = heap[poll[p].storage].messages[i]
  <2>1. PICK messages \in Seq(Message), c \in Nat :
          messages = heap[poll[p].storage].messages /\ c = poll[p].after
    BY <1>3
  <2>2. Answer(p) = GetMessage(messages, c)
    BY <2>1 DEF Answer
  <2>3. /\ GetMessage(messages, c).lastId \in Nat
        /\ \A x \in GetMessage(messages, c).sent : \E i \in 1 .. Len(messages) : x = messages[i]
    BY GetMessageType
  <2> QED
    BY <2>1, <2>2, <2>3
<1>5. \A x \in Answer(p).sent : x \in Message
  BY <1>2, <1>4, TypesOf
<1>6. batch \in SUBSET Posts
  BY <1>5 DEF Message
<1> HIDE DEF batch
<1>7. [poll[p] EXCEPT !.pc = "answer", !.storage = NoStorage,
                      !.last = Answer(p).lastId, !.batch = batch]
         = PollOf("answer", poll[p].after, NoStorage, Answer(p).lastId, batch)
  <2> DEFINE r == PollOf(poll[p].pc, poll[p].after, poll[p].storage, poll[p].last, poll[p].batch)
  <2>1. poll[p] = r
    BY PollFields
  <2> HIDE DEF r
  <2>2. [r EXCEPT !.pc = "answer", !.storage = NoStorage, !.last = Answer(p).lastId, !.batch = batch]
          = [[[[r EXCEPT !.pc = "answer"] EXCEPT !.storage = NoStorage] EXCEPT !.last = Answer(p).lastId] EXCEPT !.batch = batch]
    OBVIOUS
  <2>3. [r EXCEPT !.pc = "answer"]
          = PollOf("answer", poll[p].after, poll[p].storage, poll[p].last, poll[p].batch)
    BY DEF PollOf, r
  <2>4. [PollOf("answer", poll[p].after, poll[p].storage, poll[p].last, poll[p].batch) EXCEPT !.storage = NoStorage]
          = PollOf("answer", poll[p].after, NoStorage, poll[p].last, poll[p].batch)
    BY DEF PollOf
  <2>5. [PollOf("answer", poll[p].after, NoStorage, poll[p].last, poll[p].batch) EXCEPT !.last = Answer(p).lastId]
          = PollOf("answer", poll[p].after, NoStorage, Answer(p).lastId, poll[p].batch)
    BY DEF PollOf
  <2>6. [PollOf("answer", poll[p].after, NoStorage, Answer(p).lastId, poll[p].batch) EXCEPT !.batch = batch]
          = PollOf("answer", poll[p].after, NoStorage, Answer(p).lastId, batch)
    BY DEF PollOf
  <2> QED
    BY <2>1, <2>2, <2>3, <2>4, <2>5, <2>6
<1>8. poll' = [poll EXCEPT ![p] =
                 PollOf("answer", poll[p].after, NoStorage, Answer(p).lastId, batch)]
  BY <1>1, <1>7
<1> QED
  BY <1>1, <1>2, <1>4, <1>6, <1>8 DEF batch

(* ... nothing else when it is lost ... *)
LEMMA LosePollEffect ==
  ASSUME Types, NEW p \in Polls, LosePoll(p)
  PROVE  /\ poll' = [poll EXCEPT ![p] = PollOf("clear", 0, NoStorage, 0, {})]
         /\ poll[p].pc \in {"request", "read", "answer"}
         /\ UNCHANGED <<routerVars, gettingFromInternet, lastReceivedMessageId, handed, overlapped>>
<1>1. [IdlePoll EXCEPT !.pc = "clear"] = PollOf("clear", 0, NoStorage, 0, {})
  BY DEF IdlePoll, PollOf
<1> QED
  BY <1>1 DEF LosePoll

(* ... the cursor and what was handed over ... *)
LEMMA TakeAnswerEffect ==
  ASSUME Types, NEW p \in Polls, TakeAnswer(p)
  PROVE  /\ poll' = [poll EXCEPT ![p] = PollOf("clear", 0, NoStorage, 0, {})]
         /\ poll[p].pc = "answer"
         /\ lastReceivedMessageId' = poll[p].last
         /\ handed' = [f \in Posts |-> IF f \in poll[p].batch /\ handed[f] < 2
                                       THEN handed[f] + 1 ELSE handed[f]]
         /\ UNCHANGED <<routerVars, gettingFromInternet, overlapped>>
<1>1. [IdlePoll EXCEPT !.pc = "clear"] = PollOf("clear", 0, NoStorage, 0, {})
  BY DEF IdlePoll, PollOf
<1> QED
  BY <1>1 DEF TakeAnswer

(* ... or the flag. *)
LEMMA EndPollEffect ==
  ASSUME Types, NEW p \in Polls, EndPoll(p)
  PROVE  /\ poll' = [poll EXCEPT ![p] = PollOf("idle", 0, NoStorage, 0, {})]
         /\ poll[p].pc = "clear"
         /\ gettingFromInternet' = FALSE
         /\ UNCHANGED <<routerVars, lastReceivedMessageId, handed, overlapped>>
<1>1. IdlePoll = PollOf("idle", 0, NoStorage, 0, {})
  BY DEF IdlePoll, PollOf
<1> QED
  BY <1>1 DEF EndPoll

(* A restart takes the polls it cuts off to the end. *)
LEMMA RestartEffect ==
  ASSUME Types, Restart
  PROVE  /\ \A p \in Polls : IF poll[p].pc \in {"request", "read"}
                             THEN poll'[p] = PollOf("clear", 0, NoStorage, 0, {})
                             ELSE poll'[p] = poll[p]
         /\ DOMAIN poll' = Polls /\ poll' = [p \in Polls |-> poll'[p]]
         /\ \A f \in Posts : /\ put[f].pc = "append" =>
                                  put'[f] = [pc |-> "failed", storage |-> put[f].storage,
                                             id |-> put[f].id]
                             /\ put[f].pc # "append" => put'[f] = put[f]
         /\ DOMAIN put' = Posts /\ put' = [f \in Posts |-> put'[f]]
         /\ restarts < MaxRestarts /\ restarts' = restarts + 1
         /\ nextId' = 1 /\ addresses' = NoStorage /\ clearing' = NoStorage
         /\ UNCHANGED <<now, heap, appended>>
         /\ UNCHANGED <<gettingFromInternet, lastReceivedMessageId, handed, overlapped>>
<1>1. /\ restarts < MaxRestarts /\ restarts' = restarts + 1
      /\ nextId' = 1 /\ addresses' = NoStorage /\ clearing' = NoStorage
      /\ put' = [f \in Posts |-> IF put[f].pc = "append" THEN [put[f] EXCEPT !.pc = "failed"]
                                                         ELSE put[f]]
      /\ UNCHANGED <<now, heap, appended>>
  BY DEF Restart, RestartRouter
<1>2. /\ poll' = [p \in Polls |-> IF poll[p].pc \in {"request", "read"}
                                  THEN PollOf("clear", 0, NoStorage, 0, {}) ELSE poll[p]]
      /\ UNCHANGED <<gettingFromInternet, lastReceivedMessageId, handed, overlapped>>
  <2>1. [IdlePoll EXCEPT !.pc = "clear"] = PollOf("clear", 0, NoStorage, 0, {})
    BY DEF IdlePoll, PollOf
  <2> QED
    BY <2>1 DEF Restart
<1>3. \A f \in Posts : put[f] \in PutState
  BY TypesOf
<1>4. \A f \in Posts : [put[f] EXCEPT !.pc = "failed"]
                         = [pc |-> "failed", storage |-> put[f].storage, id |-> put[f].id]
  BY <1>3 DEF PutState
<1> QED
  BY <1>1, <1>2, <1>4

(* The storage a Put holds on to. *)
PutHolds == \A f \in Posts : IF put[f].pc = "unsent" THEN put[f].storage = NoStorage
                                                     ELSE put[f].storage \in Storages

(* Initially nothing is there. *)
LEMMA InitTypes ==
  ASSUME Init
  PROVE  Types
<1>1. /\ now = 0 /\ nextId = 1 /\ heap = <<>> /\ addresses = NoStorage /\ clearing = NoStorage
      /\ put = [f \in Posts |-> [pc |-> "unsent", storage |-> NoStorage, id |-> 0]]
      /\ restarts = 0 /\ appended = <<>>
  BY DEF Init, RouterInit
<1>2. /\ gettingFromInternet = FALSE /\ lastReceivedMessageId = 0 /\ overlapped = FALSE
      /\ poll = [p \in Polls |-> IdlePoll]
      /\ handed = [f \in Posts |-> 0]
  BY DEF Init, PeerInit
<1>3. MaxTime \in Nat /\ MaxRestarts \in Nat
  BY RouterAssumption
<1>4. Storages = {}
  BY <1>1 DEF Storages
<1>5. put \in [Posts -> [pc : {"unsent", "append", "done", "failed"},
                         storage : Storages \cup {NoStorage}, id : Nat]]
  BY <1>1
<1>6. RouterTypeOK
  BY <1>1, <1>3, <1>4, <1>5 DEF RouterTypeOK
<1>7. IdlePoll \in PollState
  BY DEF IdlePoll, PollState
<1>8. PeerTypeOK
  <2>1. poll \in [Polls -> PollState]
    BY <1>2, <1>7
  <2>2. handed \in [Posts -> 0 .. 2]
    BY <1>2
  <2> QED
    BY <1>2, <2>1, <2>2 DEF PeerTypeOK
<1>9. \A f \in Posts : put[f].pc = "unsent" /\ put[f].storage = NoStorage
  BY <1>1
<1>10. \A p \in Polls : poll[p].pc = "idle"
  BY <1>2 DEF IdlePoll
<1> QED
  BY <1>6, <1>8, <1>9, <1>10 DEF Types, TypeOK

(* The router keeps its types, and no storage is ever taken from the heap. *)
LEMMA PutBeginTypes ==
  ASSUME Types, NEW f \in Posts, PutBegin(f)
  PROVE  RouterTypeOK' /\ PutHolds' /\ Storages \subseteq Storages'
<1>1. heap' \in Seq(Slot)
  BY PutBeginEffect, TypesOf
<1>2. Storages \subseteq Storages' /\ addresses' \in Storages'
  BY PutBeginEffect
<1>3. \A s \in Storages' : Len(heap'[s].messages) <= MaxMessages
  <2>1. CASE addresses # NoStorage /\ heap' = heap
    BY <2>1, TypesOf DEF Storages
  <2>2. CASE /\ addresses' = Len(heap) + 1 /\ Len(heap') = Len(heap) + 1
             /\ heap'[addresses'].messages = <<>>
             /\ \A s \in Storages : heap'[s] = heap[s]
    <3>1. \A s \in Storages' : s \in Storages \/ s = addresses'
      BY <2>2, TypesOf DEF Storages
    <3>2. Len(heap'[addresses'].messages) <= MaxMessages
      BY <2>2, StorageAssumption
    <3> QED
      BY <3>1, <3>2, <2>2, TypesOf
  <2> QED
    BY <2>1, <2>2, PutBeginEffect
<1>4. \A g \in Posts : put'[g] \in [pc : {"unsent", "append", "done", "failed"},
                                    storage : Storages' \cup {NoStorage}, id : Nat]
  <2> TAKE g \in Posts
  <2>1. CASE g = f
    BY <2>1, <1>2, PutBeginEffect, TypesOf
  <2>2. CASE g # f
    <3>1. put'[g] = put[g] /\ put[g] \in PutState
      BY <2>2, PutBeginEffect, TypesOf
    <3> QED
      BY <3>1, <1>2 DEF PutState
  <2> QED
    BY <2>1, <2>2
<1>5. put' = [g \in Posts |-> put'[g]]
  BY TypesOf DEF PutBegin
<1>6. put' \in [Posts -> [pc : {"unsent", "append", "done", "failed"},
                          storage : Storages' \cup {NoStorage}, id : Nat]]
  BY <1>4, <1>5
<1>7. appended' \in Seq([message : Message, storage : Storages',
                         reachable : BOOLEAN, router : 0 .. MaxRestarts])
  <2>1. appended' = appended /\ appended \in Seq(Entry)
    BY PutBeginEffect, TypesOf
  <2>2. Entry \subseteq [message : Message, storage : Storages',
                         reachable : BOOLEAN, router : 0 .. MaxRestarts]
    BY <1>2 DEF Entry
  <2> QED
    BY <2>1, <2>2, SeqMonotonic
<1>8. clearing' \in Storages' \cup {NoStorage}
  BY <1>2, PutBeginEffect, TypesOf
<1>9. nextId' \in Nat \ {0} /\ now' \in 0 .. MaxTime /\ restarts' \in 0 .. MaxRestarts
  BY PutBeginEffect, TypesOf
<1>10. RouterTypeOK'
  BY <1>1, <1>2, <1>3, <1>6, <1>7, <1>8, <1>9 DEF RouterTypeOK, Slot
<1>11. PutHolds'
  <2> SUFFICES ASSUME NEW g \in Posts
               PROVE  IF put'[g].pc = "unsent" THEN put'[g].storage = NoStorage
                                               ELSE put'[g].storage \in Storages'
    BY DEF PutHolds
  <2>1. CASE g = f
    BY <2>1, <1>2, PutBeginEffect
  <2>2. CASE g # f
    BY <2>2, <1>2, PutBeginEffect DEF Types
  <2> QED
    BY <2>1, <2>2
<1> QED
  BY <1>2, <1>10, <1>11

(* A Put that ends keeps the types: the storage is no longer than before,  *)
(* or no longer than MaxMessages.                                          *)
LEMMA PutEndTypes ==
  ASSUME Types, NEW f \in Posts, PutEnd(f)
  PROVE  RouterTypeOK' /\ PutHolds' /\ Storages' = Storages
<1>1. /\ put[f].storage \in Storages
      /\ put'[f] = [pc |-> "done", storage |-> put[f].storage, id |-> put[f].id]
      /\ \A g \in Posts : g # f => put'[g] = put[g]
      /\ UNCHANGED <<now, nextId, addresses, clearing, restarts>>
  BY PutEndEffect
<1>2. heap' \in Seq(Slot) /\ Storages' = Storages
  BY PutEndEffect
<1>3. \A s \in Storages' : Len(heap'[s].messages) <= MaxMessages
  <2> TAKE s \in Storages'
  <2>1. CASE s = put[f].storage
    <3>1. Sent(f) \in Message
      BY PutEndEffect
    <3>2. heap'[s].messages = Appended(heap[s].messages, Sent(f))
      BY <2>1, PutEndEffect
    <3>3. heap[s].messages \in Seq(Message) /\ Len(heap[s].messages) <= MaxMessages
      BY <1>2, TypesOf
    <3>4. Len(Appended(heap[s].messages, Sent(f))) <= MaxMessages
      BY <3>1, <3>3, AppendedIs
    <3> QED
      BY <3>2, <3>4
  <2>2. CASE s # put[f].storage
    <3>1. heap'[s] = heap[s]
      BY <2>2, <1>2, PutEndEffect
    <3> QED
      BY <3>1, <1>2, TypesOf
  <2> QED
    BY <2>1, <2>2
<1>4. \A g \in Posts : put'[g] \in PutState
  <2> TAKE g \in Posts
  <2>1. CASE g = f
    <3>1. put[f] \in PutState
      BY TypesOf
    <3> QED
      BY <3>1, <2>1, <1>1 DEF PutState
  <2>2. CASE g # f
    BY <2>2, PutEndEffect, TypesOf
  <2> QED
    BY <2>1, <2>2
<1>5. put' = [g \in Posts |-> put'[g]]
  BY TypesOf DEF PutEnd
<1>6. put' \in [Posts -> [pc : {"unsent", "append", "done", "failed"},
                          storage : Storages' \cup {NoStorage}, id : Nat]]
  BY <1>2, <1>4, <1>5 DEF PutState
<1>7. appended' \in Seq([message : Message, storage : Storages',
                         reachable : BOOLEAN, router : 0 .. MaxRestarts])
  BY <1>2, PutEndEffect DEF Entry
<1>8. /\ clearing' \in Storages' \cup {NoStorage} /\ addresses' \in Storages' \cup {NoStorage}
      /\ nextId' \in Nat \ {0} /\ now' \in 0 .. MaxTime /\ restarts' \in 0 .. MaxRestarts
  BY <1>1, <1>2, TypesOf
<1>9. RouterTypeOK'
  BY <1>2, <1>3, <1>6, <1>7, <1>8 DEF RouterTypeOK, Slot
<1>10. PutHolds'
  <2> SUFFICES ASSUME NEW g \in Posts
               PROVE  IF put'[g].pc = "unsent" THEN put'[g].storage = NoStorage
                                               ELSE put'[g].storage \in Storages
    BY <1>2 DEF PutHolds
  <2>1. CASE g = f
    BY <2>1, <1>1
  <2>2. CASE g # f
    BY <2>2, <1>1 DEF Types
  <2> QED
    BY <2>1, <2>2
<1> QED
  BY <1>2, <1>9, <1>10

(* So does a clearing, which only drops messages ... *)
LEMMA ClearEndTypes ==
  ASSUME Types, ClearEnd
  PROVE  RouterTypeOK' /\ PutHolds' /\ Storages' = Storages
<1>1. heap' \in Seq(Slot) /\ Storages' = Storages
  BY ClearEndEffect
<1>2. \A s \in Storages' : Len(heap'[s].messages) <= MaxMessages
  <2> TAKE s \in Storages'
  <2>1. CASE s = clearing
    <3> DEFINE kept == Younger(heap[s].messages, now, MessageAge)
    <3>1. heap'[s].messages = kept
      BY <2>1, <1>1, ClearEndEffect
    <3>2. heap[s].messages \in Seq(Message) /\ Len(heap[s].messages) <= MaxMessages
          /\ Len(heap[s].messages) \in Nat
      BY <1>1, TypesOf
    <3>3. Len(kept) <= Len(heap[s].messages) /\ kept \in Seq(Message)
      BY <3>2, YoungerIs
    <3> HIDE DEF kept
    <3>4. Len(kept) \in Nat
      BY <3>3
    <3> QED
      BY <3>1, <3>2, <3>3, <3>4, StorageAssumption
  <2>2. CASE s # clearing
    BY <2>2, <1>1, ClearEndEffect, TypesOf
  <2> QED
    BY <2>1, <2>2
<1>3. put' = put /\ appended' = appended
  BY ClearEndEffect
<1>4. /\ clearing' \in Storages' \cup {NoStorage} /\ addresses' \in Storages' \cup {NoStorage}
      /\ nextId' \in Nat \ {0} /\ now' \in 0 .. MaxTime /\ restarts' \in 0 .. MaxRestarts
  BY <1>1, ClearEndEffect, TypesOf
<1>5. RouterTypeOK'
  BY <1>1, <1>2, <1>3, <1>4, TypesOf DEF RouterTypeOK, Slot, PutState, Entry
<1>6. PutHolds'
  BY <1>1, <1>3 DEF PutHolds, Types
<1> QED
  BY <1>1, <1>5, <1>6

(* The steps that leave the storages alone. *)
LEMMA OtherTypes ==
  ASSUME Types, ClearBegin \/ Tick \/ UNCHANGED routerVars
  PROVE  RouterTypeOK' /\ PutHolds' /\ Storages' = Storages
<1>1. /\ heap' = heap /\ put' = put /\ appended' = appended /\ restarts' = restarts
      /\ nextId' = nextId
      /\ addresses' \in {addresses, NoStorage} /\ clearing' \in {clearing, addresses}
      /\ now' \in 0 .. MaxTime
  <2>1. CASE ClearBegin
    BY <2>1, TypesOf DEF ClearBegin
  <2>2. CASE Tick
    BY <2>2, TypesOf, RouterAssumption DEF Tick
  <2>3. CASE UNCHANGED routerVars
    BY <2>3, TypesOf DEF routerVars
  <2> QED
    BY <2>1, <2>2, <2>3
<1>2. Storages' = Storages
  BY <1>1 DEF Storages
<1>3. addresses' \in Storages' \cup {NoStorage} /\ clearing' \in Storages' \cup {NoStorage}
  BY <1>1, <1>2, TypesOf
<1>4. RouterTypeOK
  BY DEF Types, TypeOK
<1>5. RouterTypeOK'
  BY <1>1, <1>2, <1>3, <1>4 DEF RouterTypeOK
<1>6. PutHolds'
  BY <1>1, <1>2 DEF PutHolds, Types
<1> QED
  BY <1>2, <1>5, <1>6

(* A restart keeps them: it fails Puts and drops no object of the heap. *)
LEMMA RestartTypes ==
  ASSUME Types, Restart
  PROVE  RouterTypeOK' /\ PutHolds' /\ Storages' = Storages
<1>1. heap' = heap /\ Storages' = Storages /\ appended' = appended
  BY RestartEffect DEF Storages
<1>2. \A f \in Posts : put'[f] \in PutState
  <2> TAKE f \in Posts
  <2>1. put[f] \in PutState
    BY TypesOf
  <2>2. CASE put[f].pc = "append"
    BY <2>1, <2>2, RestartEffect DEF PutState
  <2>3. CASE put[f].pc # "append"
    BY <2>1, <2>3, RestartEffect
  <2> QED
    BY <2>2, <2>3
<1>3. put' \in [Posts -> [pc : {"unsent", "append", "done", "failed"},
                          storage : Storages' \cup {NoStorage}, id : Nat]]
  <2>1. put' = [f \in Posts |-> put'[f]]
    BY RestartEffect
  <2> QED
    BY <1>1, <1>2, <2>1 DEF PutState
<1>4. restarts' \in 0 .. MaxRestarts
  BY RestartEffect, TypesOf, RouterAssumption
<1>5. RouterTypeOK
  BY DEF Types, TypeOK
<1>6. RouterTypeOK'
  <2>1. /\ now' = now /\ nextId' = 1 /\ addresses' = NoStorage /\ clearing' = NoStorage
    BY RestartEffect
  <2> QED
    BY <1>1, <1>3, <1>4, <1>5, <2>1 DEF RouterTypeOK
<1>7. PutHolds'
  <2> SUFFICES ASSUME NEW f \in Posts
               PROVE  IF put'[f].pc = "unsent" THEN put'[f].storage = NoStorage
                                               ELSE put'[f].storage \in Storages
    BY <1>1 DEF PutHolds
  <2>1. CASE put[f].pc = "append"
    <3>1. put'[f] = [pc |-> "failed", storage |-> put[f].storage, id |-> put[f].id]
      BY <2>1, RestartEffect
    <3>2. put[f].storage \in Storages
      BY <2>1 DEF Types
    <3> QED
      BY <3>1, <3>2
  <2>2. CASE put[f].pc # "append"
    BY <2>2, RestartEffect DEF Types
  <2> QED
    BY <2>1, <2>2
<1> QED
  BY <1>1, <1>6, <1>7

(* A poll that is written keeps its types. *)
LEMMA PollWritten ==
  ASSUME Types, NEW p \in Polls,
         NEW pc \in {"idle", "checked", "request", "read", "answer", "clear"},
         NEW after \in Nat, NEW storage \in Storages \cup {NoStorage}, NEW last \in Nat,
         NEW batch \in SUBSET Posts, pc = "read" => storage \in Storages,
         poll' = [poll EXCEPT ![p] = PollOf(pc, after, storage, last, batch)],
         UNCHANGED routerVars
  PROVE  /\ poll' \in [Polls -> PollState']
         /\ \A q \in Polls : poll'[q].pc = "read" => poll'[q].storage \in Storages'
<1>1. Storages' = Storages
  BY DEF routerVars, Storages
<1>2. PollState' = PollState
  BY <1>1 DEF PollState
<1>3. PollOf(pc, after, storage, last, batch) \in PollState
  BY DEF PollOf, PollState
<1>4. poll \in [Polls -> PollState]
  BY PollFields
<1>5. poll' \in [Polls -> PollState']
  BY <1>2, <1>3, <1>4
<1>6. poll'[p].pc = pc /\ poll'[p].storage = storage
  BY <1>4 DEF PollOf
<1>7. \A q \in Polls : poll'[q].pc = "read" => poll'[q].storage \in Storages'
  BY <1>1, <1>4, <1>6 DEF Types
<1> QED
  BY <1>5, <1>7

(* The peer keeps its types in a step of a poll. *)
LEMMA PollTypes ==
  ASSUME Types, NEW p \in Polls, PollStep(p)
  PROVE  Types'
<1>1. /\ poll[p].after \in Nat /\ poll[p].last \in Nat
      /\ poll[p].storage \in Storages \cup {NoStorage}
      /\ poll[p].batch \in SUBSET Posts
  BY PollFields
<1>2. /\ gettingFromInternet \in BOOLEAN /\ lastReceivedMessageId \in Nat
      /\ handed \in [Posts -> 0 .. 2] /\ overlapped \in BOOLEAN
  BY TypesOf DEF PeerTypeOK
<1> DEFINE PollOK == /\ UNCHANGED routerVars
                     /\ poll' \in [Polls -> PollState']
                     /\ \A q \in Polls : poll'[q].pc = "read" => poll'[q].storage \in Storages'
<1> DEFINE RestOK == /\ gettingFromInternet' \in BOOLEAN /\ lastReceivedMessageId' \in Nat
                     /\ handed' \in [Posts -> 0 .. 2] /\ overlapped' \in BOOLEAN
<1>3. CASE CheckFlag(p)
  <2>1. PollOK
    BY <1>1, <1>3, CheckFlagEffect, PollWritten
  <2>2. RestOK
    BY <1>2, <1>3, CheckFlagEffect
  <2> QED
    BY <2>1, <2>2, OtherTypes DEF Types, TypeOK, PeerTypeOK, PutHolds
<1>4. CASE BeginPoll(p)
  <2>1. PollOK
    <3>1. /\ poll' = [poll EXCEPT ![p] = PollOf("request", lastReceivedMessageId,
                                        poll[p].storage, poll[p].last, poll[p].batch)]
          /\ UNCHANGED routerVars
      BY <1>4, BeginPollEffect
    <3> QED
      BY <3>1, <1>1, <1>2, PollWritten
  <2>2. RestOK
    <3>1. overlapped' = (overlapped \/ \E q \in Polls : Active(q))
      BY <1>4, BeginPollEffect
    <3>2. overlapped' \in BOOLEAN
      BY <3>1
    <3> QED
      BY <1>2, <1>4, <3>2, BeginPollEffect
  <2> QED
    BY <2>1, <2>2, OtherTypes DEF Types, TypeOK, PeerTypeOK, PutHolds
<1>5. CASE LookUp(p)
  <2>1. PollOK
    <3>1. CASE addresses = NoStorage
      <4>1. /\ poll' = [poll EXCEPT ![p] = PollOf("answer", poll[p].after, poll[p].storage,
                                                  0, poll[p].batch)]
            /\ UNCHANGED routerVars
        BY <3>1, <1>5, LookUpEffect
      <4> QED
        BY <4>1, <1>1, PollWritten
    <3>2. CASE addresses # NoStorage
      <4>1. addresses \in Storages
        BY <3>2, TypesOf
      <4>2. /\ poll' = [poll EXCEPT ![p] = PollOf("read", poll[p].after, addresses,
                                                  poll[p].last, poll[p].batch)]
            /\ UNCHANGED routerVars
        BY <3>2, <1>5, LookUpEffect
      <4> QED
        BY <4>1, <4>2, <1>1, PollWritten
    <3> QED
      BY <3>1, <3>2
  <2>2. RestOK
    BY <1>2, <1>5, LookUpEffect
  <2> QED
    BY <2>1, <2>2, OtherTypes DEF Types, TypeOK, PeerTypeOK, PutHolds
<1>6. CASE Read(p)
  <2>1. PollOK
    <3> DEFINE batch == {m.post : m \in Answer(p).sent}
    <3>1. /\ poll' = [poll EXCEPT ![p] = PollOf("answer", poll[p].after, NoStorage,
                                                Answer(p).lastId, batch)]
          /\ Answer(p).lastId \in Nat /\ batch \in SUBSET Posts
          /\ UNCHANGED routerVars
      BY <1>6, ReadEffect
    <3> HIDE DEF batch
    <3> QED
      BY <3>1, <1>1, PollWritten
  <2>2. RestOK
    BY <1>2, <1>6, ReadEffect
  <2> QED
    BY <2>1, <2>2, OtherTypes DEF Types, TypeOK, PeerTypeOK, PutHolds
<1>7. CASE LosePoll(p)
  <2>1. PollOK
    BY <1>7, LosePollEffect, PollWritten
  <2>2. RestOK
    BY <1>2, <1>7, LosePollEffect
  <2> QED
    BY <2>1, <2>2, OtherTypes DEF Types, TypeOK, PeerTypeOK, PutHolds
<1>8. CASE TakeAnswer(p)
  <2>1. PollOK
    BY <1>8, TakeAnswerEffect, PollWritten
  <2>2. RestOK
    <3>1. handed' = [f \in Posts |-> IF f \in poll[p].batch /\ handed[f] < 2
                                     THEN handed[f] + 1 ELSE handed[f]]
      BY <1>8, TakeAnswerEffect
    <3>2. \A f \in Posts : handed[f] \in 0 .. 2 /\ (handed[f] < 2 => handed[f] + 1 \in 0 .. 2)
      BY <1>2
    <3>3. handed' \in [Posts -> 0 .. 2]
      BY <3>1, <3>2
    <3> QED
      BY <1>1, <1>2, <1>8, <3>3, TakeAnswerEffect
  <2> QED
    BY <2>1, <2>2, OtherTypes DEF Types, TypeOK, PeerTypeOK, PutHolds
<1>9. CASE EndPoll(p)
  <2>1. PollOK
    <3>1. /\ poll' = [poll EXCEPT ![p] = PollOf("idle", 0, NoStorage, 0, {})]
          /\ UNCHANGED routerVars
      BY <1>9, EndPollEffect
    <3>2. /\ NoStorage \in Storages \cup {NoStorage} /\ 0 \in Nat /\ {} \in SUBSET Posts
          /\ "idle" \in {"idle", "checked", "request", "read", "answer", "clear"}
          /\ "idle" # "read"
      OBVIOUS
    <3> QED
      BY <3>1, <3>2, PollWritten
  <2>2. RestOK
    BY <1>2, <1>9, EndPollEffect
  <2> QED
    BY <2>1, <2>2, OtherTypes DEF Types, TypeOK, PeerTypeOK, PutHolds
<1> QED
  BY <1>3, <1>4, <1>5, <1>6, <1>7, <1>8, <1>9 DEF PollStep

(* Every step keeps the types. *)
LEMMA NextTypes ==
  ASSUME Types, [Next]_vars
  PROVE  Types'
<1> DEFINE RouterOK == RouterTypeOK' /\ PutHolds' /\ Storages \subseteq Storages'
<1>1. ASSUME RouterOK, UNCHANGED peerVars
      PROVE  Types'
  <2>1. /\ gettingFromInternet' = gettingFromInternet
        /\ lastReceivedMessageId' = lastReceivedMessageId
        /\ poll' = poll /\ handed' = handed /\ overlapped' = overlapped
    BY <1>1 DEF peerVars
  <2>2. PeerTypeOK
    BY TypesOf
  <2>3. PollState \subseteq PollState'
    BY <1>1 DEF PollState
  <2>4. poll' \in [Polls -> PollState']
    BY <2>1, <2>2, <2>3 DEF PeerTypeOK
  <2>5. PeerTypeOK'
    BY <2>1, <2>2, <2>4 DEF PeerTypeOK
  <2>6. \A p \in Polls : poll'[p].pc = "read" => poll'[p].storage \in Storages'
    BY <1>1, <2>1 DEF Types
  <2> QED
    BY <1>1, <2>5, <2>6 DEF Types, TypeOK, PutHolds
<1>2. ASSUME NEW p \in Polls, PollStep(p)
      PROVE  Types'
  BY <1>2, PollTypes
<1>3. ASSUME RouterNext, UNCHANGED peerVars
      PROVE  Types'
  <2>1. ASSUME NEW f \in Posts, PutBegin(f)
        PROVE  RouterOK
    BY <2>1, PutBeginTypes
  <2>2. ASSUME NEW f \in Posts, PutEnd(f)
        PROVE  RouterOK
    BY <2>2, PutEndTypes
  <2>3. ASSUME ClearBegin \/ Tick
        PROVE  RouterOK
    BY <2>3, OtherTypes
  <2>4. ASSUME ClearEnd
        PROVE  RouterOK
    BY <2>4, ClearEndTypes
  <2> HIDE DEF RouterOK
  <2>5. RouterOK
    BY <1>3, <2>1, <2>2, <2>3, <2>4 DEF RouterNext
  <2> QED
    BY <1>1, <1>3, <2>5
<1>4. CASE Restart
  <2>1. RouterOK
    BY <1>4, RestartTypes
  <2>2. PeerTypeOK
    BY TypesOf
  <2>3. PollState' = PollState
    BY <1>4, RestartTypes DEF PollState
  <2>4. \A p \in Polls : poll'[p] \in PollState
    <3> TAKE p \in Polls
    <3>1. CASE poll[p].pc \in {"request", "read"}
      <4>1. poll'[p] = PollOf("clear", 0, NoStorage, 0, {})
        BY <3>1, <1>4, RestartEffect
      <4> QED
        BY <4>1 DEF PollOf, PollState
    <3>2. CASE poll[p].pc \notin {"request", "read"}
      <4>1. poll'[p] = poll[p]
        BY <3>2, <1>4, RestartEffect
      <4> QED
        BY <4>1, PollFields
    <3> QED
      BY <3>1, <3>2
  <2>5. poll' \in [Polls -> PollState']
    <3>1. poll' = [p \in Polls |-> poll'[p]]
      BY <1>4, RestartEffect
    <3> QED
      BY <2>3, <2>4, <3>1
  <2>6. PeerTypeOK'
    <3>1. UNCHANGED <<gettingFromInternet, lastReceivedMessageId, handed, overlapped>>
      BY <1>4, RestartEffect
    <3> QED
      BY <2>2, <2>5, <3>1 DEF PeerTypeOK
  <2>7. ASSUME NEW p \in Polls
        PROVE  poll'[p].pc # "read"
    <3>1. CASE poll[p].pc \in {"request", "read"}
      <4>1. poll'[p] = PollOf("clear", 0, NoStorage, 0, {})
        BY <3>1, <1>4, RestartEffect
      <4> QED
        BY <4>1 DEF PollOf
    <3>2. CASE poll[p].pc \notin {"request", "read"}
      <4>1. poll'[p] = poll[p]
        BY <3>2, <1>4, RestartEffect
      <4> QED
        BY <4>1, <3>2
    <3> QED
      BY <3>1, <3>2
  <2> QED
    BY <2>1, <2>6, <2>7 DEF Types, TypeOK, PutHolds
<1>5. CASE UNCHANGED vars
  <2>1. UNCHANGED routerVars /\ UNCHANGED peerVars
    BY <1>5 DEF vars
  <2>2. RouterOK
    BY <2>1, OtherTypes
  <2> HIDE DEF RouterOK
  <2> QED
    BY <2>1, <2>2, <1>1
<1> QED
  BY <1>2, <1>3, <1>4, <1>5 DEF Next

(* TypeOK holds in every state: of router and peer together, whatever is   *)
(* posted, cleared, forgotten, lost or restarted.                          *)
THEOREM TypesKept == Spec => []TypeOK
<1>1. Init => Types
  BY InitTypes
<1>2. Types /\ [Next]_vars => Types'
  BY NextTypes
<1>3. Types => TypeOK
  BY DEF Types
<1> QED
  BY <1>1, <1>2, <1>3, PTL DEF Spec

-----------------------------------------------------------------------------
(* The ledger: appended holds each Put that is done, once, as the Put left *)
(* it and in the order of the clock; a storage holds messages that were    *)
(* appended to it, in the order they were.                                 *)
DoneAs(f, s, id) == put[f] = [pc |-> "done", storage |-> s, id |-> id]

RecordOf(a) ==
  /\ DoneAs(a.message.post, a.storage, a.message.id)
  /\ a.message.size = SizeOf[a.message.post]
  /\ a.message.touched <= heap[a.storage].touched
  /\ a.router <= restarts

Recorded ==
  /\ \A k \in 1 .. Len(appended) : RecordOf(appended[k])
  /\ \A k, l \in 1 .. Len(appended) : k < l =>
       /\ appended[k].message.touched <= appended[l].message.touched
       /\ appended[k].message.post # appended[l].message.post
  /\ \A f \in Posts : put[f].pc = "done" =>
       \E k \in 1 .. Len(appended) : appended[k].message.post = f

At(log, k, m, s) == log[k].message = m /\ log[k].storage = s

ListedAs(messages, s, log) ==
  /\ \A i \in 1 .. Len(messages) : \E k \in 1 .. Len(log) : At(log, k, messages[i], s)
  /\ \A i, j \in 1 .. Len(messages) : i < j =>
       \E k, l \in 1 .. Len(log) : k < l /\ At(log, k, messages[i], s) /\ At(log, l, messages[j], s)

Listed == \A s \in Storages : heap[s].touched <= now /\ ListedAs(heap[s].messages, s, appended)

(* Ids: those of one storage differ, the storage of the address is the     *)
(* newest, and its ids are below the next one.                             *)
Ids ==
  /\ addresses # NoStorage => addresses = Len(heap)
  /\ \A f \in Posts : put[f].pc # "unsent" => put[f].id >= 1
  /\ \A f \in Posts : put[f].pc # "unsent" /\ put[f].storage = addresses => put[f].id < nextId
  /\ \A f, g \in Posts : /\ f # g /\ put[f].pc # "unsent" /\ put[g].pc # "unsent"
                         /\ put[f].storage = put[g].storage
                         => put[f].id # put[g].id

(* Before any restart ids are ordered as the storages are. *)
IdsInOrder ==
  restarts = 0 =>
    /\ \A f \in Posts : put[f].pc # "unsent" => put[f].id < nextId
    /\ \A f, g \in Posts : /\ put[f].pc # "unsent" /\ put[g].pc # "unsent"
                           /\ put[f].storage < put[g].storage
                           => put[f].id < put[g].id

Ledger == Recorded /\ Listed /\ Ids /\ IdsInOrder

(* Longer is log with one more entry. *)
Longer(longer, log) ==
  /\ Len(log) \in Nat /\ Len(longer) = Len(log) + 1
  /\ \A k \in 1 .. Len(log) : longer[k] = log[k]

(* What was listed stays listed when the log grows. *)
LEMMA ListedGrows ==
  ASSUME NEW messages, NEW s, NEW log, NEW longer, Longer(longer, log),
         ListedAs(messages, s, log)
  PROVE  ListedAs(messages, s, longer)
<1>1. \A k \in 1 .. Len(log) : k \in 1 .. Len(longer)
  BY DEF Longer
<1>2. \A k \in 1 .. Len(log) : \A m : At(log, k, m, s) => At(longer, k, m, s)
  BY DEF Longer, At
<1>3. ASSUME NEW i \in 1 .. Len(messages)
      PROVE  \E k \in 1 .. Len(longer) : At(longer, k, messages[i], s)
  <2>1. PICK k \in 1 .. Len(log) : At(log, k, messages[i], s)
    BY DEF ListedAs
  <2> QED
    BY <2>1, <1>1, <1>2
<1>4. ASSUME NEW i \in 1 .. Len(messages), NEW j \in 1 .. Len(messages), i < j
      PROVE  \E k, l \in 1 .. Len(longer) :
               k < l /\ At(longer, k, messages[i], s) /\ At(longer, l, messages[j], s)
  <2>1. PICK k \in 1 .. Len(log), l \in 1 .. Len(log) :
               k < l /\ At(log, k, messages[i], s) /\ At(log, l, messages[j], s)
    BY <1>4 DEF ListedAs
  <2> QED
    BY <2>1, <1>1, <1>2
<1> QED
  BY <1>3, <1>4 DEF ListedAs

(* The message the new entry is about is listed behind the others. *)
LEMMA ListedNew ==
  ASSUME NEW old, Len(old) \in Nat, NEW new, NEW s, NEW log, NEW longer,
         Longer(longer, log), ListedAs(old, s, log),
         NEW d \in {0, 1},
         Len(new) = Len(old) + 1 - d, Len(new) >= 1,
         longer[Len(log) + 1].message = new[Len(new)], longer[Len(log) + 1].storage = s,
         \A i \in 1 .. Len(old) - d : new[i] = old[i + d]
  PROVE  ListedAs(new, s, longer)
<1> DEFINE n == Len(log)
<1>1. \A i \in 1 .. Len(new) :
        i # Len(new) => i \in 1 .. Len(old) - d /\ i + d \in 1 .. Len(old)
  OBVIOUS
<1>2. \A i \in 1 .. Len(new) : i # Len(new) => i + d \in 1 .. Len(old) /\ new[i] = old[i + d]
  BY <1>1
<1>3. n \in Nat /\ n + 1 \in 1 .. n + 1 /\ Len(longer) = n + 1
  BY DEF Longer
<1>4. At(longer, n + 1, new[Len(new)], s)
  BY DEF At
<1>5. \A k \in 1 .. n : \A m : At(log, k, m, s) => At(longer, k, m, s)
  BY DEF Longer, At
<1> HIDE DEF n
<1>6. \A k \in 1 .. n : k \in 1 .. n + 1 /\ k < n + 1
  BY <1>3
<1>7. ASSUME NEW i \in 1 .. Len(new), i # Len(new)
      PROVE  \E k \in 1 .. n : At(longer, k, new[i], s)
  <2>1. i + d \in 1 .. Len(old) /\ new[i] = old[i + d]
    BY <1>2, <1>7
  <2>2. PICK k \in 1 .. n : At(log, k, old[i + d], s)
    BY <2>1 DEF ListedAs, n
  <2> QED
    BY <2>1, <2>2, <1>5
<1>8. \A i \in 1 .. Len(new) : \E k \in 1 .. n + 1 : At(longer, k, new[i], s)
  BY <1>3, <1>4, <1>6, <1>7
<1>9. ASSUME NEW i \in 1 .. Len(new), NEW j \in 1 .. Len(new), i < j
      PROVE  \E k, l \in 1 .. n + 1 : k < l /\ At(longer, k, new[i], s) /\ At(longer, l, new[j], s)
  <2>1. i # Len(new)
    BY <1>9
  <2>2. CASE j = Len(new)
    <3>1. PICK k \in 1 .. n : At(longer, k, new[i], s)
      BY <2>1, <1>7
    <3> QED
      BY <3>1, <2>2, <1>3, <1>4, <1>6
  <2>3. CASE j # Len(new)
    <3>1. /\ i + d \in 1 .. Len(old) /\ new[i] = old[i + d]
          /\ j + d \in 1 .. Len(old) /\ new[j] = old[j + d]
      BY <2>1, <2>3, <1>2
    <3>2. i + d < j + d
      BY <1>9
    <3>3. PICK k \in 1 .. n, l \in 1 .. n :
                 k < l /\ At(log, k, old[i + d], s) /\ At(log, l, old[j + d], s)
      BY <3>1, <3>2 DEF ListedAs, n
    <3> QED
      BY <3>1, <3>3, <1>5, <1>6
  <2> QED
    BY <2>2, <2>3
<1> QED
  BY <1>3, <1>8, <1>9 DEF ListedAs

(* What is left of a list, in order, is listed. *)
LEMMA ListedSub ==
  ASSUME NEW old, NEW new, NEW s, NEW log, ListedAs(old, s, log),
         \A i \in 1 .. Len(new) : \E k \in 1 .. Len(old) : new[i] = old[k],
         \A i, j \in 1 .. Len(new) : i < j =>
           \E k, l \in 1 .. Len(old) : k < l /\ new[i] = old[k] /\ new[j] = old[l]
  PROVE  ListedAs(new, s, log)
<1>1. \A i \in 1 .. Len(new) : \E k \in 1 .. Len(log) : At(log, k, new[i], s)
  BY DEF ListedAs
<1>2. ASSUME NEW i \in 1 .. Len(new), NEW j \in 1 .. Len(new), i < j
      PROVE  \E k, l \in 1 .. Len(log) : k < l /\ At(log, k, new[i], s) /\ At(log, l, new[j], s)
  <2>1. PICK k \in 1 .. Len(old), l \in 1 .. Len(old) : k < l /\ new[i] = old[k] /\ new[j] = old[l]
    BY <1>2
  <2> QED
    BY <2>1 DEF ListedAs
<1> QED
  BY <1>1, <1>2 DEF ListedAs

(* Initially the ledger is empty. *)
LEMMA InitLedger ==
  ASSUME Init
  PROVE  Ledger
<1>1. /\ heap = <<>> /\ addresses = NoStorage /\ appended = <<>>
      /\ put = [f \in Posts |-> [pc |-> "unsent", storage |-> NoStorage, id |-> 0]]
  BY DEF Init, RouterInit
<1>2. Len(appended) = 0 /\ Len(heap) = 0
  BY <1>1
<1>3. \A f \in Posts : put[f].pc = "unsent"
  BY <1>1
<1>4. Recorded
  BY <1>2, <1>3 DEF Recorded
<1>5. Listed
  BY <1>2 DEF Listed, Storages
<1>6. Ids /\ IdsInOrder
  BY <1>1, <1>3 DEF Ids, IdsInOrder
<1> QED
  BY <1>4, <1>5, <1>6 DEF Ledger

(* A Put that begins enters nothing. *)
LEMMA PutBeginLedger ==
  ASSUME Types, Ledger, NEW f \in Posts, PutBegin(f)
  PROVE  Ledger'
<1>1. /\ put[f].pc = "unsent"
      /\ addresses' \in Storages' /\ addresses' # NoStorage
      /\ Storages \subseteq Storages'
      /\ \A s \in Storages : heap'[s] = heap[s]
      /\ put'[f] = [pc |-> "append", storage |-> addresses', id |-> nextId]
      /\ \A g \in Posts : g # f => put'[g] = put[g]
      /\ nextId' = nextId + 1
      /\ now' = now /\ restarts' = restarts /\ appended' = appended
  BY PutBeginEffect
<1>2. \/ addresses # NoStorage /\ heap' = heap /\ addresses' = addresses
      \/ /\ addresses = NoStorage /\ addresses' = Len(heap) + 1
         /\ Len(heap') = Len(heap) + 1
         /\ heap'[addresses'].messages = <<>>
         /\ heap'[addresses'].touched = now
  BY PutBeginEffect
<1>3. Recorded'
  <2>1. ASSUME NEW k \in 1 .. Len(appended)
        PROVE  RecordOf(appended[k])'
    <3>1. RecordOf(appended[k]) /\ appended[k] \in Entry
      BY TypesOf DEF Ledger, Recorded
    <3>2. appended[k].message.post \in Posts /\ appended[k].storage \in Storages
      BY <3>1 DEF Entry, Message
    <3>3. put[appended[k].message.post].pc = "done"
      BY <3>1 DEF RecordOf, DoneAs
    <3>4. put'[appended[k].message.post] = put[appended[k].message.post]
      BY <3>2, <3>3, <1>1
    <3>5. heap'[appended[k].storage] = heap[appended[k].storage]
      BY <3>2, <1>1
    <3> QED
      BY <3>1, <3>4, <3>5, <1>1 DEF RecordOf, DoneAs
  <2>2. \A k, l \in 1 .. Len(appended) : k < l =>
          /\ appended[k].message.touched <= appended[l].message.touched
          /\ appended[k].message.post # appended[l].message.post
    BY DEF Ledger, Recorded
  <2>3. \A g \in Posts : put'[g].pc = "done" =>
          \E k \in 1 .. Len(appended) : appended[k].message.post = g
    BY <1>1 DEF Ledger, Recorded
  <2> QED
    BY <1>1, <2>1, <2>2, <2>3 DEF Recorded
<1>4. ASSUME NEW s \in Storages'
      PROVE  heap'[s].touched <= now' /\ ListedAs(heap'[s].messages, s, appended')
  <2>1. CASE s \in Storages
    <3>1. heap'[s] = heap[s] /\ appended' = appended /\ now' = now
      BY <2>1, <1>1
    <3>2. heap[s].touched <= now /\ ListedAs(heap[s].messages, s, appended)
      BY <2>1 DEF Ledger, Listed
    <3> QED
      BY <3>1, <3>2
  <2>2. CASE s \notin Storages
    <3>1. s = addresses' /\ heap'[s].messages = <<>> /\ heap'[s].touched = now
      BY <2>2, <1>2, TypesOf DEF Storages
    <3> QED
      <4>1. Len(heap'[s].messages) = 0
        BY <3>1
      <4>2. now \in Nat /\ now' = now
        BY <1>1, TypesOf
      <4>3. ListedAs(heap'[s].messages, s, appended')
        BY <4>1 DEF ListedAs
      <4> QED
        BY <3>1, <4>2, <4>3
  <2> QED
    BY <2>1, <2>2
<1>5. Listed'
  BY <1>1, <1>4 DEF Listed
<1>6. \A g \in Posts : g # f /\ put[g].pc # "unsent" => put[g].storage \in Storages
  BY DEF Types
<1>7. \A g \in Posts : put[g].id \in Nat
  <2>1. \A g \in Posts : put[g] \in PutState
    BY TypesOf
  <2> QED
    BY <2>1 DEF PutState
<1>8. \A g \in Posts : /\ g # f /\ put[g].pc # "unsent" /\ put[g].storage = addresses'
                       => put[g].id < nextId
  <2>1. CASE addresses' = addresses
    BY <2>1 DEF Ledger, Ids
  <2>2. CASE addresses' = Len(heap) + 1
    BY <2>2, <1>6, TypesOf DEF Storages
  <2> QED
    BY <2>1, <2>2, <1>2
<1>9. Ids'
  <2>1. addresses' = Len(heap')
    BY <1>2 DEF Ledger, Ids
  <2>2. \A g \in Posts : put'[g].pc # "unsent" => put'[g].id >= 1
    BY <1>1, TypesOf DEF Ledger, Ids
  <2>3. \A g \in Posts : put'[g].pc # "unsent" /\ put'[g].storage = addresses'
                           => put'[g].id < nextId'
    <3> SUFFICES ASSUME NEW g \in Posts, put'[g].pc # "unsent", put'[g].storage = addresses'
                 PROVE  put'[g].id < nextId'
      OBVIOUS
    <3>1. CASE g = f
      BY <3>1, <1>1, TypesOf
    <3>2. CASE g # f
      <4>1. put'[g] = put[g]
        BY <3>2, <1>1
      <4>2. put[g].id < nextId
        BY <3>2, <4>1, <1>8
      <4> QED
        BY <4>1, <4>2, <1>1, <1>7, TypesOf
    <3> QED
      BY <3>1, <3>2
  <2>4. \A g, h \in Posts : /\ g # h /\ put'[g].pc # "unsent" /\ put'[h].pc # "unsent"
                            /\ put'[g].storage = put'[h].storage
                            => put'[g].id # put'[h].id
    <3> SUFFICES ASSUME NEW g \in Posts, NEW h \in Posts,
                        g # h, put'[g].pc # "unsent", put'[h].pc # "unsent",
                        put'[g].storage = put'[h].storage
                 PROVE  put'[g].id # put'[h].id
      OBVIOUS
    <3>1. CASE g = f
      <4>1. put[h].id < nextId /\ put'[h] = put[h] /\ put'[g].id = nextId
        BY <3>1, <1>1, <1>8
      <4> QED
        BY <4>1, <1>7, TypesOf
    <3>2. CASE h = f
      <4>1. put[g].id < nextId /\ put'[g] = put[g] /\ put'[h].id = nextId
        BY <3>2, <1>1, <1>8
      <4> QED
        BY <4>1, <1>7, TypesOf
    <3>3. CASE g # f /\ h # f
      BY <3>3, <1>1 DEF Ledger, Ids
    <3> QED
      BY <3>1, <3>2, <3>3
  <2> QED
    BY <2>1, <2>2, <2>3, <2>4 DEF Ids
<1>10. IdsInOrder'
  <2> SUFFICES ASSUME restarts = 0
               PROVE  /\ \A g \in Posts : put'[g].pc # "unsent" => put'[g].id < nextId'
                      /\ \A g, h \in Posts :
                           /\ put'[g].pc # "unsent" /\ put'[h].pc # "unsent"
                           /\ put'[g].storage < put'[h].storage
                           => put'[g].id < put'[h].id
    BY <1>1 DEF IdsInOrder
  <2>1. /\ \A g \in Posts : put[g].pc # "unsent" => put[g].id < nextId
        /\ \A g, h \in Posts : /\ put[g].pc # "unsent" /\ put[h].pc # "unsent"
                               /\ put[g].storage < put[h].storage
                               => put[g].id < put[h].id
    BY DEF Ledger, IdsInOrder
  <2>2. ASSUME NEW g \in Posts, put'[g].pc # "unsent"
        PROVE  put'[g].id < nextId'
    <3>1. CASE g = f
      BY <3>1, <1>1, TypesOf
    <3>2. CASE g # f
      BY <3>2, <2>2, <2>1, <1>1, <1>7, TypesOf
    <3> QED
      BY <3>1, <3>2
  <2>3. ASSUME NEW g \in Posts, NEW h \in Posts,
               put'[g].pc # "unsent", put'[h].pc # "unsent",
               put'[g].storage < put'[h].storage
        PROVE  put'[g].id < put'[h].id
    <3>1. CASE h = f /\ g # f
      BY <3>1, <2>3, <2>1, <1>1
    <3>2. CASE g = f /\ h # f
      <4>1. put'[g].storage = addresses' /\ addresses' \in Nat
        BY <3>2, <1>1, <1>2, TypesOf DEF Storages
      <4>2. put'[h].storage \in 1 .. Len(heap)
        BY <3>2, <2>3, <1>1, <1>6 DEF Storages
      <4>3. addresses' >= Len(heap)
        BY <1>2, TypesOf DEF Ledger, Ids
      <4> QED
        BY <4>1, <4>2, <4>3, <2>3, TypesOf
    <3>3. CASE g # f /\ h # f
      BY <3>3, <2>3, <2>1, <1>1
    <3>4. CASE g = f /\ h = f
      <4>1. put'[f].storage \in Nat
        BY <1>1, <1>2, TypesOf DEF Storages
      <4> QED
        BY <4>1, <3>4, <2>3
    <3> QED
      BY <3>1, <3>2, <3>3, <3>4
  <2> QED
    BY <2>2, <2>3
<1> QED
  BY <1>3, <1>5, <1>9, <1>10 DEF Ledger

(* What is known of an entry. *)
LEMMA EntryFacts ==
  ASSUME Types, Ledger, NEW k \in 1 .. Len(appended)
  PROVE  /\ appended[k] \in Entry /\ appended[k].message \in Message
         /\ appended[k].message.post \in Posts
         /\ appended[k].message.id \in Nat /\ appended[k].message.touched \in Nat
         /\ appended[k].message.size \in Nat
         /\ appended[k].storage \in Storages
         /\ appended[k].router \in Nat
         /\ RecordOf(appended[k])
         /\ put[appended[k].message.post].pc = "done"
         /\ put[appended[k].message.post].storage = appended[k].storage
         /\ put[appended[k].message.post].id = appended[k].message.id
         /\ appended[k].message.touched <= heap[appended[k].storage].touched
         /\ heap[appended[k].storage].touched <= now
         /\ appended[k].message.touched <= now
<1>1. appended[k] \in Entry
  BY TypesOf
<1>2. /\ appended[k].message \in Message /\ appended[k].storage \in Storages
      /\ appended[k].router \in Nat
  BY <1>1 DEF Entry
<1>3. /\ appended[k].message.post \in Posts /\ appended[k].message.id \in Nat
      /\ appended[k].message.touched \in Nat /\ appended[k].message.size \in Nat
  BY <1>2 DEF Message
<1>4. RecordOf(appended[k])
  BY DEF Ledger, Recorded
<1>5. /\ put[appended[k].message.post].pc = "done"
      /\ put[appended[k].message.post].storage = appended[k].storage
      /\ put[appended[k].message.post].id = appended[k].message.id
      /\ appended[k].message.touched <= heap[appended[k].storage].touched
  BY <1>4 DEF RecordOf, DoneAs
<1>6. heap[appended[k].storage].touched <= now
  BY <1>2 DEF Ledger, Listed
<1>7. heap[appended[k].storage].touched \in Nat /\ now \in Nat
  BY <1>2, TypesOf
<1>8. appended[k].message.touched <= now
  BY <1>3, <1>5, <1>6, <1>7
<1> QED
  BY <1>1, <1>2, <1>3, <1>4, <1>5, <1>6, <1>8

(* A Put that ends is entered. *)
LEMMA PutEndLedger ==
  ASSUME Types, Ledger, NEW f \in Posts, PutEnd(f)
  PROVE  Ledger'
<1> DEFINE s == put[f].storage
<1> DEFINE n == Len(appended)
<1>1. /\ put[f].pc = "append" /\ s \in Storages
      /\ Sent(f) \in Message
      /\ Len(heap') = Len(heap) /\ Storages' = Storages
      /\ heap'[s].messages = Appended(heap[s].messages, Sent(f))
      /\ heap'[s].touched = now
      /\ \A r \in Storages : r # s => heap'[r] = heap[r]
  BY PutEndEffect
<1>2. /\ put'[f] = [pc |-> "done", storage |-> s, id |-> put[f].id]
      /\ \A g \in Posts : g # f => put'[g] = put[g]
  BY PutEndEffect
<1>3. /\ Len(appended') = n + 1
      /\ appended'[n + 1] = SentEntry(f)
      /\ \A k \in 1 .. n : appended'[k] = appended[k]
  BY PutEndEffect
<1>4. now' = now /\ nextId' = nextId /\ addresses' = addresses /\ restarts' = restarts
  BY PutEndEffect
<1>5. n \in Nat /\ now \in Nat /\ restarts \in Nat
  BY TypesOf
<1>6. /\ SentEntry(f).message = Sent(f) /\ SentEntry(f).storage = s
      /\ SentEntry(f).router = restarts
      /\ Sent(f).post = f /\ Sent(f).id = put[f].id
      /\ Sent(f).touched = now /\ Sent(f).size = SizeOf[f]
  BY DEF SentEntry, Sent
<1>7. \A k \in 1 .. n : appended[k].message.post # f
  BY <1>1, EntryFacts
<1> HIDE DEF n
<1>8. \A k \in 1 .. n + 1 : k = n + 1 \/ k \in 1 .. n
  BY <1>5
<1>9. Recorded'
  <2>1. ASSUME NEW k \in 1 .. n + 1
        PROVE  RecordOf(appended[k])'
    <3>1. CASE k = n + 1
      BY <3>1, <1>1, <1>2, <1>3, <1>4, <1>5, <1>6 DEF RecordOf, DoneAs
    <3>2. CASE k \in 1 .. n
      <4> DEFINE a == appended[k]
      <4>1. /\ RecordOf(a) /\ a.storage \in Storages /\ a.message.post \in Posts
            /\ a.message.touched \in Nat
            /\ a.message.post # f /\ a.message.touched <= now
        BY <3>2, <1>7, EntryFacts DEF n
      <4>2. appended'[k] = a /\ put'[a.message.post] = put[a.message.post]
        BY <3>2, <4>1, <1>2, <1>3
      <4>3. a.message.touched <= heap'[a.storage].touched
        <5>1. CASE a.storage = s
          BY <5>1, <4>1, <1>1
        <5>2. CASE a.storage # s
          BY <5>2, <4>1, <1>1 DEF RecordOf
        <5> QED
          BY <5>1, <5>2
      <4> QED
        BY <4>1, <4>2, <4>3, <1>4 DEF RecordOf, DoneAs
    <3> QED
      BY <3>1, <3>2, <1>8
  <2>2. ASSUME NEW k \in 1 .. n + 1, NEW l \in 1 .. n + 1, k < l
        PROVE  /\ appended'[k].message.touched <= appended'[l].message.touched
               /\ appended'[k].message.post # appended'[l].message.post
    <3>1. k \in 1 .. n /\ appended'[k] = appended[k]
      BY <2>2, <1>3, <1>5
    <3>2. CASE l = n + 1
      <4>1. appended[k].message.touched <= now /\ appended[k].message.post # f
        BY <3>1, <1>7, EntryFacts DEF n
      <4> QED
        BY <3>1, <3>2, <4>1, <1>3, <1>6
    <3>3. CASE l \in 1 .. n
      <4>1. appended'[l] = appended[l]
        BY <3>3, <1>3
      <4> QED
        BY <2>2, <3>1, <3>3, <4>1 DEF Ledger, Recorded, n
    <3> QED
      BY <3>2, <3>3, <1>8
  <2>3. ASSUME NEW g \in Posts, put'[g].pc = "done"
        PROVE  \E k \in 1 .. n + 1 : appended'[k].message.post = g
    <3>1. CASE g = f
      <4>1. n + 1 \in 1 .. n + 1
        BY <1>5
      <4> QED
        BY <3>1, <4>1, <1>3, <1>6
    <3>2. CASE g # f
      <4>1. put[g].pc = "done"
        BY <2>3, <3>2, <1>2
      <4>2. PICK k \in 1 .. n : appended[k].message.post = g
        BY <4>1 DEF Ledger, Recorded, n
      <4>3. k \in 1 .. n + 1 /\ appended'[k] = appended[k]
        BY <1>3, <1>5
      <4> QED
        BY <4>2, <4>3
    <3> QED
      BY <3>1, <3>2
  <2> QED
    BY <2>1, <2>2, <2>3, <1>3 DEF Recorded
<1>10. ASSUME NEW r \in Storages
       PROVE  heap'[r].touched <= now' /\ ListedAs(heap'[r].messages, r, appended')
  <2>1. ListedAs(heap[r].messages, r, appended) /\ heap[r].touched <= now
    BY DEF Ledger, Listed
  <2>2. Longer(appended', appended)
    BY <1>3, <1>5 DEF Longer, n
  <2>3. CASE r # s
    <3>1. heap'[r] = heap[r]
      BY <2>3, <1>1
    <3>2. ListedAs(heap[r].messages, r, appended')
      BY <2>1, <2>2, ListedGrows
    <3> QED
      BY <3>1, <3>2, <2>1, <1>4
  <2>4. CASE r = s
    <3> DEFINE old == heap[s].messages
    <3> DEFINE new == heap'[s].messages
    <3>1. old \in Seq(Message) /\ Len(old) <= MaxMessages /\ Len(old) \in Nat
      BY <1>1, TypesOf
    <3>2. new = Appended(old, Sent(f)) /\ Sent(f) \in Message
      BY <1>1
    <3> HIDE DEF old, new
    <3>3. PICK d \in {0, 1} :
              /\ Len(new) = Len(old) + 1 - d
              /\ Len(new) >= 1
              /\ new[Len(new)] = Sent(f)
              /\ \A i \in 1 .. Len(old) - d : new[i] = old[i + d]
      BY <3>1, <3>2, AppendedIs
    <3>4. ListedAs(old, s, appended)
      BY <2>1, <2>4 DEF old
    <3>5. /\ appended'[Len(appended) + 1].message = new[Len(new)]
          /\ appended'[Len(appended) + 1].storage = s
      BY <3>3, <1>3, <1>6 DEF n
    <3>6. ListedAs(new, s, appended')
      BY <2>2, <3>1, <3>3, <3>4, <3>5, ListedNew
    <3>7. heap'[r].touched <= now'
      BY <2>4, <1>1, <1>4, <1>5
    <3> QED
      BY <3>6, <3>7, <2>4 DEF new
  <2> QED
    BY <2>3, <2>4
<1>11. Listed'
  BY <1>1, <1>10 DEF Listed
<1>12. \A g \in Posts : /\ put'[g].storage = put[g].storage /\ put'[g].id = put[g].id
                        /\ put'[g].pc = "unsent" <=> put[g].pc = "unsent"
  BY <1>1, <1>2
<1>13. Ids'
  BY <1>1, <1>4, <1>12 DEF Ledger, Ids
<1>14. IdsInOrder'
  BY <1>4, <1>12 DEF Ledger, IdsInOrder
<1> QED
  BY <1>9, <1>11, <1>13, <1>14 DEF Ledger

(* The order is kept by what a clearing leaves. *)
LEMMA ClearEndLedger ==
  ASSUME Types, Ledger, ClearEnd
  PROVE  Ledger'
<1>1. /\ clearing \in Storages /\ Storages' = Storages /\ Len(heap') = Len(heap)
      /\ heap'[clearing].messages = Younger(heap[clearing].messages, now, MessageAge)
      /\ heap'[clearing].touched = heap[clearing].touched
      /\ \A s \in Storages : s # clearing => heap'[s] = heap[s]
  BY ClearEndEffect
<1>2. /\ now' = now /\ nextId' = nextId /\ addresses' = addresses /\ put' = put
      /\ restarts' = restarts /\ appended' = appended
  BY ClearEndEffect
<1>3. \A s \in Storages : heap'[s].touched = heap[s].touched
  BY <1>1
<1>4. Recorded'
  <2>1. ASSUME NEW k \in 1 .. Len(appended)
        PROVE  RecordOf(appended[k])'
    BY <1>2, <1>3, EntryFacts DEF RecordOf, DoneAs
  <2> QED
    BY <2>1, <1>2 DEF Ledger, Recorded
<1>5. ASSUME NEW s \in Storages
      PROVE  heap'[s].touched <= now' /\ ListedAs(heap'[s].messages, s, appended')
  <2>1. ListedAs(heap[s].messages, s, appended) /\ heap[s].touched <= now
    BY DEF Ledger, Listed
  <2>2. CASE s # clearing
    <3>1. heap'[s] = heap[s]
      BY <2>2, <1>1
    <3> QED
      BY <3>1, <2>1, <1>2
  <2>3. CASE s = clearing
    <3> DEFINE old == heap[s].messages
    <3> DEFINE new == heap'[s].messages
    <3>1. old \in Seq(Message) /\ new = Younger(old, now, MessageAge)
      BY <2>3, <1>1, TypesOf
    <3> HIDE DEF new, old
    <3>2. /\ \A i, j \in 1 .. Len(new) : i < j => \E k, l \in 1 .. Len(old) :
               k < l /\ new[i] = old[k] /\ new[j] = old[l]
          /\ \A i \in 1 .. Len(new) : \E k \in 1 .. Len(old) : new[i] = old[k]
      <4> DEFINE kept == Younger(old, now, MessageAge)
      <4>1. old \in Seq(Message)
        BY <3>1
      <4>2. \A i, j \in 1 .. Len(kept) : i < j => \E k, l \in 1 .. Len(old) :
                 k < l /\ kept[i] = old[k] /\ kept[j] = old[l]
        BY <4>1, YoungerIs
      <4>3. \A i \in 1 .. Len(kept) : \E k \in 1 .. Len(old) :
                 kept[i] = old[k] /\ now - old[k].touched < MessageAge
        BY <4>1, YoungerIs
      <4>4. new = kept
        BY <3>1
      <4> HIDE DEF kept
      <4>5. \A i \in 1 .. Len(kept) : \E k \in 1 .. Len(old) : kept[i] = old[k]
        BY <4>3
      <4>6. \A i \in 1 .. Len(new) : \E k \in 1 .. Len(old) : new[i] = old[k]
        BY <4>4, <4>5
      <4>7. \A i, j \in 1 .. Len(new) : i < j => \E k, l \in 1 .. Len(old) :
                 k < l /\ new[i] = old[k] /\ new[j] = old[l]
        BY <4>2, <4>4
      <4> QED
        BY <4>6, <4>7
    <3>3. ListedAs(new, s, appended)
      BY <3>2, <2>1, ListedSub DEF old
    <3> QED
      BY <3>3, <2>1, <1>2, <1>3 DEF new
  <2> QED
    BY <2>2, <2>3
<1>6. Listed'
  BY <1>1, <1>5 DEF Listed
<1>7. Ids' /\ IdsInOrder'
  BY <1>1, <1>2 DEF Ledger, Ids, IdsInOrder
<1> QED
  BY <1>4, <1>6, <1>7 DEF Ledger

(* Steps that leave the storages alone leave the ledger alone. *)
LEMMA OtherLedger ==
  ASSUME Types, Ledger, ClearBegin \/ Tick \/ UNCHANGED routerVars
  PROVE  Ledger'
<1>1. /\ heap' = heap /\ put' = put /\ appended' = appended /\ restarts' = restarts
      /\ nextId' = nextId
      /\ addresses' \in {addresses, NoStorage}
      /\ now' \in Nat /\ now <= now'
  <2>1. CASE ClearBegin
    BY <2>1, TypesOf DEF ClearBegin
  <2>2. CASE Tick
    BY <2>2, TypesOf DEF Tick
  <2>3. CASE UNCHANGED routerVars
    BY <2>3, TypesOf DEF routerVars
  <2> QED
    BY <2>1, <2>2, <2>3
<1>2. Recorded'
  BY <1>1 DEF Ledger, Recorded, RecordOf, DoneAs
<1>3. Listed'
  <2>1. Storages' = Storages
    BY <1>1 DEF Storages
  <2>2. \A s \in Storages : heap[s].touched <= now'
    BY <1>1, TypesOf DEF Ledger, Listed
  <2>3. \A s \in Storages : ListedAs(heap[s].messages, s, appended)
    BY DEF Ledger, Listed
  <2> QED
    BY <1>1, <2>1, <2>2, <2>3 DEF Listed
<1>4. \A f \in Posts : put[f].pc # "unsent" => put[f].storage # NoStorage
  BY TypesOf DEF Types, Storages, NoStorage
<1>5. Ids'
  BY <1>1, <1>4 DEF Ledger, Ids
<1>6. IdsInOrder'
  BY <1>1 DEF Ledger, IdsInOrder
<1> QED
  BY <1>2, <1>3, <1>5, <1>6 DEF Ledger

(* A restart leaves it alone too, but for Puts that fail. *)
LEMMA RestartLedger ==
  ASSUME Types, Ledger, Restart
  PROVE  Ledger'
<1>1. /\ now' = now /\ heap' = heap /\ appended' = appended
      /\ restarts' = restarts + 1 /\ addresses' = NoStorage
  BY RestartEffect
<1>2. \A f \in Posts : /\ put[f].pc = "append" =>
                            put'[f] = [pc |-> "failed", storage |-> put[f].storage,
                                       id |-> put[f].id]
                       /\ put[f].pc # "append" => put'[f] = put[f]
  BY RestartEffect
<1>3. \A f \in Posts : /\ put'[f].storage = put[f].storage /\ put'[f].id = put[f].id
                       /\ put'[f].pc = "unsent" <=> put[f].pc = "unsent"
                       /\ put'[f].pc = "done" <=> put[f].pc = "done"
                       /\ put[f].pc = "done" => put'[f] = put[f]
  <2> TAKE f \in Posts
  <2>1. CASE put[f].pc = "append"
    <3>1. put'[f] = [pc |-> "failed", storage |-> put[f].storage, id |-> put[f].id]
      BY <2>1, <1>2
    <3> QED
      BY <2>1, <3>1
  <2>2. CASE put[f].pc # "append"
    <3>1. put'[f] = put[f]
      BY <2>2, <1>2
    <3> QED
      BY <3>1
  <2> QED
    BY <2>1, <2>2
<1>4. restarts \in Nat
  BY TypesOf
<1>5. Recorded'
  <2>1. ASSUME NEW k \in 1 .. Len(appended)
        PROVE  RecordOf(appended[k])'
    BY <1>1, <1>3, <1>4, EntryFacts DEF RecordOf, DoneAs
  <2> QED
    BY <2>1, <1>1, <1>3 DEF Ledger, Recorded
<1>6. Listed'
  BY <1>1 DEF Ledger, Listed, Storages
<1>7. \A f \in Posts : put[f].pc # "unsent" => put[f].storage # NoStorage
  BY TypesOf DEF Types, Storages, NoStorage
<1>8. Ids'
  BY <1>1, <1>3, <1>7 DEF Ledger, Ids
<1>9. IdsInOrder'
  BY <1>1, <1>4 DEF IdsInOrder
<1> QED
  BY <1>5, <1>6, <1>8, <1>9 DEF Ledger

(* The ledger is kept by every step. *)
LEMMA NextLedger ==
  ASSUME Types, Ledger, [Next]_vars
  PROVE  Ledger'
<1>1. ASSUME NEW p \in Polls, PollStep(p)
      PROVE  UNCHANGED routerVars
  BY <1>1, CheckFlagEffect, BeginPollEffect, LookUpEffect, ReadEffect, LosePollEffect,
     TakeAnswerEffect, EndPollEffect DEF PollStep
<1>2. ASSUME NEW p \in Polls, PollStep(p)
      PROVE  Ledger'
  BY <1>1, <1>2, OtherLedger
<1>3. ASSUME NEW f \in Posts, PutBegin(f) \/ PutEnd(f)
      PROVE  Ledger'
  BY <1>3, PutBeginLedger, PutEndLedger
<1>4. ASSUME ClearBegin \/ Tick
      PROVE  Ledger'
  BY <1>4, OtherLedger
<1>5. ASSUME RouterNext
      PROVE  Ledger'
  BY <1>3, <1>4, <1>5, ClearEndLedger DEF RouterNext
<1>6. ASSUME UNCHANGED vars
      PROVE  Ledger'
  BY <1>6, OtherLedger DEF vars
<1> QED
  BY <1>2, <1>5, <1>6, RestartLedger DEF Next

(* What is known of a message in a storage. *)
LEMMA HeapFacts ==
  ASSUME Types, Ledger, NEW s \in Storages, NEW i \in 1 .. Len(heap[s].messages)
  PROVE  /\ \E k \in 1 .. Len(appended) : At(appended, k, heap[s].messages[i], s)
         /\ heap[s].messages[i].post \in Posts
         /\ heap[s].messages[i].id \in Nat /\ heap[s].messages[i].touched \in Nat
         /\ heap[s].messages[i].size \in Nat
         /\ heap[s].messages[i].touched <= now
         /\ put[heap[s].messages[i].post].pc = "done"
         /\ put[heap[s].messages[i].post].storage = s
         /\ put[heap[s].messages[i].post].id = heap[s].messages[i].id
<1>1. PICK k \in 1 .. Len(appended) : At(appended, k, heap[s].messages[i], s)
  BY DEF Ledger, Listed, ListedAs
<1>2. appended[k].message = heap[s].messages[i] /\ appended[k].storage = s
  BY <1>1 DEF At
<1> QED
  BY <1>1, <1>2, EntryFacts

(* Of two, the first came first. *)
LEMMA HeapOrder ==
  ASSUME Types, Ledger, NEW s \in Storages,
         NEW i \in 1 .. Len(heap[s].messages), NEW j \in 1 .. Len(heap[s].messages), i < j
  PROVE  /\ heap[s].messages[i].touched <= heap[s].messages[j].touched
         /\ heap[s].messages[i].post # heap[s].messages[j].post
         /\ heap[s].messages[i].id # heap[s].messages[j].id
         /\ \E k, l \in 1 .. Len(appended) :
              /\ k < l
              /\ At(appended, k, heap[s].messages[i], s) /\ At(appended, l, heap[s].messages[j], s)
<1>1. PICK k \in 1 .. Len(appended), l \in 1 .. Len(appended) :
              /\ k < l
              /\ At(appended, k, heap[s].messages[i], s) /\ At(appended, l, heap[s].messages[j], s)
  BY DEF Ledger, Listed, ListedAs
<1>2. /\ appended[k].message = heap[s].messages[i]
      /\ appended[l].message = heap[s].messages[j]
  BY <1>1 DEF At
<1>3. /\ appended[k].message.touched <= appended[l].message.touched
      /\ appended[k].message.post # appended[l].message.post
  BY <1>1 DEF Ledger, Recorded
<1> DEFINE f == heap[s].messages[i].post
<1> DEFINE g == heap[s].messages[j].post
<1>4. /\ f \in Posts /\ put[f].pc = "done" /\ put[f].storage = s
      /\ put[f].id = heap[s].messages[i].id
      /\ g \in Posts /\ put[g].pc = "done" /\ put[g].storage = s
      /\ put[g].id = heap[s].messages[j].id
  BY HeapFacts
<1>5. f # g
  BY <1>2, <1>3
<1> HIDE DEF f, g
<1>6. put[f].id # put[g].id
  BY <1>4, <1>5 DEF Ledger, Ids
<1> QED
  BY <1>1, <1>2, <1>3, <1>4, <1>5, <1>6 DEF f, g

-----------------------------------------------------------------------------
(* Why young messages are kept: a young message that was pushed out left a *)
(* full storage of messages that are younger still, so that no clearing    *)
(* can make room in it before the message is old.                          *)
Holds(messages, m) ==
  \/ \E i \in 1 .. Len(messages) : messages[i] = m
  \/ /\ Len(messages) = MaxMessages
     /\ \A i \in 1 .. Len(messages) : messages[i].touched >= m.touched

Young(a) == a.router = restarts /\ a.reachable /\ now - a.message.touched < MessageAge

KeptAt(a) == Young(a) => addresses = a.storage /\ Holds(heap[a.storage].messages, a.message)

AllKept == \A k \in 1 .. Len(appended) : KeptAt(appended[k])

(* A Put that begins finds the storage of every young message. *)
LEMMA PutBeginKept ==
  ASSUME Types, Ledger, AllKept, NEW f \in Posts, PutBegin(f)
  PROVE  AllKept'
<1>1. now' = now /\ restarts' = restarts /\ appended' = appended
  BY PutBeginEffect
<1>2. addresses # NoStorage => heap' = heap /\ addresses' = addresses
  BY PutBeginEffect
<1>3. ASSUME NEW k \in 1 .. Len(appended), Young(appended[k])
      PROVE  addresses' = appended[k].storage /\ Holds(heap'[appended[k].storage].messages, appended[k].message)
  <2>1. /\ addresses = appended[k].storage
        /\ Holds(heap[appended[k].storage].messages, appended[k].message)
    BY <1>3 DEF AllKept, KeptAt
  <2>2. addresses # NoStorage
    BY <2>1, EntryFacts, TypesOf DEF Storages, NoStorage
  <2> QED
    BY <2>1, <2>2, <1>2
<1>4. \A k \in 1 .. Len(appended) : Young(appended[k])' => Young(appended[k])
  BY <1>1 DEF Young
<1> QED
  BY <1>1, <1>3, <1>4 DEF AllKept, KeptAt

(* Storage.Put keeps the young ones, or leaves the storage full. *)
LEMMA HoldsAppended ==
  ASSUME NEW old \in Seq(Message), Len(old) <= MaxMessages, Len(old) \in Nat,
         NEW m \in Message, NEW n \in Message, n.touched <= m.touched, Holds(old, n),
         \A i \in 1 .. Len(old) : old[i].touched \in Nat /\ old[i].touched <= m.touched,
         \A i, j \in 1 .. Len(old) : i < j => old[i].touched <= old[j].touched
  PROVE  Holds(Appended(old, m), n)
<1> DEFINE new == Appended(old, m)
<1>1. PICK d \in {0, 1} :
        /\ Len(new) = Len(old) + 1 - d
        /\ d = 1 => Len(new) = MaxMessages
        /\ Len(new) >= 1
        /\ new[Len(new)] = m
        /\ \A i \in 1 .. Len(old) - d : new[i] = old[i + d]
  BY AppendedIs
<1>2. Len(new) <= MaxMessages
  BY AppendedIs
<1> HIDE DEF new
<1>3. m.touched \in Nat /\ n.touched \in Nat
  BY DEF Message
<1>4. \A i \in 1 .. Len(new) : i = Len(new) \/ (i + d \in 1 .. Len(old) /\ new[i] = old[i + d])
  <2> TAKE i \in 1 .. Len(new)
  <2>1. i = Len(new) \/ (i \in 1 .. Len(old) - d /\ i + d \in 1 .. Len(old))
    BY <1>1
  <2> QED
    BY <2>1, <1>1
<1>5. CASE \E i \in 1 .. Len(old) : old[i] = n
  <2>1. PICK i \in 1 .. Len(old) : old[i] = n
    BY <1>5
  <2>2. CASE i - d >= 1
    <3>1. i - d \in 1 .. Len(old) - d /\ i - d \in 1 .. Len(new) /\ (i - d) + d = i
      BY <2>2, <1>1
    <3>2. new[i - d] = n
      BY <3>1, <2>1, <1>1
    <3> QED
      BY <3>1, <3>2 DEF Holds, new
  <2>3. CASE ~(i - d >= 1)
    <3>1. d = 1 /\ i = 1
      BY <2>3
    <3>2. ASSUME NEW j \in 1 .. Len(new)
          PROVE  new[j].touched >= n.touched
      <4>1. CASE j = Len(new)
        BY <4>1, <1>1, <1>3
      <4>2. CASE j # Len(new)
        <5>1. j + 1 \in 1 .. Len(old) /\ new[j] = old[j + 1]
          BY <4>2, <3>1, <1>4
        <5>2. 1 < j + 1 /\ 1 \in 1 .. Len(old)
          BY <2>1, <3>1
        <5>3. old[1].touched <= old[j + 1].touched
          BY <5>1, <5>2
        <5>4. old[j + 1].touched \in Nat /\ n.touched = old[1].touched
          BY <5>1, <2>1, <3>1
        <5> QED
          BY <5>1, <5>3, <5>4, <1>3
      <4> QED
        BY <4>1, <4>2
    <3> QED
      BY <3>1, <3>2, <1>1 DEF Holds, new
  <2> QED
    BY <2>2, <2>3
<1>6. CASE /\ Len(old) = MaxMessages
           /\ \A i \in 1 .. Len(old) : old[i].touched >= n.touched
  <2>1. Len(new) = MaxMessages
    BY <1>1, <1>2, <1>6
  <2>2. \A j \in 1 .. Len(new) : new[j].touched >= n.touched
    <3> TAKE j \in 1 .. Len(new)
    <3>1. CASE j = Len(new)
      BY <3>1, <1>1, <1>3
    <3>2. CASE j # Len(new)
      BY <3>2, <1>4, <1>6
    <3> QED
      BY <3>1, <3>2
  <2> QED
    BY <2>1, <2>2 DEF Holds, new
<1> QED
  BY <1>5, <1>6 DEF Holds

(* A Put that ends pushes out the oldest message of a full storage, and    *)
(* leaves it full of messages that are no older.                           *)
LEMMA PutEndKept ==
  ASSUME Types, Ledger, AllKept, NEW f \in Posts, PutEnd(f)
  PROVE  AllKept'
<1> DEFINE s == put[f].storage
<1> DEFINE n == Len(appended)
<1>1. /\ s \in Storages
      /\ Sent(f) \in Message
      /\ heap'[s].messages = Appended(heap[s].messages, Sent(f))
      /\ \A r \in Storages : r # s => heap'[r] = heap[r]
  BY PutEndEffect
<1>2. /\ Len(appended') = n + 1
      /\ appended'[n + 1] = SentEntry(f)
      /\ \A k \in 1 .. n : appended'[k] = appended[k]
  BY PutEndEffect
<1>3. now' = now /\ addresses' = addresses /\ restarts' = restarts
  BY PutEndEffect
<1>4. n \in Nat /\ now \in Nat
  BY TypesOf
<1>5. /\ SentEntry(f).message = Sent(f) /\ SentEntry(f).storage = s
      /\ SentEntry(f).reachable = (s = addresses)
      /\ Sent(f).touched = now
  BY DEF SentEntry, Sent
<1>6. heap[s].messages \in Seq(Message) /\ Len(heap[s].messages) <= MaxMessages
      /\ Len(heap[s].messages) \in Nat
  BY <1>1, TypesOf
<1> HIDE DEF s
<1>7. ASSUME NEW k \in 1 .. n, Young(appended[k])
      PROVE  /\ addresses = appended[k].storage
             /\ Holds(heap'[appended[k].storage].messages, appended[k].message)
  <2> DEFINE a == appended[k]
  <2>1. addresses = a.storage /\ Holds(heap[a.storage].messages, a.message)
    BY <1>7 DEF AllKept, KeptAt
  <2>2. a.storage \in Storages /\ a.message \in Message /\ a.message.touched <= now
    BY EntryFacts
  <2> HIDE DEF a
  <2>3. CASE a.storage # s
    BY <2>1, <2>2, <2>3, <1>1 DEF a
  <2>4. CASE a.storage = s
    <3> DEFINE old == heap[s].messages
    <3>1. \A i \in 1 .. Len(old) : old[i].touched \in Nat /\ old[i].touched <= Sent(f).touched
      BY <1>1, <1>5, HeapFacts
    <3>2. \A i, j \in 1 .. Len(old) : i < j => old[i].touched <= old[j].touched
      BY <1>1, HeapOrder
    <3>3. Holds(old, a.message)
      BY <2>1, <2>4
    <3>4. old \in Seq(Message) /\ Len(old) <= MaxMessages /\ Len(old) \in Nat
      BY <1>6
    <3>5. Sent(f) \in Message /\ a.message.touched <= Sent(f).touched
      BY <2>2, <1>1, <1>5
    <3> HIDE DEF old
    <3>6. Holds(Appended(old, Sent(f)), a.message)
      BY <2>2, <3>1, <3>2, <3>3, <3>4, <3>5, HoldsAppended
    <3> QED
      BY <3>6, <2>1, <2>4, <1>1 DEF old, a
  <2> QED
    BY <2>3, <2>4
<1>8. ASSUME Young(SentEntry(f))
      PROVE  addresses = s /\ Holds(heap'[s].messages, Sent(f))
  <2>1. addresses = s
    BY <1>8, <1>5 DEF Young
  <2> DEFINE new == Appended(heap[s].messages, Sent(f))
  <2>2. new \in Seq(Message) /\ Len(new) >= 1 /\ new[Len(new)] = Sent(f)
    BY <1>1, <1>6, AppendedIs
  <2> HIDE DEF new
  <2>3. Len(new) \in 1 .. Len(new)
    BY <2>2
  <2>4. Holds(new, Sent(f))
    BY <2>2, <2>3 DEF Holds
  <2> QED
    BY <2>1, <2>4, <1>1 DEF new
<1> HIDE DEF n
<1>9. ASSUME NEW k \in 1 .. n + 1
      PROVE  KeptAt(appended[k])'
  <2>1. CASE k = n + 1
    <3>1. appended'[k] = SentEntry(f)
      BY <2>1, <1>2
    <3>2. Young(appended[k])' => Young(SentEntry(f))
      BY <3>1, <1>3 DEF Young
    <3> QED
      BY <3>1, <3>2, <1>3, <1>5, <1>8 DEF KeptAt
  <2>2. CASE k \in 1 .. n
    <3>1. appended'[k] = appended[k]
      BY <2>2, <1>2
    <3>2. Young(appended[k])' => Young(appended[k])
      BY <3>1, <1>3 DEF Young
    <3> QED
      BY <2>2, <3>1, <3>2, <1>3, <1>7 DEF KeptAt
  <2> QED
    BY <2>1, <2>2, <1>4
<1> QED
  BY <1>2, <1>9 DEF AllKept

(* A clearing leaves the young ones. *)
LEMMA HoldsYounger ==
  ASSUME NEW old \in Seq(Message), NEW time \in Nat, NEW m, time - m.touched < MessageAge,
         m.touched \in Nat, Holds(old, m)
  PROVE  Holds(Younger(old, time, MessageAge), m)
<1> DEFINE new == Younger(old, time, MessageAge)
<1>1. \A k \in 1 .. Len(old) : time - old[k].touched < MessageAge =>
        \E i \in 1 .. Len(new) : new[i] = old[k]
  BY YoungerIs
<1>2. (\A k \in 1 .. Len(old) : time - old[k].touched < MessageAge) => Len(new) = Len(old)
  BY YoungerIs
<1>3. \A i \in 1 .. Len(new) : \E k \in 1 .. Len(old) :
        new[i] = old[k] /\ time - old[k].touched < MessageAge
  BY YoungerIs
<1> HIDE DEF new
<1>4. \A k \in 1 .. Len(old) : old[k].touched \in Nat
  <2>1. \A k \in 1 .. Len(old) : old[k] \in Message
    OBVIOUS
  <2> QED
    BY <2>1 DEF Message
<1>5. CASE \E i \in 1 .. Len(old) : old[i] = m
  BY <1>1, <1>5 DEF Holds, new
<1>6. CASE /\ Len(old) = MaxMessages
           /\ \A i \in 1 .. Len(old) : old[i].touched >= m.touched
  <2>1. \A k \in 1 .. Len(old) : time - old[k].touched < MessageAge
    BY <1>4, <1>6, StorageAssumption
  <2> QED
    BY <2>1, <1>2, <1>3, <1>6 DEF Holds, new
<1> QED
  BY <1>5, <1>6 DEF Holds

(* A clearing keeps every young message that was held. *)
LEMMA ClearEndKept ==
  ASSUME Types, Ledger, AllKept, ClearEnd
  PROVE  AllKept'
<1>1. /\ clearing \in Storages
      /\ heap'[clearing].messages = Younger(heap[clearing].messages, now, MessageAge)
      /\ \A s \in Storages : s # clearing => heap'[s] = heap[s]
  BY ClearEndEffect
<1>2. now' = now /\ addresses' = addresses /\ restarts' = restarts /\ appended' = appended
  BY ClearEndEffect
<1>3. ASSUME NEW k \in 1 .. Len(appended), Young(appended[k])
      PROVE  /\ addresses = appended[k].storage
             /\ Holds(heap'[appended[k].storage].messages, appended[k].message)
  <2> DEFINE a == appended[k]
  <2>1. addresses = a.storage /\ Holds(heap[a.storage].messages, a.message)
    BY <1>3 DEF AllKept, KeptAt
  <2>2. a.storage \in Storages /\ a.message.touched \in Nat
    BY EntryFacts
  <2>3. now - a.message.touched < MessageAge
    BY <1>3 DEF Young
  <2> HIDE DEF a
  <2>4. CASE a.storage # clearing
    BY <2>1, <2>2, <2>4, <1>1 DEF a
  <2>5. CASE a.storage = clearing
    <3>1. heap[clearing].messages \in Seq(Message) /\ now \in Nat
      BY <1>1, TypesOf
    <3>2. Holds(heap[clearing].messages, a.message)
      BY <2>1, <2>5
    <3>3. Holds(Younger(heap[clearing].messages, now, MessageAge), a.message)
      BY <2>2, <2>3, <3>1, <3>2, HoldsYounger
    <3> QED
      BY <3>3, <2>1, <2>5, <1>1 DEF a
  <2> QED
    BY <2>4, <2>5
<1>4. \A k \in 1 .. Len(appended) : Young(appended[k])' => Young(appended[k])
  BY <1>2 DEF Young
<1> QED
  BY <1>2, <1>3, <1>4 DEF AllKept, KeptAt

(* A storage is forgotten only when none of its messages is young. *)
LEMMA OtherKept ==
  ASSUME Types, Ledger, AllKept, ClearBegin \/ Tick \/ UNCHANGED routerVars
  PROVE  AllKept'
<1>1. heap' = heap /\ appended' = appended /\ restarts' = restarts /\ now' \in Nat /\ now <= now'
  <2>1. CASE ClearBegin
    BY <2>1, TypesOf DEF ClearBegin
  <2>2. CASE Tick
    BY <2>2, TypesOf DEF Tick
  <2>3. CASE UNCHANGED routerVars
    BY <2>3, TypesOf DEF routerVars
  <2> QED
    BY <2>1, <2>2, <2>3
<1>2. \/ addresses' = addresses
      \/ now' = now /\ addresses # NoStorage /\ Idle(addresses)
  BY DEF ClearBegin, Tick, routerVars
<1>3. ASSUME NEW k \in 1 .. Len(appended), Young(appended[k])'
      PROVE  /\ addresses' = appended[k].storage
             /\ Holds(heap[appended[k].storage].messages, appended[k].message)
  <2> DEFINE a == appended[k]
  <2>1. /\ a.storage \in Storages /\ a.message.touched \in Nat
        /\ a.message.touched <= heap[a.storage].touched
    BY EntryFacts
  <2>2. /\ heap[a.storage].touched \in Nat /\ now \in Nat /\ MessageAge \in Nat
        /\ StorageIdle \in Nat /\ StorageIdle >= MessageAge
    BY <2>1, TypesOf, StorageAssumption, RouterAssumption
  <2>3. /\ a.router = restarts /\ a.reachable
        /\ now' - a.message.touched < MessageAge
    BY <1>1, <1>3 DEF Young
  <2> HIDE DEF a
  <2>4. now - a.message.touched < MessageAge
    BY <2>1, <2>2, <2>3, <1>1
  <2>5. addresses = a.storage /\ Holds(heap[a.storage].messages, a.message)
    BY <2>3, <2>4 DEF AllKept, KeptAt, Young, a
  <2>6. ~Idle(addresses)
    BY <2>1, <2>2, <2>4, <2>5 DEF Idle
  <2> QED
    BY <2>5, <2>6, <1>2 DEF a
<1> QED
  BY <1>1, <1>3 DEF AllKept, KeptAt

(* After a restart no message is of this router. *)
LEMMA RestartKept ==
  ASSUME Types, Ledger, AllKept, Restart
  PROVE  AllKept'
<1>1. restarts' = restarts + 1 /\ appended' = appended /\ restarts \in Nat
  BY RestartEffect, TypesOf
<1>2. ASSUME NEW k \in 1 .. Len(appended)
      PROVE  ~Young(appended[k])'
  <2>1. appended[k].router <= restarts /\ appended[k].router \in Nat
    BY EntryFacts DEF RecordOf
  <2> QED
    BY <2>1, <1>1 DEF Young
<1> QED
  BY <1>1, <1>2 DEF AllKept, KeptAt

(* YoungKept holds in every state: what Put appended to the storage of the *)
(* address is there for MessageAge, unless the storage is full.            *)
THEOREM YoungAlwaysKept == Spec => []YoungKept
<1> DEFINE Inv == Types /\ Ledger /\ AllKept
<1>1. Init => Inv
  <2> SUFFICES ASSUME Init PROVE Inv
    OBVIOUS
  <2>1. Len(appended) = 0
    BY DEF Init, RouterInit
  <2>2. AllKept
    BY <2>1 DEF AllKept
  <2> QED
    BY <2>2, InitTypes, InitLedger
<1>2. Inv /\ [Next]_vars => Inv'
  <2> SUFFICES ASSUME Types, Ledger, AllKept, [Next]_vars PROVE AllKept'
    BY NextTypes, NextLedger
  <2>1. ASSUME NEW p \in Polls, PollStep(p)
        PROVE  AllKept'
    <3>1. UNCHANGED routerVars
      BY <2>1, CheckFlagEffect, BeginPollEffect, LookUpEffect, ReadEffect, LosePollEffect,
         TakeAnswerEffect, EndPollEffect DEF PollStep
    <3> QED
      BY <3>1, OtherKept
  <2>2. ASSUME NEW f \in Posts, PutBegin(f) \/ PutEnd(f)
        PROVE  AllKept'
    BY <2>2, PutBeginKept, PutEndKept
  <2>3. ASSUME ClearBegin \/ Tick
        PROVE  AllKept'
    BY <2>3, OtherKept
  <2>4. ASSUME RouterNext
        PROVE  AllKept'
    BY <2>2, <2>3, <2>4, ClearEndKept DEF RouterNext
  <2>5. ASSUME UNCHANGED vars
        PROVE  AllKept'
    BY <2>5, OtherKept DEF vars
  <2> QED
    BY <2>1, <2>4, <2>5, RestartKept DEF Next
<1>3. Inv => YoungKept
  <2> SUFFICES ASSUME Types, AllKept, NEW a \in ToSet(appended), Young(a)
               PROVE  /\ addresses = a.storage
                      /\ \/ a.message \in ToSet(heap[addresses].messages)
                         \/ Len(heap[addresses].messages) = MaxMessages
    BY DEF YoungKept, Young
  <2>1. PICK k \in 1 .. Len(appended) : a = appended[k]
    BY TypesOf DEF ToSet
  <2>2. addresses = a.storage /\ Holds(heap[addresses].messages, a.message)
    BY <2>1 DEF AllKept, KeptAt
  <2>3. a.storage \in Storages
    <3>1. appended[k] \in Entry
      BY TypesOf
    <3> QED
      BY <2>1, <3>1 DEF Entry
  <2>4. heap[addresses].messages \in Seq(Message)
    BY <2>2, <2>3, TypesOf
  <2>5. DOMAIN heap[addresses].messages = 1 .. Len(heap[addresses].messages)
    BY <2>4
  <2> QED
    BY <2>2, <2>5 DEF Holds, ToSet
<1> QED
  BY <1>1, <1>2, <1>3, PTL DEF Spec

-----------------------------------------------------------------------------
(* Why nothing is repeated, as long as no two polls overlap and no two     *)
(* Puts cross: the ids of a storage then increase, what was handed over    *)
(* lies at or before the cursor, and the cursor does not lie behind the    *)
(* last message, where GetMessage would start over.                        *)
Increasing(messages) ==
  \A i, j \in 1 .. Len(messages) : i < j => messages[i].id < messages[j].id

SettledIn(messages, c, H) ==
  \A i \in 1 .. Len(messages) : messages[i].post \in H =>
    messages[i].id <= c /\ c <= messages[Len(messages)].id

Fresh(messages, H) == \A i \in 1 .. Len(messages) : messages[i].post \notin H

NoCrossing(log) ==
  \A k, l \in 1 .. Len(log) : k < l /\ log[k].storage = log[l].storage =>
    log[k].message.id <= log[l].message.id

(* Without a crossing the ids of a storage increase. *)
LEMMA HeapIncreasing ==
  ASSUME Types, Ledger, NoCrossing(appended), NEW s \in Storages
  PROVE  Increasing(heap[s].messages)
<1> SUFFICES ASSUME NEW i \in 1 .. Len(heap[s].messages),
                    NEW j \in 1 .. Len(heap[s].messages), i < j
             PROVE  heap[s].messages[i].id < heap[s].messages[j].id
  BY DEF Increasing
<1>1. heap[s].messages[i].id # heap[s].messages[j].id
  BY HeapOrder
<1>2. PICK k \in 1 .. Len(appended), l \in 1 .. Len(appended) :
              /\ k < l
              /\ At(appended, k, heap[s].messages[i], s) /\ At(appended, l, heap[s].messages[j], s)
  BY HeapOrder
<1>3. appended[k].message.id <= appended[l].message.id
  BY <1>2 DEF NoCrossing, At
<1>4. heap[s].messages[i].id \in Nat /\ heap[s].messages[j].id \in Nat
  BY HeapFacts
<1> QED
  BY <1>1, <1>2, <1>3, <1>4 DEF At

(* In a list whose ids increase the last one is the greatest. *)
LEMMA LastIsGreatest ==
  ASSUME NEW messages \in Seq(Message), Increasing(messages), NEW i \in 1 .. Len(messages)
  PROVE  /\ Len(messages) \in 1 .. Len(messages)
         /\ messages[i].id \in Nat /\ messages[Len(messages)].id \in Nat
         /\ messages[i].id <= messages[Len(messages)].id
<1> DEFINE n == Len(messages)
<1>1. n \in 1 .. n
  OBVIOUS
<1>2. \A k \in 1 .. n : messages[k] \in Message
  OBVIOUS
<1>3. messages[i].id \in Nat /\ messages[n].id \in Nat
  BY <1>1, <1>2 DEF Message
<1>4. \A k, l \in 1 .. n : k < l => messages[k].id < messages[l].id
  BY DEF Increasing
<1>5. i \in 1 .. n
  OBVIOUS
<1> HIDE DEF n
<1>6. i = n \/ i < n
  BY <1>1, <1>5
<1>7. messages[i].id <= messages[n].id
  BY <1>1, <1>3, <1>4, <1>5, <1>6
<1> QED
  BY <1>1, <1>3, <1>7 DEF n

(* A message that is new and has a greater id unsettles nothing. *)
LEMMA SettledAppended ==
  ASSUME NEW old \in Seq(Message), Len(old) <= MaxMessages, NEW m \in Message,
         NEW c \in Nat, NEW H, m.post \notin H,
         Increasing(old), \A i \in 1 .. Len(old) : old[i].id < m.id
  PROVE  /\ SettledIn(old, c, H) => SettledIn(Appended(old, m), c, H)
         /\ Fresh(old, H) => Fresh(Appended(old, m), H)
<1> DEFINE new == Appended(old, m)
<1>1. PICK d \in {0, 1} :
        /\ Len(new) = Len(old) + 1 - d
        /\ Len(new) >= 1
        /\ new[Len(new)] = m
        /\ \A i \in 1 .. Len(old) - d : new[i] = old[i + d]
  BY AppendedIs
<1> HIDE DEF new
<1>2. m.id \in Nat /\ Len(old) \in Nat
  BY DEF Message
<1>3. \A i \in 1 .. Len(new) : i = Len(new) \/ (i + d \in 1 .. Len(old) /\ new[i] = old[i + d])
  <2> TAKE i \in 1 .. Len(new)
  <2>1. i = Len(new) \/ (i \in 1 .. Len(old) - d /\ i + d \in 1 .. Len(old))
    BY <1>1, <1>2
  <2> QED
    BY <2>1, <1>1
<1>4. ASSUME SettledIn(old, c, H), NEW i \in 1 .. Len(new), new[i].post \in H
      PROVE  new[i].id <= c /\ c <= new[Len(new)].id
  <2>1. i + d \in 1 .. Len(old) /\ new[i] = old[i + d]
    BY <1>1, <1>3, <1>4
  <2>2. old[i + d].id <= c /\ c <= old[Len(old)].id
    BY <2>1, <1>4 DEF SettledIn
  <2>3. Len(old) \in 1 .. Len(old) /\ old[Len(old)].id \in Nat
    BY <2>1, LastIsGreatest
  <2>4. old[Len(old)].id < m.id
    BY <2>3
  <2>5. c <= m.id
    BY <2>2, <2>3, <2>4, <1>2
  <2> QED
    BY <2>1, <2>2, <2>5, <1>1
<1>5. ASSUME Fresh(old, H), NEW i \in 1 .. Len(new)
      PROVE  new[i].post \notin H
  BY <1>1, <1>3, <1>5 DEF Fresh
<1> QED
  BY <1>4, <1>5 DEF SettledIn, Fresh, new

(* Nor does a clearing: if a message that was handed over is left, so is   *)
(* the last one, which is younger.                                         *)
LEMMA SettledYounger ==
  ASSUME NEW old \in Seq(Message), NEW time \in Nat, NEW c \in Nat, NEW H, Increasing(old),
         \A i, j \in 1 .. Len(old) : i < j => old[i].touched <= old[j].touched
  PROVE  /\ SettledIn(old, c, H) => SettledIn(Younger(old, time, MessageAge), c, H)
         /\ Fresh(old, H) => Fresh(Younger(old, time, MessageAge), H)
<1> DEFINE new == Younger(old, time, MessageAge)
<1>1. \A k \in 1 .. Len(old) : time - old[k].touched < MessageAge =>
        \E i \in 1 .. Len(new) : new[i] = old[k]
  BY YoungerIs
<1>2. \A i \in 1 .. Len(new) : \E k \in 1 .. Len(old) :
        new[i] = old[k] /\ time - old[k].touched < MessageAge
  BY YoungerIs
<1>3. \A i, j \in 1 .. Len(new) : i < j =>
        \E k, l \in 1 .. Len(old) : k < l /\ new[i] = old[k] /\ new[j] = old[l]
  BY YoungerIs
<1>4. new \in Seq(Message)
  BY YoungerIs
<1> HIDE DEF new
<1>5. Increasing(new)
  BY <1>3 DEF Increasing
<1>6. \A k \in 1 .. Len(old) : old[k].touched \in Nat /\ old[k].id \in Nat
  <2>1. \A k \in 1 .. Len(old) : old[k] \in Message
    OBVIOUS
  <2> QED
    BY <2>1 DEF Message
<1>7. ASSUME SettledIn(old, c, H), NEW i \in 1 .. Len(new), new[i].post \in H
      PROVE  new[i].id <= c /\ c <= new[Len(new)].id
  <2>1. PICK k \in 1 .. Len(old) : new[i] = old[k] /\ time - old[k].touched < MessageAge
    BY <1>2
  <2>2. old[k].id <= c /\ c <= old[Len(old)].id
    BY <2>1, <1>7 DEF SettledIn
  <2> DEFINE n == Len(old)
  <2>3. n \in 1 .. n /\ k \in 1 .. n
    OBVIOUS
  <2>4. k = n \/ k < n
    BY <2>3
  <2> HIDE DEF n
  <2>5. k = n \/ old[k].touched <= old[n].touched
    BY <2>3, <2>4 DEF n
  <2>6. old[n].touched \in Nat /\ old[k].touched \in Nat
    BY <2>3, <1>6 DEF n
  <2>7. time - old[n].touched < MessageAge
    BY <2>1, <2>5, <2>6, StorageAssumption
  <2>8. PICK j \in 1 .. Len(new) : new[j] = old[n]
    BY <2>3, <2>7, <1>1 DEF n
  <2>9. /\ new[j].id \in Nat /\ new[Len(new)].id \in Nat
        /\ new[j].id <= new[Len(new)].id
    BY <1>4, <1>5, LastIsGreatest
  <2> QED
    BY <2>1, <2>2, <2>8, <2>9 DEF n
<1>8. ASSUME Fresh(old, H), NEW i \in 1 .. Len(new)
      PROVE  new[i].post \notin H
  BY <1>2, <1>8 DEF Fresh
<1> QED
  BY <1>7, <1>8 DEF SettledIn, Fresh, new

(* An answer to a cursor that is settled repeats nothing and settles what  *)
(* it sends.                                                               *)
LEMMA SettledAnswer ==
  ASSUME NEW messages \in Seq(Message), NEW c \in Nat, NEW H, Increasing(messages),
         \A i, j \in 1 .. Len(messages) : i < j => messages[i].post # messages[j].post,
         SettledIn(messages, c, H)
  PROVE  /\ \A x \in GetMessage(messages, c).sent : x.post \notin H
         /\ SettledIn(messages, GetMessage(messages, c).lastId,
                      H \cup {x.post : x \in GetMessage(messages, c).sent})
<1> DEFINE G == GetMessage(messages, c)
<1>1. \A x \in G.sent : \E i \in 1 .. Len(messages) :
        x = messages[i] /\ (messages[i].id > c \/ c > messages[Len(messages)].id)
  BY GetMessageType
<1>2. /\ G.sent = {} => G.lastId = c
      /\ G.sent # {} => \E k \in 1 .. Len(messages) :
           /\ messages[k] \in G.sent
           /\ G.lastId = messages[k].id
           /\ \A x \in G.sent : \E i \in 1 .. k : x = messages[i]
  <2>1. \A i, j \in 1 .. Len(messages) : i < j => messages[i].id < messages[j].id
    BY DEF Increasing
  <2> QED
    BY <2>1, GetMessageInOrder
<1> HIDE DEF G
<1>3. \A i \in 1 .. Len(messages) :
        /\ messages[i].id \in Nat /\ messages[Len(messages)].id \in Nat
        /\ messages[i].id <= messages[Len(messages)].id
  BY LastIsGreatest
<1>4. ASSUME NEW x \in G.sent
      PROVE  x.post \notin H
  <2>1. PICK i \in 1 .. Len(messages) :
          x = messages[i] /\ (messages[i].id > c \/ c > messages[Len(messages)].id)
    BY <1>1
  <2>2. messages[i].post \in H => messages[i].id <= c /\ c <= messages[Len(messages)].id
    BY DEF SettledIn
  <2> QED
    BY <2>1, <2>2, <1>3
<1>5. ASSUME NEW i \in 1 .. Len(messages),
             messages[i].post \in H \cup {x.post : x \in G.sent}
      PROVE  messages[i].id <= G.lastId /\ G.lastId <= messages[Len(messages)].id
  <2>1. CASE G.sent = {}
    BY <2>1, <1>2, <1>5 DEF SettledIn
  <2>2. CASE G.sent # {}
    <3>1. PICK k \in 1 .. Len(messages) :
           /\ messages[k] \in G.sent
           /\ G.lastId = messages[k].id
           /\ \A x \in G.sent : \E j \in 1 .. k : x = messages[j]
      BY <2>2, <1>2
    <3>2. G.lastId <= messages[Len(messages)].id /\ G.lastId \in Nat
      BY <3>1, <1>3
    <3>3. CASE messages[i].post \in H
      <4>1. messages[i].id <= c /\ c <= messages[Len(messages)].id
        BY <3>3 DEF SettledIn
      <4>2. messages[k].id > c \/ c > messages[Len(messages)].id
        <5>1. PICK j \in 1 .. Len(messages) :
          messages[k] = messages[j] /\ (messages[j].id > c \/ c > messages[Len(messages)].id)
          BY <3>1, <1>1
        <5> QED
          BY <5>1
      <4> QED
        BY <4>1, <4>2, <3>1, <3>2, <1>3
    <3>4. CASE messages[i].post \notin H
      <4>1. PICK x \in G.sent : messages[i].post = x.post
        BY <3>4, <1>5
      <4>2. PICK j \in 1 .. k : x = messages[j]
        BY <3>1
      <4>3. j \in 1 .. Len(messages) /\ messages[i].post = messages[j].post
        BY <4>1, <4>2
      <4>4. i = j
        <5>1. ~(i < j) /\ ~(j < i)
          BY <4>3
        <5> QED
          BY <4>3, <5>1
      <4>5. j = k \/ j < k
        BY <4>2
      <4>6. messages[i].id <= messages[k].id
        <5>1. j < k => messages[j].id < messages[k].id
          BY <4>3, <3>1 DEF Increasing
        <5> QED
          BY <4>4, <4>5, <5>1, <1>3
      <4> QED
        BY <4>6, <3>1, <3>2
    <3> QED
      BY <3>3, <3>4
  <2> QED
    BY <2>1, <2>2
<1> QED
  BY <1>4, <1>5 DEF SettledIn, G

(* What was handed over, and how the storage of the address lies to it. *)
HandedOver == {f \in Posts : handed[f] > 0}

SettledHere(c, H) == addresses # NoStorage => SettledIn(heap[addresses].messages, c, H)

OnceOf(p) ==
  /\ poll[p].pc \in {"request", "read"} => poll[p].after = lastReceivedMessageId
  /\ poll[p].pc = "read" =>
       /\ SettledIn(heap[poll[p].storage].messages, lastReceivedMessageId, HandedOver)
       /\ poll[p].storage # addresses /\ addresses # NoStorage =>
            Fresh(heap[addresses].messages, HandedOver)
  /\ poll[p].pc = "answer" =>
       /\ \A f \in poll[p].batch : handed[f] = 0 /\ put[f].pc = "done"
       /\ SettledHere(poll[p].last, HandedOver \cup poll[p].batch)
  /\ poll[p].pc # "answer" => poll[p].batch = {}

Once ==
  /\ \A p, q \in Polls : Active(p) /\ Active(q) => p = q
  /\ \A f \in Posts : handed[f] \in {0, 1} /\ (handed[f] = 1 => put[f].pc = "done")
  /\ SettledHere(lastReceivedMessageId, HandedOver)
  /\ \A p \in Polls : OnceOf(p)

RouterStep ==
  \/ \E f \in Posts : PutBegin(f) \/ PutEnd(f)
  \/ ClearBegin
  \/ ClearEnd
  \/ Tick
  \/ UNCHANGED routerVars

(* An entry more can only add a crossing. *)
LEMMA CrossingGrows ==
  ASSUME NEW log, NEW longer, Longer(longer, log), NoCrossing(longer)
  PROVE  NoCrossing(log)
<1>1. \A k \in 1 .. Len(log) : k \in 1 .. Len(longer) /\ longer[k] = log[k]
  BY DEF Longer
<1> QED
  BY <1>1 DEF NoCrossing

(* The router only appends to the history. *)
LEMMA NoCrossingBefore ==
  ASSUME Types, RouterStep \/ Restart, NoCrossing(appended')
  PROVE  NoCrossing(appended)
<1>1. ASSUME NEW f \in Posts, PutEnd(f)
      PROVE  NoCrossing(appended)
  <2>1. Longer(appended', appended)
    BY <1>1, PutEndEffect, TypesOf DEF Longer
  <2> QED
    BY <2>1, CrossingGrows
<1>2. ASSUME ~ \E f \in Posts : PutEnd(f)
      PROVE  appended' = appended
  BY <1>2 DEF RouterStep, PutBegin, ClearBegin, ClearEnd, Tick, routerVars, Restart, RestartRouter
<1> QED
  BY <1>1, <1>2

(* What a Put appends, when no Puts cross, has a greater id than what its  *)
(* storage holds.                                                          *)
LEMMA NewIsGreater ==
  ASSUME Types, Ledger, NEW f \in Posts, PutEnd(f), NoCrossing(appended'),
         NEW i \in 1 .. Len(heap[put[f].storage].messages)
  PROVE  heap[put[f].storage].messages[i].id < Sent(f).id
<1> DEFINE s == put[f].storage
<1> DEFINE m == heap[s].messages[i]
<1> DEFINE n == Len(appended)
<1>1. /\ put[f].pc = "append" /\ s \in Storages /\ Sent(f) \in Message
      /\ Len(appended') = n + 1
      /\ appended'[n + 1] = SentEntry(f)
      /\ \A k \in 1 .. n : appended'[k] = appended[k]
  BY PutEndEffect
<1>2. /\ m.post \in Posts /\ put[m.post].pc = "done" /\ put[m.post].storage = s
      /\ put[m.post].id = m.id /\ m.id \in Nat
      /\ \E k \in 1 .. n : At(appended, k, m, s)
  BY <1>1, HeapFacts
<1>3. m.post # f
  BY <1>1, <1>2
<1>4. m.id # put[f].id
  BY <1>1, <1>2, <1>3 DEF Ledger, Ids
<1>5. SentEntry(f).storage = s /\ SentEntry(f).message.id = put[f].id /\ Sent(f).id = put[f].id
  BY DEF SentEntry, Sent
<1>6. n \in Nat /\ Sent(f).id \in Nat
  BY <1>1, TypesOf DEF Message
<1> HIDE DEF m, s, n
<1>7. PICK k \in 1 .. n : appended[k].message = m /\ appended[k].storage = s
  BY <1>2 DEF At
<1>8. k \in 1 .. Len(appended') /\ n + 1 \in 1 .. Len(appended') /\ k < n + 1
  BY <1>1, <1>6
<1>9. appended'[k].storage = appended'[n + 1].storage
  BY <1>1, <1>5, <1>7
<1>10. appended'[k].message.id <= appended'[n + 1].message.id
  BY <1>8, <1>9 DEF NoCrossing
<1>11. appended'[k].message.id = m.id /\ appended'[n + 1].message.id = put[f].id
  BY <1>1, <1>5, <1>7
<1>12. m.id <= put[f].id
  BY <1>10, <1>11
<1>13. m.id < put[f].id
  BY <1>2, <1>4, <1>5, <1>6, <1>12
<1> QED
  BY <1>5, <1>13 DEF m, s

(* No step of the router unsettles a storage, for any cursor and any set   *)
(* of frames that were put.                                                *)
LEMMA RouterSettles ==
  ASSUME Types, Ledger, RouterStep, NoCrossing(appended'),
         NEW c \in Nat, NEW H \in SUBSET Posts, \A f \in H : put[f].pc = "done"
  PROVE  /\ \A s \in Storages :
              /\ SettledIn(heap[s].messages, c, H) => SettledIn(heap'[s].messages, c, H)
              /\ Fresh(heap[s].messages, H) => Fresh(heap'[s].messages, H)
         /\ \/ addresses' = addresses
            \/ addresses' = NoStorage
            \/ addresses' \notin Storages /\ heap'[addresses'].messages = <<>>
         /\ \A f \in H : put'[f].pc = "done"
<1> DEFINE Goal ==
         /\ \A s \in Storages :
              /\ SettledIn(heap[s].messages, c, H) => SettledIn(heap'[s].messages, c, H)
              /\ Fresh(heap[s].messages, H) => Fresh(heap'[s].messages, H)
         /\ \/ addresses' = addresses
            \/ addresses' = NoStorage
            \/ addresses' \notin Storages /\ heap'[addresses'].messages = <<>>
         /\ \A f \in H : put'[f].pc = "done"
<1>1. ASSUME NEW f \in Posts, PutBegin(f)
      PROVE  Goal
  <2>1. /\ put[f].pc = "unsent"
        /\ \A s \in Storages : heap'[s] = heap[s]
        /\ \A g \in Posts : g # f => put'[g] = put[g]
    BY <1>1, PutBeginEffect
  <2>2. \/ addresses' = addresses
        \/ addresses' = Len(heap) + 1 /\ heap'[addresses'].messages = <<>>
    BY <1>1, PutBeginEffect
  <2>3. Len(heap) + 1 \notin Storages
    BY TypesOf DEF Storages
  <2>4. \A g \in H : put'[g].pc = "done"
    BY <2>1
  <2> QED
    BY <2>1, <2>2, <2>3, <2>4
<1>2. ASSUME NEW f \in Posts, PutEnd(f)
      PROVE  Goal
  <2> DEFINE s == put[f].storage
  <2>1. /\ put[f].pc = "append" /\ s \in Storages /\ Sent(f) \in Message
        /\ heap'[s].messages = Appended(heap[s].messages, Sent(f))
        /\ \A r \in Storages : r # s => heap'[r] = heap[r]
    BY <1>2, PutEndEffect
  <2>2. put'[f] = [pc |-> "done", storage |-> s, id |-> put[f].id] /\ addresses' = addresses
    BY <1>2, PutEndEffect
  <2>3. \A g \in Posts : g # f => put'[g] = put[g]
    BY <1>2, PutEndEffect
  <2>4. heap[s].messages \in Seq(Message) /\ Len(heap[s].messages) <= MaxMessages
    BY <2>1, TypesOf
  <2>5. \A i \in 1 .. Len(heap[s].messages) : heap[s].messages[i].id < Sent(f).id
    BY <1>2, NewIsGreater
  <2>6. NoCrossing(appended)
    BY <1>2, NoCrossingBefore DEF RouterStep
  <2>7. Increasing(heap[s].messages)
    BY <2>1, <2>6, HeapIncreasing
  <2>8. Sent(f).post \notin H
    BY <2>1 DEF Sent
  <2> HIDE DEF s
  <2>9. /\ SettledIn(heap[s].messages, c, H) => SettledIn(heap'[s].messages, c, H)
        /\ Fresh(heap[s].messages, H) => Fresh(heap'[s].messages, H)
    BY <2>1, <2>4, <2>5, <2>7, <2>8, SettledAppended
  <2>10. \A g \in H : put'[g].pc = "done"
    BY <2>2, <2>3
  <2> QED
    BY <2>1, <2>9, <2>10, <2>2
<1>3. ASSUME ClearEnd
      PROVE  Goal
  <2>1. /\ clearing \in Storages
        /\ heap'[clearing].messages = Younger(heap[clearing].messages, now, MessageAge)
        /\ \A s \in Storages : s # clearing => heap'[s] = heap[s]
        /\ addresses' = addresses /\ put' = put /\ appended' = appended
    BY <1>3, ClearEndEffect
  <2>2. heap[clearing].messages \in Seq(Message) /\ now \in Nat
    BY <2>1, TypesOf
  <2>3. Increasing(heap[clearing].messages)
    BY <2>1, HeapIncreasing
  <2>4. \A i, j \in 1 .. Len(heap[clearing].messages) : i < j =>
          heap[clearing].messages[i].touched <= heap[clearing].messages[j].touched
    BY <2>1, HeapOrder
  <2>5. /\ SettledIn(heap[clearing].messages, c, H) => SettledIn(heap'[clearing].messages, c, H)
        /\ Fresh(heap[clearing].messages, H) => Fresh(heap'[clearing].messages, H)
    BY <2>1, <2>2, <2>3, <2>4, SettledYounger
  <2> QED
    BY <2>1, <2>5
<1>4. ASSUME ClearBegin \/ Tick \/ UNCHANGED routerVars
      PROVE  Goal
  <2>1. heap' = heap /\ put' = put /\ addresses' \in {addresses, NoStorage}
    BY <1>4 DEF ClearBegin, Tick, routerVars
  <2> QED
    BY <2>1
<1> QED
  BY <1>1, <1>2, <1>3, <1>4 DEF RouterStep

(* Steps of the router repeat nothing. *)
LEMMA OnceRouter ==
  ASSUME Types, Ledger, Once, RouterStep, UNCHANGED peerVars, NoCrossing(appended')
  PROVE  Once'
<1>1. /\ lastReceivedMessageId' = lastReceivedMessageId /\ poll' = poll /\ handed' = handed
      /\ HandedOver' = HandedOver
  BY DEF peerVars, HandedOver
<1>2. /\ lastReceivedMessageId \in Nat
      /\ HandedOver \in SUBSET Posts /\ \A f \in HandedOver : put[f].pc = "done"
  <2>1. \A f \in HandedOver : f \in Posts /\ handed[f] = 1
    BY DEF Once, HandedOver
  <2> QED
    BY <2>1, TypesOf DEF Once, PeerTypeOK
<1> DEFINE c == lastReceivedMessageId
<1> DEFINE H == HandedOver
<1>3. /\ \A s \in Storages :
           /\ SettledIn(heap[s].messages, c, H) => SettledIn(heap'[s].messages, c, H)
           /\ Fresh(heap[s].messages, H) => Fresh(heap'[s].messages, H)
      /\ \/ addresses' = addresses
         \/ addresses' = NoStorage
         \/ addresses' \notin Storages /\ heap'[addresses'].messages = <<>>
      /\ \A f \in H : put'[f].pc = "done"
  BY <1>2, RouterSettles
<1>4. addresses \in Storages \cup {NoStorage}
  BY TypesOf
<1>5. \A d, K : SettledIn(<<>>, d, K) /\ Fresh(<<>>, K)
  BY DEF SettledIn, Fresh
<1>6. \A p, q \in Polls : Active(p)' /\ Active(q)' => p = q
  BY <1>1 DEF Once, Active
<1>7. \A f \in Posts : handed'[f] \in {0, 1} /\ (handed'[f] = 1 => put'[f].pc = "done")
  <2>1. \A f \in Posts : handed[f] \in {0, 1}
    BY DEF Once
  <2>2. \A f \in Posts : handed[f] = 1 => f \in H
    BY DEF HandedOver
  <2> QED
    BY <2>1, <2>2, <1>1, <1>3
<1>8. SettledHere(c, H)'
  <2>1. addresses # NoStorage => SettledIn(heap[addresses].messages, c, H)
    BY DEF Once, SettledHere
  <2>2. addresses' # NoStorage => SettledIn(heap'[addresses'].messages, c, H)
    BY <2>1, <1>3, <1>4, <1>5
  <2> QED
    BY <2>2, <1>1 DEF SettledHere
<1>9. ASSUME NEW p \in Polls
      PROVE  OnceOf(p)'
  <2>1. OnceOf(p)
    BY DEF Once
  <2>2. CASE poll[p].pc = "read"
    <3> DEFINE s == poll[p].storage
    <3>1. /\ s \in Storages
          /\ SettledIn(heap[s].messages, c, H)
          /\ s # addresses /\ addresses # NoStorage => Fresh(heap[addresses].messages, H)
          /\ poll[p].after = c /\ poll[p].batch = {}
      BY <2>1, <2>2 DEF OnceOf, Types
    <3>2. SettledIn(heap'[s].messages, c, H)
      BY <3>1, <1>3
    <3>3. s # addresses' /\ addresses' # NoStorage => Fresh(heap'[addresses'].messages, H)
      BY <3>1, <1>3, <1>4, <1>5
    <3> QED
      BY <3>1, <3>2, <3>3, <2>2, <1>1 DEF OnceOf
  <2>3. CASE poll[p].pc = "answer"
    <3> DEFINE d == poll[p].last
    <3> DEFINE K == H \cup poll[p].batch
    <3>1. /\ d \in Nat /\ poll[p].batch \subseteq Posts
      BY PollFields
    <3>2. /\ \A f \in poll[p].batch : handed[f] = 0 /\ put[f].pc = "done"
          /\ SettledHere(d, K)
      BY <2>1, <2>3 DEF OnceOf
    <3>3. K \in SUBSET Posts /\ \A f \in K : put[f].pc = "done"
      BY <3>1, <3>2, <1>2
    <3>4. /\ \A s \in Storages :
               SettledIn(heap[s].messages, d, K) => SettledIn(heap'[s].messages, d, K)
          /\ \A f \in K : put'[f].pc = "done"
      BY <3>1, <3>3, RouterSettles
    <3>5. addresses # NoStorage => SettledIn(heap[addresses].messages, d, K)
      BY <3>2 DEF SettledHere
    <3>6. addresses' # NoStorage => SettledIn(heap'[addresses'].messages, d, K)
      BY <3>4, <3>5, <1>3, <1>4, <1>5
    <3>7. SettledHere(d, K)'
      BY <3>6, <1>1 DEF SettledHere
    <3>8. \A f \in poll[p].batch : handed'[f] = 0 /\ put'[f].pc = "done"
      BY <3>2, <3>4, <1>1
    <3> QED
      BY <3>7, <3>8, <2>3, <1>1 DEF OnceOf
  <2>4. CASE poll[p].pc \notin {"read", "answer"}
    BY <2>1, <2>4, <1>1 DEF OnceOf
  <2> QED
    BY <2>2, <2>3, <2>4
<1> QED
  BY <1>6, <1>7, <1>8, <1>9 DEF Once

(* Nor does a restart: the storages start over, and so do the polls that   *)
(* were reading them.                                                      *)
LEMMA OnceRestart ==
  ASSUME Types, Once, Restart
  PROVE  Once'
<1>1. \A p \in Polls : IF poll[p].pc \in {"request", "read"}
                       THEN poll'[p] = PollOf("clear", 0, NoStorage, 0, {})
                       ELSE poll'[p] = poll[p]
  BY RestartEffect
<1>2. /\ lastReceivedMessageId' = lastReceivedMessageId /\ handed' = handed
      /\ addresses' = NoStorage
      /\ \A f \in Posts : put[f].pc # "append" => put'[f] = put[f]
  BY RestartEffect
<1>3. \A p, q \in Polls : Active(p)' /\ Active(q)' => p = q
  <2>1. \A p \in Polls : Active(p)' => Active(p)
    BY <1>1 DEF Active
  <2> QED
    BY <2>1 DEF Once
<1>4. \A f \in Posts : handed'[f] \in {0, 1} /\ (handed'[f] = 1 => put'[f].pc = "done")
  BY <1>2 DEF Once
<1>5. \A c, H : SettledHere(c, H)'
  BY <1>2 DEF SettledHere
<1>6. ASSUME NEW p \in Polls
      PROVE  OnceOf(p)'
  <2>1. OnceOf(p)
    BY DEF Once
  <2>2. CASE poll[p].pc \in {"request", "read"}
    <3>1. poll'[p].pc = "clear" /\ poll'[p].batch = {}
      BY <2>2, <1>1 DEF PollOf
    <3> QED
      BY <3>1 DEF OnceOf
  <2>3. CASE poll[p].pc \notin {"request", "read"}
    <3>1. poll'[p] = poll[p]
      BY <2>3, <1>1
    <3>2. poll[p].batch \subseteq Posts
      BY PollFields
    <3>3. CASE poll[p].pc = "answer"
      <4>1. \A f \in poll[p].batch : handed[f] = 0 /\ put[f].pc = "done"
        BY <3>3, <2>1 DEF OnceOf
      <4>2. \A f \in poll'[p].batch : handed'[f] = 0 /\ put'[f].pc = "done"
        BY <4>1, <3>1, <3>2, <1>2
      <4>3. SettledHere(poll[p].last, HandedOver \cup poll[p].batch)'
        BY <1>5
      <4> QED
        BY <4>2, <4>3, <3>1, <3>3 DEF OnceOf
    <3>4. CASE poll[p].pc # "answer"
      BY <3>1, <3>4, <2>1, <2>3 DEF OnceOf
    <3> QED
      BY <3>3, <3>4
  <2> QED
    BY <2>2, <2>3
<1>7. SettledHere(lastReceivedMessageId, HandedOver)'
  BY <1>2 DEF SettledHere
<1> QED
  BY <1>3, <1>4, <1>6, <1>7 DEF Once

(* A poll that is alone under way answers for itself only. *)
LEMMA OnceAlone ==
  ASSUME Types, Once, UNCHANGED <<routerVars>>, NEW p \in Polls, NEW r,
         poll' = [poll EXCEPT ![p] = r],
         \A q \in Polls : Active(q) => q = p,
         \A f \in Posts : handed'[f] \in {0, 1} /\ (handed'[f] = 1 => put[f].pc = "done"),
         SettledHere(lastReceivedMessageId, HandedOver)',
         OnceOf(p)'
  PROVE  Once'
<1>1. \A q \in Polls : q # p => poll'[q] = poll[q]
  BY PollFields
<1>2. \A q \in Polls : Active(q)' => q = p
  BY <1>1 DEF Active
<1>3. put' = put
  BY DEF routerVars
<1>4. ASSUME NEW q \in Polls, q # p
      PROVE  OnceOf(q)'
  <2>1. OnceOf(q) /\ ~Active(q)
    BY <1>4 DEF Once
  <2>2. poll'[q].pc \notin {"request", "read", "answer"} /\ poll'[q].batch = {}
    BY <2>1, <1>1, <1>4 DEF OnceOf, Active
  <2> QED
    BY <2>2 DEF OnceOf
<1> QED
  BY <1>2, <1>3, <1>4 DEF Once

(* A poll begins behind the cursor. *)
LEMMA BeginPollOnce ==
  ASSUME Types, Once, NEW p \in Polls, BeginPoll(p), ~overlapped'
  PROVE  Once'
<1> DEFINE r == PollOf("request", lastReceivedMessageId, poll[p].storage, poll[p].last, poll[p].batch)
<1>1. /\ poll' = [poll EXCEPT ![p] = r]
      /\ poll[p].pc = "checked"
      /\ overlapped' = (overlapped \/ \E q \in Polls : Active(q))
      /\ UNCHANGED <<routerVars, lastReceivedMessageId, handed>>
  BY BeginPollEffect
<1>2. \A q \in Polls : Active(q) => q = p
  BY <1>1
<1>3. poll'[p] = r
  BY <1>1, PollFields
<1>4. poll[p].batch = {}
  BY <1>1 DEF Once, OnceOf
<1>5. /\ poll'[p].pc = "request" /\ poll'[p].after = lastReceivedMessageId
      /\ poll'[p].batch = {}
  BY <1>3, <1>4 DEF PollOf
<1>6. OnceOf(p)'
  BY <1>1, <1>5 DEF OnceOf
<1>7. SettledHere(lastReceivedMessageId, HandedOver)'
  BY <1>1 DEF Once, SettledHere, HandedOver, routerVars
<1>8. \A f \in Posts : handed'[f] \in {0, 1} /\ (handed'[f] = 1 => put[f].pc = "done")
  BY <1>1 DEF Once
<1> HIDE DEF r
<1> QED
  BY <1>1, <1>2, <1>6, <1>7, <1>8, OnceAlone

(* The storage it finds is the one the cursor is settled in; without one   *)
(* it is answered nothing.                                                 *)
LEMMA LookUpOnce ==
  ASSUME Types, Once, NEW p \in Polls, LookUp(p)
  PROVE  Once'
<1> DEFINE r == IF addresses = NoStorage
                THEN PollOf("answer", poll[p].after, poll[p].storage, 0, poll[p].batch)
                ELSE PollOf("read", poll[p].after, addresses, poll[p].last, poll[p].batch)
<1>1. /\ poll' = [poll EXCEPT ![p] = r]
      /\ poll[p].pc = "request"
      /\ UNCHANGED <<routerVars, lastReceivedMessageId, handed>>
  BY LookUpEffect
<1>2. \A q \in Polls : Active(q) => q = p
  BY <1>1 DEF Once, Active
<1>3. poll'[p] = r
  BY <1>1, PollFields
<1>4. poll[p].batch = {} /\ poll[p].after = lastReceivedMessageId
  BY <1>1 DEF Once, OnceOf
<1>5. addresses' = addresses /\ heap' = heap /\ put' = put /\ HandedOver' = HandedOver
  BY <1>1 DEF routerVars, HandedOver
<1>6. OnceOf(p)'
  <2>1. CASE addresses = NoStorage
    <3>1. poll'[p].pc = "answer" /\ poll'[p].batch = {}
      BY <2>1, <1>3, <1>4 DEF PollOf
    <3> QED
      BY <3>1, <2>1, <1>5 DEF OnceOf, SettledHere
  <2>2. CASE addresses # NoStorage
    <3>1. /\ poll'[p].pc = "read" /\ poll'[p].batch = {} /\ poll'[p].storage = addresses
          /\ poll'[p].after = lastReceivedMessageId
      BY <2>2, <1>3, <1>4 DEF PollOf
    <3>2. SettledIn(heap[addresses].messages, lastReceivedMessageId, HandedOver)
      BY <2>2 DEF Once, SettledHere
    <3> QED
      BY <3>1, <3>2, <1>1, <1>5 DEF OnceOf
  <2> QED
    BY <2>1, <2>2
<1>7. SettledHere(lastReceivedMessageId, HandedOver)'
  BY <1>1, <1>5 DEF Once, SettledHere
<1>8. \A f \in Posts : handed'[f] \in {0, 1} /\ (handed'[f] = 1 => put[f].pc = "done")
  BY <1>1 DEF Once
<1> HIDE DEF r
<1> QED
  BY <1>1, <1>2, <1>6, <1>7, <1>8, OnceAlone

(* What it reads was not handed over, and is settled by the cursor it is   *)
(* answered with: in the storage it read, and in a newer one of the same   *)
(* address, which holds none of it.                                        *)
LEMMA ReadOnce ==
  ASSUME Types, Ledger, Once, NoCrossing(appended), NEW p \in Polls, Read(p)
  PROVE  Once'
<1> DEFINE batch == {m.post : m \in Answer(p).sent}
<1> DEFINE s == poll[p].storage
<1> DEFINE d == Answer(p).lastId
<1> DEFINE r == PollOf("answer", poll[p].after, NoStorage, d, batch)
<1> DEFINE H == HandedOver
<1>1. /\ poll' = [poll EXCEPT ![p] = r]
      /\ poll[p].pc = "read" /\ s \in Storages
      /\ batch \in SUBSET Posts
      /\ UNCHANGED <<routerVars, lastReceivedMessageId, handed>>
  BY ReadEffect
<1>2. \A q \in Polls : Active(q) => q = p
  BY <1>1 DEF Once, Active
<1>3. poll'[p] = r
  BY <1>1, PollFields
<1>4. /\ poll[p].after = lastReceivedMessageId
      /\ SettledIn(heap[s].messages, lastReceivedMessageId, H)
      /\ s # addresses /\ addresses # NoStorage => Fresh(heap[addresses].messages, H)
  BY <1>1 DEF Once, OnceOf
<1>5. /\ addresses' = addresses /\ heap' = heap /\ put' = put /\ handed' = handed
      /\ HandedOver' = HandedOver
  BY <1>1 DEF routerVars, HandedOver
<1>6. /\ heap[s].messages \in Seq(Message) /\ poll[p].after \in Nat
  BY <1>1, TypesOf, PollFields
<1>7. /\ \A x \in Answer(p).sent : x.post \notin H
      /\ SettledIn(heap[s].messages, d, H \cup batch)
  <2>1. Increasing(heap[s].messages)
    BY <1>1, HeapIncreasing
  <2>2. \A i, j \in 1 .. Len(heap[s].messages) : i < j =>
          heap[s].messages[i].post # heap[s].messages[j].post
    BY <1>1, HeapOrder
  <2> QED
    BY <2>1, <2>2, <1>4, <1>6, SettledAnswer DEF Answer
<1>8. \A f \in batch : put[f].pc = "done" /\ put[f].storage = s
  <2> SUFFICES ASSUME NEW x \in Answer(p).sent
               PROVE  put[x.post].pc = "done" /\ put[x.post].storage = s
    OBVIOUS
  <2>1. PICK i \in 1 .. Len(heap[s].messages) : x = heap[s].messages[i]
    BY <1>6, GetMessageType DEF Answer
  <2> QED
    BY <2>1, <1>1, HeapFacts
<1>9. \A f \in batch : handed[f] = 0
  <2>1. \A f \in batch : f \in Posts /\ f \notin H
    BY <1>1, <1>7
  <2>2. \A f \in Posts : handed[f] \in {0, 1}
    BY DEF Once
  <2> QED
    BY <2>1, <2>2 DEF HandedOver
<1>10. addresses # NoStorage => SettledIn(heap[addresses].messages, d, H \cup batch)
  <2>1. CASE addresses = s
    BY <2>1, <1>7
  <2>2. CASE addresses # s /\ addresses # NoStorage
    <3>1. addresses \in Storages
      BY <2>2, TypesOf
    <3>2. \A i \in 1 .. Len(heap[addresses].messages) :
            put[heap[addresses].messages[i].post].storage = addresses
      BY <3>1, HeapFacts
    <3>3. \A i \in 1 .. Len(heap[addresses].messages) :
            heap[addresses].messages[i].post \notin H \cup batch
      <4>1. \A i \in 1 .. Len(heap[addresses].messages) :
              heap[addresses].messages[i].post \notin H
        BY <2>2, <1>4 DEF Fresh
      <4> HIDE DEF batch, s
      <4> QED
        BY <4>1, <3>2, <2>2, <1>8
    <3> HIDE DEF batch
    <3> QED
      BY <3>3 DEF SettledIn
  <2> QED
    BY <2>1, <2>2
<1> HIDE DEF batch, d
<1>11. OnceOf(p)'
  <2>1. poll'[p].pc = "answer" /\ poll'[p].batch = batch /\ poll'[p].last = d
    BY <1>3 DEF PollOf
  <2>2. addresses' # NoStorage =>
          SettledIn(heap'[addresses'].messages, poll'[p].last, HandedOver' \cup poll'[p].batch)
    BY <2>1, <1>5, <1>10
  <2>3. SettledHere(poll[p].last, HandedOver \cup poll[p].batch)'
    BY <2>2 DEF SettledHere
  <2>4. \A f \in poll'[p].batch : handed'[f] = 0 /\ put'[f].pc = "done"
    BY <2>1, <1>5, <1>8, <1>9
  <2> QED
    BY <2>1, <2>3, <2>4 DEF OnceOf
<1>12. SettledHere(lastReceivedMessageId, HandedOver)'
  BY <1>1, <1>5 DEF Once, SettledHere
<1>13. \A f \in Posts : handed'[f] \in {0, 1} /\ (handed'[f] = 1 => put[f].pc = "done")
  BY <1>1 DEF Once
<1> HIDE DEF r
<1> QED
  BY <1>1, <1>2, <1>11, <1>12, <1>13, OnceAlone

(* What an answer hands over was not handed over before, and its cursor    *)
(* settles it.                                                             *)
LEMMA TakeAnswerOnce ==
  ASSUME Types, Once, NEW p \in Polls, TakeAnswer(p)
  PROVE  Once'
<1> DEFINE r == PollOf("clear", 0, NoStorage, 0, {})
<1>1. /\ poll' = [poll EXCEPT ![p] = r]
      /\ poll[p].pc = "answer"
      /\ lastReceivedMessageId' = poll[p].last
      /\ handed' = [f \in Posts |-> IF f \in poll[p].batch /\ handed[f] < 2
                                    THEN handed[f] + 1 ELSE handed[f]]
      /\ UNCHANGED routerVars
  BY TakeAnswerEffect
<1>2. \A q \in Polls : Active(q) => q = p
  BY <1>1 DEF Once, Active
<1>3. poll'[p] = r
  BY <1>1, PollFields
<1>4. /\ \A f \in poll[p].batch : handed[f] = 0 /\ put[f].pc = "done"
      /\ SettledHere(poll[p].last, HandedOver \cup poll[p].batch)
      /\ poll[p].batch \subseteq Posts
  BY <1>1, PollFields DEF Once, OnceOf
<1>5. \A f \in Posts : handed[f] \in {0, 1} /\ (handed[f] = 1 => put[f].pc = "done")
  BY DEF Once
<1>6. \A f \in Posts : handed'[f] = IF f \in poll[p].batch THEN 1 ELSE handed[f]
  <2> TAKE f \in Posts
  <2>1. handed'[f] = IF f \in poll[p].batch /\ handed[f] < 2 THEN handed[f] + 1 ELSE handed[f]
    BY <1>1
  <2>2. f \in poll[p].batch => handed[f] = 0
    BY <1>4
  <2> QED
    BY <2>1, <2>2
<1>7. HandedOver' = HandedOver \cup poll[p].batch
  <2>1. \A f \in Posts : handed'[f] > 0 <=> (handed[f] > 0 \/ f \in poll[p].batch)
    BY <1>5, <1>6
  <2>2. HandedOver' = {f \in Posts : handed'[f] > 0}
    BY DEF HandedOver
  <2> QED
    BY <2>1, <2>2, <1>4 DEF HandedOver
<1>8. SettledHere(lastReceivedMessageId, HandedOver)'
  <2>1. addresses' = addresses /\ heap' = heap
    BY <1>1 DEF routerVars
  <2> QED
    BY <2>1, <1>1, <1>4, <1>7 DEF SettledHere
<1>9. \A f \in Posts : handed'[f] \in {0, 1} /\ (handed'[f] = 1 => put[f].pc = "done")
  BY <1>4, <1>5, <1>6
<1>10. poll'[p].pc = "clear" /\ poll'[p].batch = {}
  BY <1>3 DEF PollOf
<1>11. OnceOf(p)'
  BY <1>10 DEF OnceOf
<1> HIDE DEF r
<1> QED
  BY <1>1, <1>2, <1>8, <1>9, <1>11, OnceAlone

(* A poll that is lost, or ends, leaves all as it is; and so does one that *)
(* looks at the flag while another is under way.                           *)
LEMMA OtherOnce ==
  ASSUME Types, Once, NEW p \in Polls, CheckFlag(p) \/ LosePoll(p) \/ EndPoll(p)
  PROVE  Once'
<1>1. PICK r :
        /\ poll' = [poll EXCEPT ![p] = r]
        /\ r.pc \in {"checked", "clear", "idle"} /\ r.batch = {}
        /\ (poll[p].pc = "idle" /\ r.pc = "checked") \/ Active(p)
        /\ UNCHANGED <<routerVars, lastReceivedMessageId, handed>>
  <2>1. CASE CheckFlag(p)
    <3> DEFINE r == PollOf("checked", poll[p].after, poll[p].storage, poll[p].last, poll[p].batch)
    <3>1. /\ poll' = [poll EXCEPT ![p] = r]
          /\ poll[p].pc = "idle"
          /\ UNCHANGED <<routerVars, lastReceivedMessageId, handed>>
      BY <2>1, CheckFlagEffect
    <3>2. poll[p].batch = {}
      BY <3>1 DEF Once, OnceOf
    <3>3. r.pc = "checked" /\ r.batch = {}
      BY <3>2 DEF PollOf
    <3> QED
      BY <3>1, <3>3
  <2>2. CASE LosePoll(p)
    <3> DEFINE r == PollOf("clear", 0, NoStorage, 0, {})
    <3>1. /\ poll' = [poll EXCEPT ![p] = r]
          /\ Active(p)
          /\ UNCHANGED <<routerVars, lastReceivedMessageId, handed>>
      BY <2>2, LosePollEffect DEF Active
    <3>2. r.pc = "clear" /\ r.batch = {}
      BY DEF PollOf
    <3> QED
      BY <3>1, <3>2
  <2>3. CASE EndPoll(p)
    <3> DEFINE r == PollOf("idle", 0, NoStorage, 0, {})
    <3>1. /\ poll' = [poll EXCEPT ![p] = r]
          /\ Active(p)
          /\ UNCHANGED <<routerVars, lastReceivedMessageId, handed>>
      BY <2>3, EndPollEffect DEF Active
    <3>2. r.pc = "idle" /\ r.batch = {}
      BY DEF PollOf
    <3> QED
      BY <3>1, <3>2
  <2> QED
    BY <2>1, <2>2, <2>3
<1>2. poll'[p] = r /\ \A q \in Polls : q # p => poll'[q] = poll[q]
  BY <1>1, PollFields
<1>3. /\ addresses' = addresses /\ heap' = heap /\ put' = put /\ handed' = handed
      /\ lastReceivedMessageId' = lastReceivedMessageId /\ HandedOver' = HandedOver
  BY <1>1 DEF routerVars, HandedOver
<1>4. \A q \in Polls : Active(q)' => Active(q)
  BY <1>1, <1>2 DEF Active
<1>5. OnceOf(p)'
  BY <1>1, <1>2 DEF OnceOf
<1>6. ASSUME NEW q \in Polls, q # p
      PROVE  OnceOf(q)'
  <2>1. OnceOf(q) /\ poll'[q] = poll[q]
    BY <1>2, <1>6 DEF Once
  <2> QED
    BY <2>1, <1>3 DEF OnceOf, SettledHere
<1> QED
  BY <1>3, <1>4, <1>5, <1>6 DEF Once, SettledHere

(* What is undisturbed was undisturbed the step before. *)
LEMMA UndisturbedBefore ==
  ASSUME Types, [Next]_vars, ~overlapped', NoCrossing(appended')
  PROVE  ~overlapped /\ NoCrossing(appended)
<1>1. ASSUME NEW p \in Polls, PollStep(p)
      PROVE  ~overlapped /\ NoCrossing(appended)
  <2>1. UNCHANGED routerVars /\ ~overlapped
    BY <1>1, CheckFlagEffect, BeginPollEffect, LookUpEffect, ReadEffect, LosePollEffect,
       TakeAnswerEffect, EndPollEffect DEF PollStep
  <2> QED
    BY <2>1 DEF routerVars
<1>2. ASSUME RouterStep, UNCHANGED peerVars
      PROVE  ~overlapped /\ NoCrossing(appended)
  BY <1>2, NoCrossingBefore DEF peerVars
<1>3. ASSUME Restart
      PROVE  ~overlapped /\ NoCrossing(appended)
  BY <1>3, NoCrossingBefore, RestartEffect
<1>4. RouterNext => RouterStep
  BY DEF RouterNext, RouterStep
<1>5. UNCHANGED vars => RouterStep /\ UNCHANGED peerVars
  BY DEF vars, RouterStep
<1> QED
  BY <1>1, <1>2, <1>3, <1>4, <1>5 DEF Next

LEMMA InitOnce ==
  ASSUME Init
  PROVE  Once
<1>1. /\ addresses = NoStorage
      /\ poll = [p \in Polls |-> IdlePoll] /\ handed = [f \in Posts |-> 0]
  BY DEF Init, RouterInit, PeerInit
<1>2. \A p \in Polls : poll[p].pc = "idle" /\ poll[p].batch = {}
  BY <1>1 DEF IdlePoll
<1>3. \A p \in Polls : ~Active(p) /\ OnceOf(p)
  BY <1>2 DEF Active, OnceOf
<1> QED
  BY <1>1, <1>3 DEF Once, SettledHere

LEMMA NextOnce ==
  ASSUME Types, Ledger, Once, [Next]_vars, ~overlapped', NoCrossing(appended')
  PROVE  Once'
<1>1. NoCrossing(appended)
  BY UndisturbedBefore
<1>2. ASSUME NEW p \in Polls, PollStep(p)
      PROVE  Once'
  BY <1>1, <1>2, BeginPollOnce, LookUpOnce, ReadOnce, TakeAnswerOnce, OtherOnce DEF PollStep
<1>3. RouterNext => RouterStep
  BY DEF RouterNext, RouterStep
<1>4. UNCHANGED vars => RouterStep /\ UNCHANGED peerVars
  BY DEF vars, RouterStep
<1> QED
  BY <1>1, <1>2, <1>3, <1>4, OnceRouter, OnceRestart DEF Next

(* RepeatedOnlyIf holds in every state: whatever answers are lost and      *)
(* however often the router is started again, a frame that is handed over  *)
(* twice needs two polls at once or two Puts that cross.                   *)
THEOREM RepeatedOnlyIfAlways == Spec => []RepeatedOnlyIf
<1> DEFINE Inv == Types /\ Ledger /\ (~overlapped /\ NoCrossing(appended) => Once)
<1>1. Init => Inv
  BY InitOnce, InitTypes, InitLedger
<1>2. Inv /\ [Next]_vars => Inv'
  <2>1. Types /\ Ledger /\ [Next]_vars => Types' /\ Ledger'
    BY NextTypes, NextLedger
  <2> QED
    BY <2>1, UndisturbedBefore, NextOnce
<1>3. Inv => RepeatedOnlyIf
  <2> SUFFICES ASSUME Types, Ledger, ~overlapped /\ NoCrossing(appended) => Once,
                      NEW f \in Posts, handed[f] > 1, ~overlapped
               PROVE  \E a \in ToSet(appended) : Crossed(a)
    BY DEF RepeatedOnlyIf
  <2>1. ~NoCrossing(appended)
    BY DEF Once
  <2>2. PICK k \in 1 .. Len(appended), l \in 1 .. Len(appended) :
               /\ k < l /\ appended[k].storage = appended[l].storage
               /\ ~(appended[k].message.id <= appended[l].message.id)
    BY <2>1 DEF NoCrossing
  <2>3. appended[k].message.id > appended[l].message.id
    <3>1. appended[k].message.id \in Nat /\ appended[l].message.id \in Nat
      BY EntryFacts
    <3> QED
      BY <3>1, <2>2
  <2>4. DOMAIN appended = 1 .. Len(appended)
    BY TypesOf
  <2>5. Crossed(appended[l])
    BY <2>2, <2>3, <2>4 DEF Crossed
  <2>6. appended[l] \in ToSet(appended)
    BY <2>2, <2>4 DEF ToSet
  <2> QED
    BY <2>5, <2>6
<1> QED
  BY <1>1, <1>2, <1>3, PTL DEF Spec

-----------------------------------------------------------------------------
(* Why the cursor passes nothing over without excuse, before any restart:  *)
(* a cursor is an id that was given out, and what lies in the storage of   *)
(* the address at or before it was handed over, or is about to be, or is   *)
(* excused.                                                                *)
Excused(log, k) ==
  \/ \E i \in 1 .. Len(log) :
       /\ i < k /\ log[i].storage = log[k].storage
       /\ log[i].message.id > log[k].message.id
  \/ log[k].message.size >= MaxSize
  \/ \E l \in 1 .. Len(log) :
       log[l].message.id > log[k].message.id /\ log[l].message.size < log[k].message.size

HeldAt(a, storages, here) ==
  /\ here # NoStorage /\ a.storage = here
  /\ \E i \in 1 .. Len(storages[here].messages) : storages[here].messages[i] = a.message

GivenOut(c, puts) == c = 0 \/ \E g \in Posts : puts[g].pc = "done" /\ puts[g].id = c

Passed(c, H, log, storages, here) ==
  \A k \in 1 .. Len(log) : HeldAt(log[k], storages, here) /\ log[k].message.id <= c =>
    log[k].message.post \in H \/ Excused(log, k)

Covers(c, H, log, storages, here, puts) ==
  GivenOut(c, puts) /\ Passed(c, H, log, storages, here)

CoversNow(c, H) == Covers(c, H, appended, heap, addresses, put)

Covered ==
  /\ CoversNow(lastReceivedMessageId, HandedOver)
  /\ \A p \in Polls : poll[p].pc \in {"request", "read"} => CoversNow(poll[p].after, HandedOver)
  /\ \A p \in Polls : poll[p].pc = "answer" =>
       CoversNow(poll[p].last, HandedOver \cup poll[p].batch)

(* What is excused stays excused. *)
LEMMA ExcusedGrows ==
  ASSUME NEW log, NEW longer, Longer(longer, log), NEW k \in 1 .. Len(log), Excused(log, k)
  PROVE  Excused(longer, k)
<1>1. \A i \in 1 .. Len(log) : i \in 1 .. Len(longer) /\ longer[i] = log[i]
  BY DEF Longer
<1> QED
  BY <1>1 DEF Excused

(* A message that is appended behind the cursor to the storage of the      *)
(* address crossed another: the cursor is an id of that storage.           *)
LEMMA LateIsExcused ==
  ASSUME Types, Ledger, restarts = 0, NEW f \in Posts, PutEnd(f), put[f].storage = addresses,
         NEW c \in Nat, GivenOut(c, put), put[f].id <= c
  PROVE  Excused(appended', Len(appended) + 1)
<1> DEFINE n == Len(appended)
<1>1. /\ put[f].pc = "append" /\ put[f].storage \in Storages
      /\ Len(appended') = n + 1
      /\ appended'[n + 1] = SentEntry(f)
      /\ \A k \in 1 .. n : appended'[k] = appended[k]
  BY PutEndEffect
<1>2. put[f] \in PutState /\ put[f].id \in Nat /\ put[f].id >= 1
  <2>1. put[f] \in PutState
    BY TypesOf
  <2> QED
    BY <2>1, <1>1 DEF PutState, Ledger, Ids
<1>3. PICK g \in Posts : put[g].pc = "done" /\ put[g].id = c
  BY <1>2 DEF GivenOut
<1>4. PICK k \in 1 .. n : appended[k].message.post = g
  BY <1>3 DEF Ledger, Recorded
<1>5. appended[k].storage = put[g].storage /\ appended[k].message.id = c
  BY <1>3, <1>4, EntryFacts
<1>6. put[g].storage \in Storages /\ addresses = Len(heap) /\ Len(heap) \in Nat
  BY <1>1, <1>3, TypesOf DEF Types, Ledger, Ids, Storages, NoStorage
<1>7. put[g].storage = addresses
  <2>1. ~(put[g].storage < put[f].storage)
    BY <1>1, <1>2, <1>3 DEF Ledger, IdsInOrder
  <2> QED
    BY <2>1, <1>6 DEF Storages
<1>8. put[f].id # c
  BY <1>1, <1>3, <1>7 DEF Ledger, Ids
<1>9. /\ SentEntry(f).storage = addresses /\ SentEntry(f).message.id = put[f].id
  BY DEF SentEntry, Sent
<1>10. n \in Nat
  BY TypesOf
<1> HIDE DEF n
<1>11. /\ k \in 1 .. Len(appended') /\ k < n + 1
       /\ appended'[k].storage = appended'[n + 1].storage
       /\ appended'[k].message.id > appended'[n + 1].message.id
  BY <1>1, <1>2, <1>4, <1>5, <1>7, <1>8, <1>9, <1>10
<1> QED
  BY <1>11 DEF Excused, n

(* No step of the router uncovers a cursor. *)
LEMMA RouterCovers ==
  ASSUME Types, Ledger, restarts = 0, RouterStep, NEW c \in Nat, NEW H, CoversNow(c, H)
  PROVE  Covers(c, H, appended', heap', addresses', put')
<1>1. GivenOut(c, put) /\ Passed(c, H, appended, heap, addresses)
  BY DEF CoversNow, Covers
<1> DEFINE Goal == Covers(c, H, appended', heap', addresses', put')
<1>2. ASSUME NEW f \in Posts, PutBegin(f)
      PROVE  Goal
  <2>1. /\ put[f].pc = "unsent" /\ appended' = appended
        /\ \A g \in Posts : g # f => put'[g] = put[g]
    BY <1>2, PutBeginEffect
  <2>2. \/ addresses # NoStorage /\ heap' = heap /\ addresses' = addresses
        \/ heap'[addresses'].messages = <<>>
    BY <1>2, PutBeginEffect
  <2>3. GivenOut(c, put')
    BY <2>1, <1>1 DEF GivenOut
  <2>4. Passed(c, H, appended', heap', addresses')
    <3>1. CASE heap' = heap /\ addresses' = addresses
      BY <3>1, <2>1, <1>1
    <3>2. CASE heap'[addresses'].messages = <<>>
      <4>1. \A a : ~HeldAt(a, heap', addresses')
        BY <3>2 DEF HeldAt
      <4> QED
        BY <4>1 DEF Passed
    <3> QED
      BY <2>2, <3>1, <3>2
  <2> QED
    BY <2>3, <2>4 DEF Covers
<1>3. ASSUME NEW f \in Posts, PutEnd(f)
      PROVE  Goal
  <2> DEFINE s == put[f].storage
  <2> DEFINE n == Len(appended)
  <2>1. /\ put[f].pc = "append" /\ s \in Storages /\ Sent(f) \in Message
        /\ heap'[s].messages = Appended(heap[s].messages, Sent(f))
        /\ \A r \in Storages : r # s => heap'[r] = heap[r]
    BY <1>3, PutEndEffect
  <2>2. /\ Len(appended') = n + 1
        /\ appended'[n + 1] = SentEntry(f)
        /\ \A k \in 1 .. n : appended'[k] = appended[k]
        /\ addresses' = addresses
    BY <1>3, PutEndEffect
  <2>3. GivenOut(c, put')
    <3>1. \A g \in Posts : g # f => put'[g] = put[g]
      BY <1>3, PutEndEffect
    <3> QED
      BY <3>1, <2>1, <1>1 DEF GivenOut
  <2>4. n \in Nat
    BY TypesOf
  <2>5. ASSUME NEW k \in 1 .. n, HeldAt(appended[k], heap', addresses)
        PROVE  HeldAt(appended[k], heap, addresses)
    <3>1. addresses # NoStorage /\ appended[k].storage = addresses /\ addresses \in Storages
      BY <2>5, TypesOf DEF HeldAt
    <3>2. CASE addresses = s
      <4>1. PICK i \in 1 .. Len(heap'[s].messages) : heap'[s].messages[i] = appended[k].message
        BY <2>5, <3>2 DEF HeldAt
      <4>2. heap[s].messages \in Seq(Message) /\ Len(heap[s].messages) <= MaxMessages
        BY <2>1, TypesOf
      <4> DEFINE old == heap[s].messages
      <4> DEFINE new == Appended(old, Sent(f))
      <4>3. PICK d \in {0, 1} :
              /\ Len(new) = Len(old) + 1 - d
              /\ Len(new) >= 1
              /\ new[Len(new)] = Sent(f)
              /\ \A j \in 1 .. Len(old) - d : new[j] = old[j + d]
        BY <4>2, <2>1, AppendedIs
      <4>4. appended[k].message # Sent(f)
        <5>1. put[appended[k].message.post].pc = "done"
          BY EntryFacts
        <5> QED
          BY <5>1, <2>1 DEF Sent
      <4>5. i \in 1 .. Len(new) /\ new[i] = appended[k].message
        BY <4>1, <2>1
      <4>6. Len(old) \in Nat
        BY <4>2
      <4> HIDE DEF new, old
      <4>7. i \in 1 .. Len(old) - d /\ i + d \in 1 .. Len(old)
        BY <4>3, <4>4, <4>5, <4>6
      <4>8. old[i + d] = appended[k].message
        BY <4>3, <4>5, <4>7
      <4> QED
        BY <4>7, <4>8, <3>1, <3>2 DEF HeldAt, old
    <3>3. CASE addresses # s
      <4>1. heap'[addresses] = heap[addresses]
        BY <3>1, <3>3, <2>1
      <4> QED
        BY <4>1, <2>5 DEF HeldAt
    <3> QED
      BY <3>2, <3>3
  <2>6. ASSUME NEW k \in 1 .. n + 1, HeldAt(appended'[k], heap', addresses'),
               appended'[k].message.id <= c
        PROVE  appended'[k].message.post \in H \/ Excused(appended', k)
    <3>1. CASE k = n + 1
      <4>1. s = addresses /\ put[f].id <= c
        BY <3>1, <2>2, <2>6 DEF HeldAt, SentEntry, Sent
      <4> QED
        BY <4>1, <3>1, <1>1, <1>3, LateIsExcused
    <3>2. CASE k # n + 1
      <4>1. k \in 1 .. n
        BY <3>2, <2>4
      <4>2. appended'[k] = appended[k]
        BY <4>1, <2>2
      <4>3. HeldAt(appended[k], heap, addresses) /\ appended[k].message.id <= c
        BY <4>1, <4>2, <2>2, <2>5, <2>6
      <4>4. appended[k].message.post \in H \/ Excused(appended, k)
        BY <4>1, <4>3, <1>1 DEF Passed
      <4>5. Longer(appended', appended)
        BY <2>2, <2>4 DEF Longer
      <4> QED
        BY <4>1, <4>2, <4>4, <4>5, ExcusedGrows
    <3> QED
      BY <3>1, <3>2
  <2>7. Passed(c, H, appended', heap', addresses')
    BY <2>2, <2>6 DEF Passed
  <2> QED
    BY <2>3, <2>7 DEF Covers
<1>4. ASSUME ClearEnd
      PROVE  Goal
  <2>1. /\ clearing \in Storages
        /\ heap'[clearing].messages = Younger(heap[clearing].messages, now, MessageAge)
        /\ \A s \in Storages : s # clearing => heap'[s] = heap[s]
        /\ addresses' = addresses /\ put' = put /\ appended' = appended
    BY <1>4, ClearEndEffect
  <2>2. heap[clearing].messages \in Seq(Message) /\ now \in Nat
    BY <2>1, TypesOf
  <2>3. \A i \in 1 .. Len(heap'[clearing].messages) : \E k \in 1 .. Len(heap[clearing].messages) :
          heap'[clearing].messages[i] = heap[clearing].messages[k]
    <3> DEFINE old == heap[clearing].messages
    <3> DEFINE kept == Younger(old, now, MessageAge)
    <3>1. \A i \in 1 .. Len(kept) : \E k \in 1 .. Len(old) :
            kept[i] = old[k] /\ now - old[k].touched < MessageAge
      BY <2>2, YoungerIs
    <3> HIDE DEF kept, old
    <3>2. \A i \in 1 .. Len(kept) : \E k \in 1 .. Len(old) : kept[i] = old[k]
      BY <3>1
    <3> QED
      BY <3>2, <2>1 DEF kept, old
  <2>4. addresses \in Storages \cup {NoStorage}
    BY TypesOf
  <2>5. \A a : HeldAt(a, heap', addresses) => HeldAt(a, heap, addresses)
    <3>1. CASE addresses = clearing
      BY <3>1, <2>3 DEF HeldAt
    <3>2. CASE addresses # clearing
      BY <3>2, <2>1, <2>4 DEF HeldAt
    <3> QED
      BY <3>1, <3>2
  <2> QED
    BY <2>1, <2>5, <1>1 DEF Covers, Passed
<1>5. ASSUME ClearBegin \/ Tick \/ UNCHANGED routerVars
      PROVE  Goal
  <2>1. /\ heap' = heap /\ put' = put /\ appended' = appended
        /\ addresses' \in {addresses, NoStorage}
    BY <1>5 DEF ClearBegin, Tick, routerVars
  <2>2. \A a : HeldAt(a, heap, addresses') => HeldAt(a, heap, addresses)
    BY <2>1 DEF HeldAt
  <2> QED
    BY <2>1, <2>2, <1>1 DEF Covers, Passed
<1> QED
  BY <1>2, <1>3, <1>4, <1>5 DEF RouterStep

(* An answer that was read from the storage of the address sends what its  *)
(* cursor passes, or has an excuse; the cursor of one that was read from   *)
(* an older storage is below all of its ids.                               *)
LEMMA ReadCovers ==
  ASSUME Types, Ledger, restarts = 0, NEW p \in Polls, poll[p].pc = "read", NEW H,
         CoversNow(poll[p].after, H)
  PROVE  CoversNow(Answer(p).lastId, H \cup {m.post : m \in Answer(p).sent})
<1> DEFINE s == poll[p].storage
<1> DEFINE c == poll[p].after
<1> DEFINE d == Answer(p).lastId
<1> DEFINE batch == {m.post : m \in Answer(p).sent}
<1>1. /\ s \in Storages /\ heap[s].messages \in Seq(Message) /\ c \in Nat
  BY TypesOf, PollFields DEF Types
<1>2. /\ d = c \/ \E i \in 1 .. Len(heap[s].messages) : d = heap[s].messages[i].id
      /\ d \in Nat
  BY <1>1, GetMessageType DEF Answer
<1>3. GivenOut(c, put) /\ Passed(c, H, appended, heap, addresses)
  BY DEF CoversNow, Covers
<1>4. GivenOut(d, put)
  <2>1. ASSUME NEW i \in 1 .. Len(heap[s].messages), d = heap[s].messages[i].id
        PROVE  GivenOut(d, put)
    <3> DEFINE g == heap[s].messages[i].post
    <3>1. g \in Posts /\ put[g].pc = "done" /\ put[g].id = heap[s].messages[i].id
      BY <1>1, HeapFacts
    <3> HIDE DEF g, d
    <3> QED
      BY <3>1, <2>1 DEF GivenOut
  <2> HIDE DEF d
  <2> QED
    BY <2>1, <1>2, <1>3
<1>5. ASSUME NEW k \in 1 .. Len(appended), HeldAt(appended[k], heap, addresses),
             appended[k].message.id <= d
      PROVE  appended[k].message.post \in H \cup batch \/ Excused(appended, k)
  <2> DEFINE a == appended[k]
  <2>1. /\ a.message.id \in Nat /\ a.storage = addresses /\ addresses \in Storages
        /\ a.message.post \in Posts
        /\ put[a.message.post].pc = "done" /\ put[a.message.post].id = a.message.id
        /\ put[a.message.post].storage = addresses
    BY <1>5, EntryFacts DEF HeldAt
  <2>2. ASSUME a.message.id <= c
        PROVE  a.message.post \in H \/ Excused(appended, k)
    BY <2>2, <1>3, <1>5 DEF Passed
  <2>3. CASE addresses # s
    <3>1. d = c
      <4>1. ASSUME NEW i \in 1 .. Len(heap[s].messages), d = heap[s].messages[i].id
            PROVE  FALSE
        <5> DEFINE g == heap[s].messages[i].post
        <5>1. /\ g \in Posts /\ put[g].pc = "done" /\ put[g].storage = s
              /\ put[g].id = d
          BY <4>1, <1>1, HeapFacts
        <5>2. s < addresses
          <6>1. addresses = Len(heap) /\ Len(heap) \in Nat
            BY <2>1, TypesOf DEF Ledger, Ids, Storages, NoStorage
          <6> QED
            BY <6>1, <1>1, <2>3 DEF Storages
        <5> HIDE DEF g, s, d
        <5>3. put[g].id < put[a.message.post].id
          BY <5>1, <5>2, <2>1 DEF Ledger, IdsInOrder
        <5> QED
          BY <5>1, <5>3, <2>1, <1>2, <1>5
      <4> QED
        BY <4>1, <1>2
    <3> QED
      BY <3>1, <2>2, <1>5
  <2>4. CASE addresses = s
    <3>1. PICK i \in 1 .. Len(heap[s].messages) : heap[s].messages[i] = a.message
      BY <2>4, <1>5 DEF HeldAt
    <3>2. heap[s].messages[i].id <= GetMessage(heap[s].messages, c).lastId
      BY <3>1, <1>5 DEF Answer
    <3>3. \/ heap[s].messages[i] \in GetMessage(heap[s].messages, c).sent
          \/ heap[s].messages[i].id <= c
          \/ heap[s].messages[i].size >= MaxSize
          \/ \E j \in 1 .. Len(heap[s].messages) :
               /\ i < j /\ heap[s].messages[i].id <= heap[s].messages[j].id
               /\ heap[s].messages[j].size < heap[s].messages[i].size
          \/ \E j \in 1 .. Len(heap[s].messages) :
               j < i /\ heap[s].messages[i].id <= heap[s].messages[j].id
      BY <1>1, <3>2, GetMessageCovers
    <3>4. CASE heap[s].messages[i] \in GetMessage(heap[s].messages, c).sent
      BY <3>1, <3>4 DEF Answer
    <3>5. CASE heap[s].messages[i].id <= c
      BY <3>1, <3>5, <2>2
    <3>6. CASE heap[s].messages[i].size >= MaxSize
      BY <3>1, <3>6 DEF Excused
    <3>7. ASSUME NEW j \in 1 .. Len(heap[s].messages),
                 i < j, heap[s].messages[i].id <= heap[s].messages[j].id,
                 heap[s].messages[j].size < heap[s].messages[i].size
          PROVE  Excused(appended, k)
      <4>1. heap[s].messages[i].id # heap[s].messages[j].id
        BY <3>7, <1>1, HeapOrder
      <4>2. heap[s].messages[j].id \in Nat
        BY <1>1, HeapFacts
      <4>3. PICK l \in 1 .. Len(appended) : At(appended, l, heap[s].messages[j], s)
        BY <1>1, HeapFacts
      <4>4. /\ appended[l].message.id > a.message.id
            /\ appended[l].message.size < a.message.size
        BY <4>1, <4>2, <4>3, <3>1, <3>7, <2>1 DEF At
      <4> QED
        BY <4>4 DEF Excused
    <3>8. ASSUME NEW j \in 1 .. Len(heap[s].messages),
                 j < i, heap[s].messages[i].id <= heap[s].messages[j].id
          PROVE  Excused(appended, k)
      <4>1. heap[s].messages[j].id # heap[s].messages[i].id
        BY <3>8, <1>1, HeapOrder
      <4>2. heap[s].messages[j].id \in Nat
        BY <1>1, HeapFacts
      <4>3. PICK l \in 1 .. Len(appended), m \in 1 .. Len(appended) :
              /\ l < m
              /\ At(appended, l, heap[s].messages[j], s)
              /\ At(appended, m, heap[s].messages[i], s)
        BY <3>8, <1>1, HeapOrder
      <4>4. m = k
        <5>1. appended[m].message.post = appended[k].message.post
          BY <4>3, <3>1 DEF At
        <5>2. ~(m < k) /\ ~(k < m)
          BY <5>1 DEF Ledger, Recorded
        <5>3. m \in Int /\ k \in Int
          OBVIOUS
        <5> QED
          BY <5>2, <5>3
      <4>5. /\ l < k /\ appended[l].storage = a.storage
            /\ appended[l].message.id > a.message.id
        BY <4>1, <4>2, <4>3, <4>4, <3>1, <3>8, <2>1, <2>4 DEF At
      <4> QED
        BY <4>5 DEF Excused
    <3> QED
      BY <3>3, <3>4, <3>5, <3>6, <3>7, <3>8
  <2> QED
    BY <2>3, <2>4
<1> QED
  BY <1>4, <1>5 DEF CoversNow, Covers, Passed

(* More that was handed over covers no less. *)
LEMMA CoversMore ==
  ASSUME NEW c, NEW H, NEW K, H \subseteq K, CoversNow(c, H)
  PROVE  CoversNow(c, K)
BY DEF CoversNow, Covers, Passed

(* With no storage at the address, and with the cursor 0, nothing is       *)
(* passed.                                                                 *)
LEMMA CoversNothing ==
  ASSUME Types, Ledger, NEW H
  PROVE  CoversNow(0, H)
<1>1. ASSUME NEW k \in 1 .. Len(appended)
      PROVE  ~(appended[k].message.id <= 0)
  <2>1. /\ appended[k].message.post \in Posts /\ appended[k].message.id \in Nat
        /\ put[appended[k].message.post].pc = "done"
        /\ put[appended[k].message.post].id = appended[k].message.id
    BY EntryFacts
  <2> HIDE DEF Ledger
  <2>2. put[appended[k].message.post].id >= 1
    BY <2>1 DEF Ledger, Ids
  <2> QED
    BY <2>1, <2>2
<1> QED
  BY <1>1 DEF CoversNow, Covers, Passed, GivenOut

(* No step of a poll uncovers a cursor. *)
LEMMA PollCovered ==
  ASSUME Types, Ledger, restarts = 0, Covered, NEW p \in Polls, PollStep(p)
  PROVE  Covered'
<1>1. UNCHANGED routerVars
  BY CheckFlagEffect, BeginPollEffect, LookUpEffect, ReadEffect, LosePollEffect,
     TakeAnswerEffect, EndPollEffect DEF PollStep
<1>2. /\ appended' = appended /\ heap' = heap /\ addresses' = addresses /\ put' = put
  BY <1>1 DEF routerVars
<1>3. \A c, H : CoversNow(c, H) => Covers(c, H, appended', heap', addresses', put')
  BY <1>2 DEF CoversNow
<1>4. HandedOver \subseteq HandedOver'
  <2>1. CASE TakeAnswer(p)
    <3>1. handed' = [f \in Posts |-> IF f \in poll[p].batch /\ handed[f] < 2
                                     THEN handed[f] + 1 ELSE handed[f]]
      BY <2>1, TakeAnswerEffect
    <3>2. \A f \in Posts : handed[f] \in 0 .. 2
      BY TypesOf DEF PeerTypeOK
    <3>3. \A f \in Posts : handed[f] > 0 => handed'[f] > 0
      BY <3>1, <3>2
    <3> QED
      BY <3>3 DEF HandedOver
  <2>2. CASE ~TakeAnswer(p)
    <3>1. handed' = handed
      BY <2>2, CheckFlagEffect, BeginPollEffect, LookUpEffect, ReadEffect, LosePollEffect,
         EndPollEffect DEF PollStep
    <3> QED
      BY <3>1 DEF HandedOver
  <2> QED
    BY <2>1, <2>2
<1>5. PICK r : poll' = [poll EXCEPT ![p] = r]
  <2>1. CheckFlag(p) \/ BeginPoll(p) \/ LookUp(p) => \E r : poll' = [poll EXCEPT ![p] = r]
    BY CheckFlagEffect, BeginPollEffect, LookUpEffect
  <2>2. Read(p) \/ LosePoll(p) => \E r : poll' = [poll EXCEPT ![p] = r]
    BY ReadEffect, LosePollEffect
  <2>3. TakeAnswer(p) \/ EndPoll(p) => \E r : poll' = [poll EXCEPT ![p] = r]
    BY TakeAnswerEffect, EndPollEffect
  <2> QED
    BY <2>1, <2>2, <2>3 DEF PollStep
<1>6. poll'[p] = r /\ \A q \in Polls : q # p => poll'[q] = poll[q]
  BY <1>5, PollFields
<1> DEFINE Cov(c, H) == Covers(c, H, appended', heap', addresses', put')
<1>7. \A q \in Polls : q # p =>
        /\ poll'[q].pc \in {"request", "read"} => Cov(poll'[q].after, HandedOver')
        /\ poll'[q].pc = "answer" => Cov(poll'[q].last, HandedOver' \cup poll'[q].batch)
  <2> TAKE q \in Polls
  <2> HAVE q # p
  <2>1. /\ poll[q].pc \in {"request", "read"} => CoversNow(poll[q].after, HandedOver)
        /\ poll[q].pc = "answer" => CoversNow(poll[q].last, HandedOver \cup poll[q].batch)
    BY DEF Covered
  <2>2. poll'[q] = poll[q]
    BY <1>6
  <2>3. HandedOver \cup poll[q].batch \subseteq HandedOver' \cup poll[q].batch
    BY <1>4
  <2>4. poll[q].pc \in {"request", "read"} => CoversNow(poll[q].after, HandedOver')
    BY <2>1, <1>4, CoversMore
  <2>5. poll[q].pc = "answer" => CoversNow(poll[q].last, HandedOver' \cup poll[q].batch)
    BY <2>1, <2>3, CoversMore
  <2> QED
    BY <2>2, <2>4, <2>5, <1>3
<1>8. CoversNow(lastReceivedMessageId', HandedOver')
  <2>1. CASE TakeAnswer(p)
    <3>1. /\ lastReceivedMessageId' = poll[p].last /\ poll[p].pc = "answer"
          /\ handed' = [f \in Posts |-> IF f \in poll[p].batch /\ handed[f] < 2
                                        THEN handed[f] + 1 ELSE handed[f]]
      BY <2>1, TakeAnswerEffect
    <3>2. CoversNow(poll[p].last, HandedOver \cup poll[p].batch)
      BY <3>1 DEF Covered
    <3>3. poll[p].batch \subseteq HandedOver'
      <4>1. \A f \in Posts : handed[f] \in 0 .. 2
        BY TypesOf DEF PeerTypeOK
      <4>2. \A f \in poll[p].batch : f \in Posts /\ handed'[f] > 0
        BY <3>1, <4>1, PollFields
      <4> QED
        BY <4>2 DEF HandedOver
    <3>4. HandedOver \cup poll[p].batch \subseteq HandedOver'
      BY <3>3, <1>4
    <3> QED
      BY <3>1, <3>2, <3>4, CoversMore
  <2>2. CASE ~TakeAnswer(p)
    <3>1. lastReceivedMessageId' = lastReceivedMessageId
      BY <2>2, CheckFlagEffect, BeginPollEffect, LookUpEffect, ReadEffect, LosePollEffect,
         EndPollEffect DEF PollStep
    <3> QED
      BY <3>1, <1>4, CoversMore DEF Covered
  <2> QED
    BY <2>1, <2>2
<1>9. /\ poll'[p].pc \in {"request", "read"} => CoversNow(poll'[p].after, HandedOver')
      /\ poll'[p].pc = "answer" => CoversNow(poll'[p].last, HandedOver' \cup poll'[p].batch)
  <2>1. CASE BeginPoll(p)
    <3>1. /\ poll' = [poll EXCEPT ![p] = PollOf("request", lastReceivedMessageId,
                                                 poll[p].storage, poll[p].last, poll[p].batch)]
          /\ lastReceivedMessageId' = lastReceivedMessageId
      BY <2>1, BeginPollEffect
    <3>2. poll'[p].pc = "request" /\ poll'[p].after = lastReceivedMessageId
      BY <3>1, PollFields DEF PollOf
    <3> QED
      BY <3>1, <3>2, <1>8
  <2>2. CASE LookUp(p)
    <3>1. /\ poll' = [poll EXCEPT ![p] =
                       IF addresses = NoStorage
                       THEN PollOf("answer", poll[p].after, poll[p].storage, 0, poll[p].batch)
                       ELSE PollOf("read", poll[p].after, addresses, poll[p].last, poll[p].batch)]
          /\ poll[p].pc = "request"
      BY <2>2, LookUpEffect
    <3>2. CASE addresses = NoStorage
      <4>1. poll'[p].pc = "answer" /\ poll'[p].last = 0
        BY <3>1, <3>2, PollFields DEF PollOf
      <4> QED
        BY <4>1, CoversNothing
    <3>3. CASE addresses # NoStorage
      <4>1. poll'[p].pc = "read" /\ poll'[p].after = poll[p].after
        BY <3>1, <3>3, PollFields DEF PollOf
      <4>2. CoversNow(poll[p].after, HandedOver)
        BY <3>1 DEF Covered
      <4> QED
        BY <4>1, <4>2, <1>4, CoversMore
    <3> QED
      BY <3>2, <3>3
  <2>3. CASE Read(p)
    <3> DEFINE batch == {m.post : m \in Answer(p).sent}
    <3>1. /\ poll' = [poll EXCEPT ![p] =
                       PollOf("answer", poll[p].after, NoStorage, Answer(p).lastId, batch)]
          /\ poll[p].pc = "read"
      BY <2>3, ReadEffect
    <3>2. CoversNow(poll[p].after, HandedOver)
      BY <3>1 DEF Covered
    <3>3. CoversNow(Answer(p).lastId, HandedOver \cup batch)
      BY <3>1, <3>2, ReadCovers
    <3> HIDE DEF batch
    <3>4. poll'[p].pc = "answer" /\ poll'[p].last = Answer(p).lastId /\ poll'[p].batch = batch
      BY <3>1, PollFields DEF PollOf
    <3>5. HandedOver \cup batch \subseteq HandedOver' \cup batch
      BY <1>4
    <3> QED
      BY <3>3, <3>4, <3>5, CoversMore
  <2>4. CASE CheckFlag(p)
    <3>1. poll' = [poll EXCEPT ![p] = PollOf("checked", poll[p].after, poll[p].storage,
                                             poll[p].last, poll[p].batch)]
      BY <2>4, CheckFlagEffect
    <3>2. poll'[p].pc = "checked"
      BY <3>1, PollFields DEF PollOf
    <3> QED
      BY <3>2
  <2>5. CASE LosePoll(p) \/ TakeAnswer(p)
    <3>1. poll' = [poll EXCEPT ![p] = PollOf("clear", 0, NoStorage, 0, {})]
      BY <2>5, LosePollEffect, TakeAnswerEffect
    <3>2. poll'[p].pc = "clear"
      BY <3>1, PollFields DEF PollOf
    <3> QED
      BY <3>2
  <2>6. CASE EndPoll(p)
    <3>1. poll' = [poll EXCEPT ![p] = PollOf("idle", 0, NoStorage, 0, {})]
      BY <2>6, EndPollEffect
    <3>2. poll'[p].pc = "idle"
      BY <3>1, PollFields DEF PollOf
    <3> QED
      BY <3>2
  <2> QED
    BY <2>1, <2>2, <2>3, <2>4, <2>5, <2>6 DEF PollStep
<1>10. Cov(lastReceivedMessageId', HandedOver')
  BY <1>3, <1>8
<1>11. /\ poll'[p].pc \in {"request", "read"} => Cov(poll'[p].after, HandedOver')
       /\ poll'[p].pc = "answer" => Cov(poll'[p].last, HandedOver' \cup poll'[p].batch)
  BY <1>3, <1>9
<1> QED
  BY <1>7, <1>10, <1>11 DEF Covered, CoversNow

(* PassedOverOnlyIf holds in every state: however polls overlap and        *)
(* storages are cleared or forgotten, the cursor passes a message that was *)
(* not handed over only if it is excused.                                  *)
THEOREM PassedOverOnlyIfAlways == Spec => []PassedOverOnlyIf
<1> DEFINE Inv == Types /\ Ledger /\ (restarts = 0 => Covered)
<1>1. Init => Inv
  <2> SUFFICES ASSUME Init PROVE Inv
    OBVIOUS
  <2>1. Types /\ Ledger
    BY InitTypes, InitLedger
  <2>2. lastReceivedMessageId = 0 /\ \A p \in Polls : poll[p].pc = "idle"
    BY DEF Init, PeerInit, IdlePoll
  <2>3. CoversNow(0, HandedOver)
    BY <2>1, CoversNothing
  <2> QED
    BY <2>1, <2>2, <2>3 DEF Covered
<1>2. Inv /\ [Next]_vars => Inv'
  <2> SUFFICES ASSUME Types, Ledger, restarts = 0 => Covered, [Next]_vars, restarts' = 0
               PROVE  Covered'
    <3>1. Types /\ Ledger /\ [Next]_vars => Types' /\ Ledger'
      BY NextTypes, NextLedger
    <3> QED
      BY <3>1
  <2>1. ASSUME NEW p \in Polls, PollStep(p)
        PROVE  Covered'
    <3>1. restarts' = restarts
      BY <2>1, CheckFlagEffect, BeginPollEffect, LookUpEffect, ReadEffect, LosePollEffect,
         TakeAnswerEffect, EndPollEffect DEF PollStep, routerVars
    <3> QED
      BY <2>1, <3>1, PollCovered
  <2>2. ASSUME RouterStep, UNCHANGED peerVars
        PROVE  Covered'
    <3>1. restarts' = restarts
      BY <2>2 DEF RouterStep, PutBegin, PutEnd, ClearBegin, ClearEnd, Tick, routerVars
    <3>2. restarts = 0 /\ Covered
      BY <3>1
    <3>3. lastReceivedMessageId' = lastReceivedMessageId /\ poll' = poll /\ handed' = handed
      BY <2>2 DEF peerVars
    <3>4. HandedOver' = HandedOver
      BY <3>3 DEF HandedOver
    <3>5. lastReceivedMessageId \in Nat
      BY TypesOf DEF PeerTypeOK
    <3>6. \A c \in Nat : \A H : CoversNow(c, H) =>
            Covers(c, H, appended', heap', addresses', put')
      BY <2>2, <3>2, RouterCovers
    <3>7. Covers(lastReceivedMessageId, HandedOver, appended', heap', addresses', put')
      BY <3>2, <3>5, <3>6 DEF Covered
    <3>8. \A p \in Polls :
            /\ poll[p].pc \in {"request", "read"} =>
                 Covers(poll[p].after, HandedOver, appended', heap', addresses', put')
            /\ poll[p].pc = "answer" =>
                 Covers(poll[p].last, HandedOver \cup poll[p].batch,
                        appended', heap', addresses', put')
      BY <3>2, <3>6, PollFields DEF Covered
    <3> QED
      BY <3>3, <3>4, <3>7, <3>8 DEF Covered, CoversNow
  <2>3. ASSUME Restart
        PROVE  FALSE
    BY <2>3, RestartEffect, TypesOf
  <2>4. RouterNext => RouterStep
    BY DEF RouterNext, RouterStep
  <2>5. UNCHANGED vars => RouterStep /\ UNCHANGED peerVars
    BY DEF vars, RouterStep
  <2> QED
    BY <2>1, <2>2, <2>3, <2>4, <2>5 DEF Next
<1>3. Inv => PassedOverOnlyIf
  <2> SUFFICES ASSUME Types, Ledger, restarts = 0, Covered,
                      NEW a \in ToSet(appended), addresses = a.storage,
                      a.message \in ToSet(heap[addresses].messages),
                      a.message.id <= lastReceivedMessageId, handed[a.message.post] = 0
               PROVE  \/ Crossed(a)
                      \/ a.message.size >= MaxSize
                      \/ \E b \in ToSet(appended) :
                           b.message.id > a.message.id /\ b.message.size < a.message.size
    BY DEF PassedOverOnlyIf
  <2>1. DOMAIN appended = 1 .. Len(appended)
    BY TypesOf
  <2>2. PICK k \in 1 .. Len(appended) : a = appended[k]
    BY <2>1 DEF ToSet
  <2>3. addresses \in Storages /\ addresses # NoStorage
    <3>1. appended[k].storage \in Storages
      BY EntryFacts
    <3> QED
      BY <2>2, <3>1 DEF Storages, NoStorage
  <2>4. HeldAt(appended[k], heap, addresses)
    <3>1. heap[addresses].messages \in Seq(Message)
      BY <2>3, TypesOf
    <3>2. DOMAIN heap[addresses].messages = 1 .. Len(heap[addresses].messages)
      BY <3>1
    <3> QED
      BY <2>2, <2>3, <3>2 DEF HeldAt, ToSet
  <2>5. appended[k].message.post \in HandedOver \/ Excused(appended, k)
    BY <2>2, <2>4 DEF Covered, CoversNow, Covers, Passed
  <2>6. Excused(appended, k)
    BY <2>2, <2>5 DEF HandedOver
  <2>7. \A l \in 1 .. Len(appended) : appended[l] \in ToSet(appended)
    BY <2>1 DEF ToSet
  <2> QED
    BY <2>1, <2>2, <2>6, <2>7 DEF Excused, Crossed
<1> QED
  BY <1>1, <1>2, <1>3, PTL DEF Spec
-----------------------------------------------------------------------------
(* What the router numbered since it was last started: the Puts under way  *)
(* and those that were appended since (EraIds).  A storage that is in use  *)
(* holds nothing older.                                                    *)
Now(f) == \E k \in 1 .. Len(appended) :
            appended[k].message.post = f /\ appended[k].router = restarts

Numbered(f) == put[f].pc = "append" \/ Now(f)

Ours(s) == \A f \in Posts : put[f].pc = "done" /\ put[f].storage = s => Now(f)

InUse(s) ==
  \/ s = addresses
  \/ \E f \in Posts : put[f].pc = "append" /\ put[f].storage = s
  \/ \E p \in Polls : poll[p].pc = "read" /\ poll[p].storage = s

Eras ==
  /\ \A f \in Posts : Numbered(f) => put[f].id < nextId
  /\ \A f, g \in Posts : Numbered(f) /\ Numbered(g) /\ put[f].storage < put[g].storage =>
       put[f].id < put[g].id
  /\ \A s \in Storages : InUse(s) => Ours(s)
  /\ \A p \in Polls : \A f \in poll[p].batch : put[f].pc = "done"

(* The fields of a Put. *)
LEMMA PutFields ==
  ASSUME Types, NEW f \in Posts
  PROVE  /\ put[f].storage \in 0 .. Len(heap) /\ put[f].id \in Nat
         /\ put[f].pc # "unsent" => put[f].storage \in Storages
<1>1. put[f] \in PutState
  BY TypesOf
<1>2. put[f].storage \in Storages \cup {NoStorage} /\ put[f].id \in Nat
  BY <1>1 DEF PutState
<1>3. put[f].pc # "unsent" => put[f].storage \in Storages
  BY DEF Types
<1> QED
  BY <1>2, <1>3, TypesOf DEF Storages, NoStorage

(* What is numbered in this era and done was put. *)
LEMMA NowIsDone ==
  ASSUME Types, Ledger, NEW f \in Posts, Now(f)
  PROVE  /\ put[f].pc = "done"
         /\ \E k \in 1 .. Len(appended) :
              /\ appended[k].message.post = f /\ appended[k].router = restarts
              /\ appended[k].message.id = put[f].id /\ appended[k].storage = put[f].storage
<1>1. PICK k \in 1 .. Len(appended) : appended[k].message.post = f /\ appended[k].router = restarts
  BY DEF Now
<1> QED
  BY <1>1, EntryFacts

LEMMA InitEras ==
  ASSUME Init
  PROVE  Eras
<1>1. /\ heap = <<>> /\ appended = <<>>
      /\ put = [f \in Posts |-> [pc |-> "unsent", storage |-> NoStorage, id |-> 0]]
      /\ poll = [p \in Polls |-> IdlePoll]
  BY DEF Init, RouterInit, PeerInit
<1>2. Len(appended) = 0 /\ Storages = {}
  BY <1>1 DEF Storages
<1>3. \A f \in Posts : ~Numbered(f)
  BY <1>1, <1>2 DEF Numbered, Now
<1>4. \A p \in Polls : poll[p].batch = {}
  BY <1>1 DEF IdlePoll
<1> QED
  BY <1>2, <1>3, <1>4 DEF Eras

(* A Put that begins is numbered last, in the newest storage. *)
LEMMA PutBeginEras ==
  ASSUME Types, Ledger, Eras, NEW f \in Posts, PutBegin(f), UNCHANGED peerVars
  PROVE  Eras'
<1>1. /\ put[f].pc = "unsent"
      /\ put'[f] = [pc |-> "append", storage |-> addresses', id |-> nextId]
      /\ \A g \in Posts : g # f => put'[g] = put[g]
      /\ nextId' = nextId + 1
      /\ UNCHANGED <<restarts, appended>>
  BY PutBeginEffect
<1>2. addresses' \in Nat /\ \A g \in Posts : put[g].storage <= addresses'
  <2>1. Len(heap) \in Nat /\ (addresses' = Len(heap) \/ addresses' = Len(heap) + 1)
    BY PutBeginEffect, TypesOf DEF Ledger, Ids
  <2> QED
    BY <2>1, PutFields
<1>3. \A g \in Posts : Now(g)' = Now(g)
  BY <1>1 DEF Now
<1>4. \A g \in Posts : g # f => Numbered(g)' = Numbered(g)
  BY <1>1, <1>3 DEF Numbered
<1>5. \A g \in Posts : g # f /\ Numbered(g)' => put[g].id < nextId
  BY <1>4 DEF Eras
<1>6. nextId \in Nat /\ \A g \in Posts : put[g].id \in Nat /\ put[g].storage \in Nat
  BY TypesOf, PutFields
<1>7. \A g \in Posts : Numbered(g)' => put'[g].id < nextId'
  BY <1>1, <1>5, <1>6
<1>8. ASSUME NEW g \in Posts, NEW h \in Posts, Numbered(g)', Numbered(h)',
             put'[g].storage < put'[h].storage
      PROVE  put'[g].id < put'[h].id
  <2>1. g # f
    BY <1>1, <1>2, <1>6, <1>8
  <2>2. CASE h = f
    BY <2>1, <2>2, <1>1, <1>5, <1>8
  <2>3. CASE h # f
    BY <2>1, <2>3, <1>1, <1>4, <1>8 DEF Eras
  <2> QED
    BY <2>2, <2>3
<1>9. ASSUME NEW s \in Storages', InUse(s)'
      PROVE  Ours(s)'
  <2>1. poll' = poll
    BY DEF peerVars
  <2>2. CASE s \in Storages
    <3>1. InUse(s)
      <4>1. addresses' = s => addresses = s
        BY <2>2, PutBeginEffect, TypesOf DEF Storages
      <4> QED
        BY <4>1, <2>1, <1>1, <1>9 DEF InUse
    <3>2. Ours(s)
      BY <3>1, <2>2 DEF Eras
    <3> QED
      BY <3>2, <1>1, <1>3 DEF Ours
  <2>3. CASE s \notin Storages
    <3>1. \A g \in Posts : put[g].pc = "done" => put[g].storage # s
      BY <2>3, PutFields
    <3> QED
      BY <3>1, <1>1 DEF Ours
  <2> QED
    BY <2>2, <2>3
<1>10. \A p \in Polls : \A g \in poll'[p].batch : put'[g].pc = "done"
  <2>1. poll' = poll
    BY DEF peerVars
  <2> QED
    BY <2>1, <1>1, PollFields DEF Eras
<1> QED
  BY <1>7, <1>8, <1>9, <1>10 DEF Eras

(* A Put that ends keeps its number. *)
LEMMA PutEndNow ==
  ASSUME Types, NEW f \in Posts, PutEnd(f)
  PROVE  \A g \in Posts : Now(g)' <=> (Now(g) \/ g = f)
<1>1. /\ Len(appended') = Len(appended) + 1
      /\ appended'[Len(appended) + 1] = SentEntry(f)
      /\ \A k \in 1 .. Len(appended) : appended'[k] = appended[k]
      /\ restarts' = restarts
  BY PutEndEffect
<1>2. SentEntry(f).message.post = f /\ SentEntry(f).router = restarts
  BY DEF SentEntry, Sent
<1> DEFINE n == Len(appended)
<1>3. n \in Nat
  BY TypesOf
<1> HIDE DEF n
<1>4. \A k : k \in 1 .. n + 1 <=> (k \in 1 .. n \/ k = n + 1)
  BY <1>3
<1> QED
  BY <1>1, <1>2, <1>4 DEF Now, n

LEMMA PutEndEras ==
  ASSUME Types, Ledger, Eras, NEW f \in Posts, PutEnd(f), UNCHANGED peerVars
  PROVE  Eras'
<1>1. /\ put[f].pc = "append"
      /\ put'[f] = [pc |-> "done", storage |-> put[f].storage, id |-> put[f].id]
      /\ \A g \in Posts : g # f => put'[g] = put[g]
      /\ Storages' = Storages
      /\ UNCHANGED <<nextId, addresses>>
  BY PutEndEffect
<1>2. \A g \in Posts : Now(g)' <=> (Now(g) \/ g = f)
  BY PutEndNow
<1>3. poll' = poll
  BY DEF peerVars
<1>4. \A g \in Posts : Numbered(g)' => Numbered(g)
  BY <1>1, <1>2 DEF Numbered
<1>5. \A g \in Posts : put'[g].id = put[g].id /\ put'[g].storage = put[g].storage
  BY <1>1
<1>6. \A g \in Posts : put[g].pc = "done" => put'[g].pc = "done"
  BY <1>1
<1>7. \A s : InUse(s)' => InUse(s)
  BY <1>1, <1>3 DEF InUse
<1>8. \A s \in Storages : Ours(s) => Ours(s)'
  BY <1>1, <1>2 DEF Ours
<1>9. \A p \in Polls : \A g \in poll'[p].batch : put'[g].pc = "done"
  BY <1>3, <1>6, PollFields DEF Eras
<1> QED
  BY <1>1, <1>4, <1>5, <1>7, <1>8, <1>9 DEF Eras

(* The other steps of the router number nothing. *)
LEMMA OtherEras ==
  ASSUME Types, Eras, ClearBegin \/ ClearEnd \/ Tick \/ UNCHANGED routerVars, UNCHANGED peerVars
  PROVE  Eras'
<1>1. /\ put' = put /\ appended' = appended /\ restarts' = restarts /\ nextId' = nextId
      /\ poll' = poll /\ Storages' = Storages /\ addresses' \in {addresses, NoStorage}
  BY ClearEndEffect DEF ClearBegin, Tick, routerVars, peerVars, Storages
<1>2. /\ \A f \in Posts : Now(f)' = Now(f) /\ Numbered(f)' = Numbered(f)
      /\ \A s \in Storages : Ours(s)' = Ours(s)
  BY <1>1 DEF Now, Numbered, Ours
<1>3. NoStorage \notin Storages
  BY DEF Storages, NoStorage
<1>4. \A s \in Storages : InUse(s)' => InUse(s)
  BY <1>1, <1>3 DEF InUse
<1> QED
  BY <1>1, <1>2, <1>4 DEF Eras

(* A restart begins a new era. *)
LEMMA RestartEras ==
  ASSUME Types, Ledger, Eras, Restart
  PROVE  Eras'
<1>1. /\ \A f \in Posts : put'[f].pc # "append" /\ (put[f].pc = "done" => put'[f] = put[f])
      /\ \A p \in Polls : poll'[p].pc # "read" /\ (poll'[p] = poll[p] \/ poll'[p].batch = {})
      /\ addresses' = NoStorage /\ restarts' = restarts + 1
      /\ UNCHANGED <<heap, appended>>
  BY RestartEffect DEF PollOf
<1>2. \A f \in Posts : ~Now(f)'
  <2>1. \A k \in 1 .. Len(appended) : appended[k].router \in Nat /\ appended[k].router <= restarts
    BY EntryFacts DEF RecordOf
  <2> QED
    BY <2>1, <1>1, TypesOf DEF Now
<1>3. \A f \in Posts : ~Numbered(f)'
  BY <1>1, <1>2 DEF Numbered
<1>4. \A s \in Storages' : ~InUse(s)'
  BY <1>1 DEF InUse, Storages, NoStorage
<1>5. \A p \in Polls : \A f \in poll'[p].batch : put'[f].pc = "done"
  BY <1>1, PollFields DEF Eras
<1> QED
  BY <1>3, <1>4, <1>5 DEF Eras

(* Polls use the storage of the address, and answer with what was put. *)
LEMMA PollEras ==
  ASSUME Types, Ledger, Eras, NEW p \in Polls, PollStep(p)
  PROVE  Eras'
<1> DEFINE Asks(r) ==
      /\ r.pc = "read" => r.storage = addresses
      /\ \A f \in r.batch : f \in poll[p].batch \/ put[f].pc = "done"
<1>1. UNCHANGED routerVars /\ \E r : poll' = [poll EXCEPT ![p] = r] /\ Asks(r)
  <2>1. CASE Read(p)
    <3> DEFINE batch == {m.post : m \in Answer(p).sent}
    <3> DEFINE s == poll[p].storage
    <3> DEFINE r == PollOf("answer", poll[p].after, NoStorage, Answer(p).lastId, batch)
    <3>1. poll' = [poll EXCEPT ![p] = r] /\ s \in Storages /\ UNCHANGED routerVars
      BY <2>1, ReadEffect
    <3>2. ASSUME NEW m \in Answer(p).sent
          PROVE  put[m.post].pc = "done"
      <4>1. heap[s].messages \in Seq(Message) /\ poll[p].after \in Nat
        BY <3>1, TypesOf, PollFields
      <4>2. PICK i \in 1 .. Len(heap[s].messages) : m = heap[s].messages[i]
        BY <4>1, GetMessageType DEF Answer
      <4> QED
        BY <4>2, <3>1, HeapFacts
    <3>3. Asks(r)
      BY <3>2 DEF PollOf
    <3> HIDE DEF r
    <3> QED
      BY <3>1, <3>3
  <2>2. CASE LookUp(p)
    <3> DEFINE r == IF addresses = NoStorage
                    THEN PollOf("answer", poll[p].after, poll[p].storage, 0, poll[p].batch)
                    ELSE PollOf("read", poll[p].after, addresses, poll[p].last, poll[p].batch)
    <3>1. poll' = [poll EXCEPT ![p] = r] /\ UNCHANGED routerVars
      BY <2>2, LookUpEffect
    <3>2. Asks(r)
      BY DEF PollOf
    <3> HIDE DEF r
    <3> QED
      BY <3>1, <3>2
  <2>3. CASE CheckFlag(p)
    <3> DEFINE r == PollOf("checked", poll[p].after, poll[p].storage, poll[p].last, poll[p].batch)
    <3>1. poll' = [poll EXCEPT ![p] = r] /\ UNCHANGED routerVars
      BY <2>3, CheckFlagEffect
    <3>2. Asks(r)
      BY DEF PollOf
    <3> HIDE DEF r
    <3> QED
      BY <3>1, <3>2
  <2>4. CASE BeginPoll(p)
    <3> DEFINE r == PollOf("request", lastReceivedMessageId, poll[p].storage, poll[p].last, poll[p].batch)
    <3>1. poll' = [poll EXCEPT ![p] = r] /\ UNCHANGED routerVars
      BY <2>4, BeginPollEffect
    <3>2. Asks(r)
      BY DEF PollOf
    <3> HIDE DEF r
    <3> QED
      BY <3>1, <3>2
  <2>5. CASE LosePoll(p) \/ TakeAnswer(p) \/ EndPoll(p)
    <3>1. UNCHANGED routerVars
      BY <2>5, LosePollEffect, TakeAnswerEffect, EndPollEffect
    <3>2. PICK pc \in {"clear", "idle"} : poll' = [poll EXCEPT ![p] = PollOf(pc, 0, NoStorage, 0, {})]
      BY <2>5, LosePollEffect, TakeAnswerEffect, EndPollEffect
    <3>3. Asks(PollOf(pc, 0, NoStorage, 0, {}))
      BY DEF PollOf
    <3> QED
      BY <3>1, <3>2, <3>3
  <2> QED
    BY <2>1, <2>2, <2>3, <2>4, <2>5 DEF PollStep
<1>2. PICK r : poll' = [poll EXCEPT ![p] = r] /\ Asks(r)
  BY <1>1
<1>3. poll'[p] = r /\ \A q \in Polls : q # p => poll'[q] = poll[q]
  BY <1>2, PollFields
<1>4. /\ put' = put /\ appended' = appended /\ restarts' = restarts /\ nextId' = nextId
      /\ Storages' = Storages /\ addresses' = addresses
  BY <1>1 DEF routerVars, Storages
<1>5. /\ \A f \in Posts : Now(f)' = Now(f) /\ Numbered(f)' = Numbered(f)
      /\ \A s \in Storages : Ours(s)' = Ours(s)
  BY <1>4 DEF Now, Numbered, Ours
<1>6. \A s \in Storages : InUse(s)' => InUse(s)
  BY <1>2, <1>3, <1>4 DEF InUse
<1>7. \A q \in Polls : \A f \in poll'[q].batch : put'[f].pc = "done"
  BY <1>2, <1>3, <1>4 DEF Eras
<1> QED
  BY <1>4, <1>5, <1>6, <1>7 DEF Eras

LEMMA NextEras ==
  ASSUME Types, Ledger, Eras, [Next]_vars
  PROVE  Eras'
<1>1. UNCHANGED vars => UNCHANGED routerVars /\ UNCHANGED peerVars
  BY DEF vars
<1> QED
  BY <1>1, PutBeginEras, PutEndEras, OtherEras, RestartEras, PollEras DEF Next, RouterNext

-----------------------------------------------------------------------------
(* Why the order is kept, as long as no two polls overlap and no two Puts  *)
(* cross: a message that something later was handed over of lies at or     *)
(* before the cursor, which is not behind the last message.                *)
UpTo(P) ==
  {f \in Posts : put[f].pc = "done" /\ \E g \in P : Now(g) /\ put[f].id <= put[g].id}

OrderHere(c, P) == addresses # NoStorage => SettledIn(heap[addresses].messages, c, UpTo(P))

LaterThan(a, b) ==
  a.router > b.router \/ (a.router = b.router /\ a.message.id > b.message.id)

OrderOf(p) ==
  /\ poll[p].pc = "read" =>
       /\ SettledIn(heap[poll[p].storage].messages, lastReceivedMessageId, UpTo(HandedOver))
       /\ \A g \in HandedOver : Now(g) => put[g].storage <= poll[p].storage
  /\ poll[p].pc = "answer" =>
       /\ \A k, l \in 1 .. Len(appended) :
            appended[k].message.post \in poll[p].batch /\ appended[l].message.post \in HandedOver =>
              LaterThan(appended[k], appended[l])
       /\ OrderHere(poll[p].last, HandedOver \cup poll[p].batch)

InOrder == OrderHere(lastReceivedMessageId, HandedOver) /\ \A p \in Polls : OrderOf(p)

(* What a storage in use is appended comes after what was handed over.     *)
LEMMA NewIsLater ==
  ASSUME Types, Ledger, Eras, NEW f \in Posts, PutEnd(f), NoCrossing(appended'),
         NEW g \in Posts, Now(g), put[g].storage <= put[f].storage
  PROVE  put[g].id < put[f].id
<1>1. /\ put[f].pc = "append" /\ Len(appended') = Len(appended) + 1
      /\ appended'[Len(appended) + 1] = SentEntry(f)
      /\ \A k \in 1 .. Len(appended) : appended'[k] = appended[k]
  BY PutEndEffect
<1>2. put[g].pc = "done" /\ g # f
  BY <1>1, NowIsDone
<1>3. /\ put[f].storage \in Nat /\ put[g].storage \in Nat
      /\ put[f].id \in Nat /\ put[g].id \in Nat
  BY PutFields, TypesOf
<1>4. CASE put[g].storage < put[f].storage
  BY <1>1, <1>4 DEF Eras, Numbered
<1>5. CASE put[g].storage = put[f].storage
  <2>1. PICK k \in 1 .. Len(appended) :
          appended[k].message.id = put[g].id /\ appended[k].storage = put[g].storage
    BY NowIsDone
  <2> DEFINE n == Len(appended)
  <2>2. n \in Nat
    BY TypesOf
  <2>3. SentEntry(f).storage = put[f].storage /\ SentEntry(f).message.id = put[f].id
    BY DEF SentEntry, Sent
  <2>4. /\ appended'[k].message.id = put[g].id /\ appended'[k].storage = put[f].storage
        /\ appended'[n + 1].message.id = put[f].id /\ appended'[n + 1].storage = put[f].storage
        /\ Len(appended') = n + 1
    BY <2>1, <2>3, <1>1, <1>5
  <2>5. k \in 1 .. n
    OBVIOUS
  <2> HIDE DEF n
  <2>6. k \in 1 .. n + 1 /\ n + 1 \in 1 .. n + 1 /\ k < n + 1
    BY <2>2, <2>5
  <2>7. put[g].id <= put[f].id
    BY <2>4, <2>6 DEF NoCrossing
  <2>8. put[g].id # put[f].id
    BY <1>1, <1>2, <1>5 DEF Ledger, Ids
  <2> QED
    BY <2>7, <2>8, <1>3
<1> QED
  BY <1>3, <1>4, <1>5

(* The router's steps let nothing be passed that is still to be sent.      *)
LEMMA RouterPasses ==
  ASSUME Types, Ledger, Eras, RouterStep, NoCrossing(appended'),
         NEW c \in Nat, NEW P \in SUBSET Posts, \A g \in P : put[g].pc = "done",
         NEW s \in Storages, \A g \in P : Now(g) => put[g].storage <= s,
         SettledIn(heap[s].messages, c, UpTo(P))
  PROVE  SettledIn(heap'[s].messages, c, UpTo(P)')
<1>1. SettledIn(heap'[s].messages, c, UpTo(P))
  <2> PICK H \in SUBSET Posts : H = UpTo(P) /\ \A f \in H : put[f].pc = "done"
    BY DEF UpTo
  <2> QED
    BY RouterSettles
<1>2. ASSUME NEW i \in 1 .. Len(heap'[s].messages), heap'[s].messages[i].post \in UpTo(P)'
      PROVE  heap'[s].messages[i].post \in UpTo(P)
  <2> DEFINE q == heap'[s].messages[i].post
  <2>1. PICK g \in P : q \in Posts /\ put'[q].pc = "done" /\ Now(g)' /\ put'[q].id <= put'[g].id
    BY <1>2 DEF UpTo
  <2>2. CASE \E f \in Posts : PutEnd(f)
    <3>1. PICK f \in Posts : PutEnd(f)
      BY <2>2
    <3>2. /\ put[f].pc = "append" /\ put[f].storage \in Storages
          /\ put'[f].pc = "done" /\ put'[f].id = put[f].id
          /\ \A h \in Posts : h # f => put'[h] = put[h]
          /\ \A r \in Storages : r # put[f].storage => heap'[r] = heap[r]
      <4>1. put'[f] = [pc |-> "done", storage |-> put[f].storage, id |-> put[f].id]
        BY <3>1, PutEndEffect
      <4>2. put'[f].pc = "done" /\ put'[f].id = put[f].id
        BY <4>1
      <4> HIDE DEF q
      <4> QED
        BY <4>2, <3>1, PutEndEffect
    <3>3. g # f /\ Now(g) /\ put'[g] = put[g]
      BY <2>1, <3>1, <3>2, PutEndNow
    <3>4. q # f
      <4> SUFFICES ASSUME q = f PROVE FALSE
        OBVIOUS
      <4>1. s = put[f].storage
        <5> SUFFICES ASSUME s # put[f].storage PROVE FALSE
          OBVIOUS
        <5>1. heap'[s] = heap[s]
          BY <3>2
        <5>2. put[q].pc = "done"
          BY <5>1, <1>2, HeapFacts
        <5> QED
          BY <5>2, <3>2
      <4>2. put[g].id < put[f].id
        BY <4>1, <3>1, <3>3, NewIsLater
      <4>3. put[f].id <= put[g].id
        BY <2>1, <3>2, <3>3
      <4> QED
        BY <4>2, <4>3, PutFields
    <3> HIDE DEF q
    <3>5. q \in UpTo(P)
      BY <2>1, <3>2, <3>3, <3>4 DEF UpTo
    <3> QED
      BY <3>5 DEF q
  <2>3. CASE ~ \E f \in Posts : PutEnd(f)
    <3>1. /\ \A h \in Posts : put'[h] = put[h] \/ (put[h].pc = "unsent" /\ put'[h].pc = "append")
          /\ appended' = appended /\ restarts' = restarts
      BY <2>3, PutBeginEffect, ClearEndEffect DEF RouterStep, ClearBegin, Tick, routerVars
    <3>2. Now(g)
      BY <2>1, <3>1 DEF Now
    <3>3. put'[q] = put[q] /\ put'[g] = put[g]
      BY <2>1, <3>1
    <3> HIDE DEF q
    <3>4. q \in UpTo(P)
      BY <2>1, <3>2, <3>3 DEF UpTo
    <3> QED
      BY <3>4 DEF q
  <2> QED
    BY <2>2, <2>3
<1> QED
  BY <1>1, <1>2 DEF SettledIn

(* ... least of all in the storage of the address. *)
LEMMA RouterPassesHere ==
  ASSUME Types, Ledger, Eras, RouterStep, NoCrossing(appended'),
         NEW c \in Nat, NEW P \in SUBSET Posts, \A g \in P : put[g].pc = "done",
         OrderHere(c, P)
  PROVE  addresses' # NoStorage => SettledIn(heap'[addresses'].messages, c, UpTo(P)')
<1> SUFFICES ASSUME addresses' # NoStorage
             PROVE  SettledIn(heap'[addresses'].messages, c, UpTo(P)')
  OBVIOUS
<1>1. \/ addresses' = addresses
      \/ addresses' \notin Storages /\ heap'[addresses'].messages = <<>>
  <2>1. {} \in SUBSET Posts
    OBVIOUS
  <2> QED
    BY <2>1, RouterSettles
<1>2. CASE addresses' = addresses
  <2>1. addresses \in Storages /\ addresses = Len(heap)
    BY <1>2, TypesOf DEF Ledger, Ids
  <2>2. \A g \in P : put[g].storage <= addresses
    BY <2>1, PutFields
  <2>3. SettledIn(heap[addresses].messages, c, UpTo(P))
    BY <1>2 DEF OrderHere
  <2>4. PICK s \in Storages : s = addresses
    BY <2>1
  <2> QED
    BY <2>2, <2>3, <2>4, <1>2, RouterPasses
<1>3. CASE heap'[addresses'].messages = <<>>
  BY <1>3 DEF SettledIn
<1> QED
  BY <1>1, <1>2, <1>3

LEMMA InOrderRouter ==
  ASSUME Types, Ledger, Eras, Once, InOrder, RouterStep, UNCHANGED peerVars, NoCrossing(appended')
  PROVE  InOrder'
<1>1. /\ lastReceivedMessageId' = lastReceivedMessageId /\ poll' = poll /\ handed' = handed
      /\ HandedOver' = HandedOver
  BY DEF peerVars, HandedOver
<1>2. PICK c \in Nat : c = lastReceivedMessageId
  BY TypesOf DEF PeerTypeOK
<1>3. PICK H \in SUBSET Posts : H = HandedOver
  BY DEF HandedOver
<1>4. \A g \in H : put[g].pc = "done"
  <2>1. \A g \in H : g \in Posts /\ handed[g] = 1
    BY <1>3 DEF Once, HandedOver
  <2> QED
    BY <2>1 DEF Once
<1>5. OrderHere(lastReceivedMessageId, HandedOver)'
  <2>1. OrderHere(c, H)
    BY <1>2, <1>3 DEF InOrder
  <2>2. addresses' # NoStorage => SettledIn(heap'[addresses'].messages, c, UpTo(H)')
    BY <2>1, <1>4, RouterPassesHere
  <2>3. UpTo(HandedOver)' = UpTo(H)'
    BY <1>1, <1>3 DEF UpTo
  <2> QED
    BY <2>2, <2>3, <1>1, <1>2 DEF OrderHere
<1>6. ASSUME NEW p \in Polls
      PROVE  OrderOf(p)'
  <2>1. OrderOf(p) /\ OnceOf(p)
    BY DEF InOrder, Once
  <2>2. CASE poll[p].pc = "read"
    <3>1. PICK s \in Storages : s = poll[p].storage
      BY <2>2 DEF Types
    <3>2. SettledIn(heap[s].messages, c, UpTo(H)) /\ \A g \in H : Now(g) => put[g].storage <= s
      BY <2>1, <2>2, <3>1, <1>2, <1>3 DEF OrderOf
    <3>3. SettledIn(heap'[s].messages, c, UpTo(H)')
      BY <3>2, <1>4, RouterPasses
    <3>4. \A g \in H : Now(g)' => Now(g) /\ put'[g].storage = put[g].storage
      <4> SUFFICES ASSUME NEW g \in H, Now(g)'
                   PROVE  Now(g) /\ put'[g].storage = put[g].storage
        OBVIOUS
      <4>1. ASSUME NEW f \in Posts, PutEnd(f)
            PROVE  Now(g) /\ put'[g].storage = put[g].storage
        <5>1. put[f].pc = "append"
          BY <4>1, PutEndEffect
        <5> QED
          BY <4>1, <5>1, <1>4, PutEndEffect, PutEndNow
      <4>2. ASSUME ~ \E f \in Posts : PutEnd(f)
            PROVE  Now(g) /\ put'[g].storage = put[g].storage
        <5>1. /\ \A h \in Posts : put'[h] = put[h] \/ put[h].pc = "unsent"
              /\ appended' = appended /\ restarts' = restarts
          BY <4>2, PutBeginEffect, ClearEndEffect DEF RouterStep, ClearBegin, Tick, routerVars
        <5> QED
          BY <5>1, <1>4 DEF Now
      <4> QED
        BY <4>1, <4>2
    <3>5. UpTo(HandedOver)' = UpTo(H)'
      BY <1>1, <1>3 DEF UpTo
    <3>6. poll'[p].pc = "read" /\ poll'[p].storage = s
      BY <1>1, <2>2, <3>1
    <3> QED
      BY <3>2, <3>3, <3>4, <3>5, <3>6, <1>1, <1>2, <1>3 DEF OrderOf
  <2>3. CASE poll[p].pc = "answer"
    <3>1. PICK d \in Nat, B \in SUBSET Posts : d = poll[p].last /\ B = poll[p].batch
      BY PollFields
    <3>2. PICK P \in SUBSET Posts : P = H \cup B
      OBVIOUS
    <3>3. \A g \in P : put[g].pc = "done"
      BY <2>1, <2>3, <3>1, <3>2, <1>4 DEF OnceOf
    <3>4. OrderHere(d, P)
      BY <2>1, <2>3, <3>1, <3>2, <1>3 DEF OrderOf
    <3>5. addresses' # NoStorage => SettledIn(heap'[addresses'].messages, d, UpTo(P)')
      BY <3>3, <3>4, RouterPassesHere
    <3>6. UpTo(HandedOver \cup poll[p].batch)' = UpTo(P)'
      BY <3>1, <3>2, <1>1, <1>3 DEF UpTo
    <3>7. OrderHere(poll[p].last, HandedOver \cup poll[p].batch)'
      BY <3>1, <3>5, <3>6, <1>1 DEF OrderHere
    <3>8. ASSUME NEW k \in 1 .. Len(appended'), appended'[k].message.post \in P
          PROVE  k \in 1 .. Len(appended) /\ appended'[k] = appended[k]
      <4>1. ASSUME NEW f \in Posts, PutEnd(f)
            PROVE  k \in 1 .. Len(appended) /\ appended'[k] = appended[k]
        <5>1. /\ put[f].pc = "append" /\ Len(appended') = Len(appended) + 1
              /\ appended'[Len(appended) + 1] = SentEntry(f)
              /\ \A l \in 1 .. Len(appended) : appended'[l] = appended[l]
          BY <4>1, PutEndEffect
        <5>2. SentEntry(f).message.post = f
          BY DEF SentEntry, Sent
        <5>3. f \notin P
          BY <5>1, <3>3
        <5>4. k # Len(appended) + 1
          BY <5>1, <5>2, <5>3, <3>8
        <5> QED
          BY <5>1, <5>4, TypesOf
      <4>2. ASSUME ~ \E f \in Posts : PutEnd(f)
            PROVE  appended' = appended
        BY <4>2 DEF RouterStep, PutBegin, ClearBegin, ClearEnd, Tick, routerVars
      <4> QED
        BY <4>1, <4>2
    <3>9. ASSUME NEW k \in 1 .. Len(appended'), NEW l \in 1 .. Len(appended'),
                 appended'[k].message.post \in B, appended'[l].message.post \in H
          PROVE  LaterThan(appended'[k], appended'[l])
      <4>1. /\ k \in 1 .. Len(appended) /\ appended'[k] = appended[k]
            /\ l \in 1 .. Len(appended) /\ appended'[l] = appended[l]
        BY <3>2, <3>8, <3>9
      <4> QED
        BY <4>1, <2>1, <2>3, <3>1, <3>9, <1>3 DEF OrderOf
    <3>10. \A k, l \in 1 .. Len(appended') :
             appended'[k].message.post \in poll'[p].batch
               /\ appended'[l].message.post \in HandedOver' =>
                 LaterThan(appended'[k], appended'[l])
      BY <3>1, <3>9, <1>1, <1>3
    <3>11. poll'[p].pc = "answer"
      BY <1>1, <2>3
    <3> QED
      BY <3>7, <3>10, <3>11 DEF OrderOf, LaterThan
  <2>4. CASE poll[p].pc \notin {"read", "answer"}
    BY <2>4, <1>1 DEF OrderOf
  <2> QED
    BY <2>2, <2>3, <2>4
<1> QED
  BY <1>5, <1>6 DEF InOrder

(* A restart leaves what is under way to the peer as it was. *)
LEMMA InOrderRestart ==
  ASSUME Types, InOrder, Restart
  PROVE  InOrder'
<1>1. /\ \A p \in Polls : poll'[p].pc \notin {"read", "answer"} \/ poll'[p] = poll[p]
      /\ \A p \in Polls : poll'[p].pc # "read"
      /\ addresses' = NoStorage
      /\ UNCHANGED <<appended, handed>>
  BY RestartEffect DEF PollOf
<1>2. OrderHere(lastReceivedMessageId, HandedOver)'
  BY <1>1 DEF OrderHere
<1>3. ASSUME NEW p \in Polls, poll'[p].pc = "answer"
      PROVE  /\ \A k, l \in 1 .. Len(appended') :
                  appended'[k].message.post \in poll'[p].batch
                    /\ appended'[l].message.post \in HandedOver' =>
                      LaterThan(appended'[k], appended'[l])
             /\ OrderHere(poll[p].last, HandedOver \cup poll[p].batch)'
  <2>1. poll'[p] = poll[p] /\ HandedOver' = HandedOver
    BY <1>1, <1>3 DEF HandedOver
  <2>2. OrderOf(p)
    BY DEF InOrder
  <2>3. OrderHere(poll[p].last, HandedOver \cup poll[p].batch)'
    BY <1>1 DEF OrderHere
  <2> QED
    BY <2>1, <2>2, <2>3, <1>1, <1>3 DEF OrderOf
<1>4. \A p \in Polls : OrderOf(p)'
  BY <1>1, <1>3 DEF OrderOf, LaterThan
<1> QED
  BY <1>2, <1>4 DEF InOrder

(* A poll that is alone under way is in order if its own answer is. *)
LEMMA OrderAlone ==
  ASSUME Types, NEW p \in Polls, NEW r, poll' = [poll EXCEPT ![p] = r],
         \A q \in Polls : Active(q) => q = p,
         OrderHere(lastReceivedMessageId, HandedOver)',
         OrderOf(p)'
  PROVE  InOrder'
<1>1. \A q \in Polls : q # p => poll'[q] = poll[q]
  BY PollFields
<1>2. ASSUME NEW q \in Polls, q # p
      PROVE  OrderOf(q)'
  <2>1. poll'[q].pc \notin {"read", "answer"}
    BY <1>1, <1>2 DEF Active
  <2> QED
    BY <2>1 DEF OrderOf
<1> QED
  BY <1>2 DEF InOrder

(* Nothing is passed while neither the router nor the cursor moves. *)
LEMMA OrderStays ==
  ASSUME Types, InOrder, UNCHANGED routerVars, UNCHANGED <<lastReceivedMessageId, handed>>
  PROVE  /\ OrderHere(lastReceivedMessageId, HandedOver)'
         /\ \A P : UpTo(P)' = UpTo(P)
<1>1. /\ put' = put /\ appended' = appended /\ restarts' = restarts
      /\ heap' = heap /\ addresses' = addresses /\ HandedOver' = HandedOver
  BY DEF routerVars, HandedOver
<1>2. \A P : UpTo(P)' = UpTo(P)
  BY <1>1 DEF UpTo, Now
<1>3. UpTo(HandedOver)' = UpTo(HandedOver)
  BY <1>1 DEF UpTo, Now
<1> QED
  BY <1>1, <1>2, <1>3 DEF InOrder, OrderHere

(* Before it has looked up a storage, and after its answer is gone, a poll *)
(* owes no order.                                                          *)
LEMMA OtherInOrder ==
  ASSUME Types, Once, InOrder, NEW p \in Polls,
         CheckFlag(p) \/ (BeginPoll(p) /\ ~overlapped') \/ LosePoll(p) \/ EndPoll(p)
  PROVE  InOrder'
<1>1. UNCHANGED routerVars /\ UNCHANGED <<lastReceivedMessageId, handed>>
  BY CheckFlagEffect, BeginPollEffect, LosePollEffect, EndPollEffect
<1>2. PICK r : poll' = [poll EXCEPT ![p] = r] /\ r.pc \in {"checked", "request", "clear", "idle"}
  <2>1. CASE CheckFlag(p)
    <3> DEFINE r == PollOf("checked", poll[p].after, poll[p].storage, poll[p].last, poll[p].batch)
    <3>1. poll' = [poll EXCEPT ![p] = r]
      BY <2>1, CheckFlagEffect
    <3>2. r.pc = "checked"
      BY DEF PollOf
    <3> HIDE DEF r
    <3> QED
      BY <3>1, <3>2
  <2>2. CASE BeginPoll(p)
    <3> DEFINE r == PollOf("request", lastReceivedMessageId, poll[p].storage, poll[p].last, poll[p].batch)
    <3>1. poll' = [poll EXCEPT ![p] = r]
      BY <2>2, BeginPollEffect
    <3>2. r.pc = "request"
      BY DEF PollOf
    <3> HIDE DEF r
    <3> QED
      BY <3>1, <3>2
  <2>3. CASE LosePoll(p) \/ EndPoll(p)
    <3>1. PICK pc \in {"clear", "idle"} : poll' = [poll EXCEPT ![p] = PollOf(pc, 0, NoStorage, 0, {})]
      BY <2>3, LosePollEffect, EndPollEffect
    <3>2. PollOf(pc, 0, NoStorage, 0, {}).pc = pc
      BY DEF PollOf
    <3> QED
      BY <3>1, <3>2
  <2> QED
    BY <2>1, <2>2, <2>3
<1>3. poll'[p] = r /\ \A q \in Polls : q # p => poll'[q] = poll[q]
  BY <1>2, PollFields
<1>4. OrderHere(lastReceivedMessageId, HandedOver)'
  BY <1>1, OrderStays
<1>5. OrderOf(p)'
  BY <1>2, <1>3 DEF OrderOf
<1>6. ASSUME NEW q \in Polls, q # p
      PROVE  OrderOf(q)'
  <2>1. OrderOf(q) /\ poll'[q] = poll[q]
    BY <1>3, <1>6 DEF InOrder
  <2>2. /\ appended' = appended /\ put' = put /\ restarts' = restarts
        /\ heap' = heap /\ addresses' = addresses
        /\ lastReceivedMessageId' = lastReceivedMessageId /\ HandedOver' = HandedOver
    BY <1>1 DEF routerVars, HandedOver
  <2> QED
    BY <2>1, <2>2 DEF OrderOf, OrderHere, UpTo, Now, LaterThan
<1> QED
  BY <1>4, <1>5, <1>6 DEF InOrder

LEMMA LookUpInOrder ==
  ASSUME Types, Ledger, Once, InOrder, NEW p \in Polls, LookUp(p)
  PROVE  InOrder'
<1> DEFINE r == IF addresses = NoStorage
                THEN PollOf("answer", poll[p].after, poll[p].storage, 0, poll[p].batch)
                ELSE PollOf("read", poll[p].after, addresses, poll[p].last, poll[p].batch)
<1>1. /\ poll' = [poll EXCEPT ![p] = r]
      /\ poll[p].pc = "request"
      /\ UNCHANGED <<routerVars, lastReceivedMessageId, handed>>
  BY LookUpEffect
<1>2. \A q \in Polls : Active(q) => q = p
  BY <1>1 DEF Once, Active
<1>3. poll'[p] = r
  BY <1>1, PollFields
<1>4. OrderHere(lastReceivedMessageId, HandedOver)'
  BY <1>1, OrderStays
<1>5. OrderOf(p)'
  <2>1. CASE addresses = NoStorage
    <3>1. poll[p].batch = {}
      BY <1>1 DEF Once, OnceOf
    <3>2. poll'[p].pc = "answer" /\ poll'[p].batch = {}
      BY <2>1, <3>1, <1>3 DEF PollOf
    <3>3. addresses' = NoStorage
      BY <2>1, <1>1 DEF routerVars
    <3> QED
      BY <3>2, <3>3 DEF OrderOf, OrderHere
  <2>2. CASE addresses # NoStorage
    <3>1. poll'[p].pc = "read" /\ poll'[p].storage = addresses /\ addresses' = addresses
      BY <2>2, <1>1, <1>3 DEF PollOf, routerVars
    <3>2. SettledIn(heap[poll[p].storage].messages, lastReceivedMessageId, UpTo(HandedOver))'
      BY <2>2, <3>1, <1>4 DEF OrderHere
    <3>3. \A g \in HandedOver' : put'[g].storage <= poll'[p].storage
      <4>1. put' = put /\ HandedOver' \subseteq Posts
        BY <1>1 DEF routerVars, HandedOver
      <4>2. addresses = Len(heap)
        BY <2>2 DEF Ledger, Ids
      <4>3. \A g \in Posts : put[g].storage <= addresses
        BY <4>2, PutFields, TypesOf
      <4> QED
        BY <4>1, <4>3, <3>1
    <3> QED
      BY <3>1, <3>2, <3>3 DEF OrderOf
  <2> QED
    BY <2>1, <2>2
<1> HIDE DEF r
<1> QED
  BY <1>1, <1>2, <1>4, <1>5, OrderAlone

(* A frame of a log has one entry. *)
LEMMA OneEntry ==
  ASSUME Types, Ledger, NEW k \in 1 .. Len(appended), NEW l \in 1 .. Len(appended),
         appended[k].message.post = appended[l].message.post
  PROVE  k = l
<1>1. ~(k < l) /\ ~(l < k)
  BY DEF Ledger, Recorded
<1>2. k \in Nat /\ l \in Nat
  BY TypesOf
<1> QED
  BY <1>1, <1>2

Batch(p) == {m.post : m \in Answer(p).sent}

(* What is read was put in this era, and after all of it that was handed   *)
(* over; the id it is answered with settles it and what lies before it.    *)
LEMMA AnswerIsLater ==
  ASSUME Types, Ledger, Eras, Once, InOrder, NoCrossing(appended), NEW p \in Polls, Read(p),
         NEW s \in Storages, s = poll[p].storage,
         NEW B \in SUBSET Posts, B = Batch(p),
         NEW H \in SUBSET Posts, H = HandedOver,
         NEW d \in Nat, d = Answer(p).lastId
  PROVE  /\ \A f \in B : Now(f) /\ put[f].pc = "done" /\ put[f].storage = s
         /\ \A g \in H : Now(g) => put[g].storage <= s
         /\ \A f \in B, g \in H : Now(g) => put[g].id < put[f].id
         /\ SettledIn(heap[s].messages, d, UpTo(H \cup B))
<1> DEFINE c == lastReceivedMessageId
<1> DEFINE messages == heap[s].messages
<1>1. poll[p].pc = "read" /\ poll[p].after = c
  BY ReadEffect DEF Once, OnceOf
<1>2. /\ SettledIn(messages, c, UpTo(H))
      /\ \A g \in H : Now(g) => put[g].storage <= s
  BY <1>1 DEF InOrder, OrderOf
<1>3. Answer(p) = GetMessage(messages, c)
  BY <1>1 DEF Answer
<1>4. messages \in Seq(Message) /\ c \in Nat
  BY TypesOf DEF PeerTypeOK
<1>5. \A i \in 1 .. Len(messages) :
        /\ messages[i].post \in Posts /\ messages[i].id \in Nat
        /\ put[messages[i].post].pc = "done"
        /\ put[messages[i].post].storage = s
        /\ put[messages[i].post].id = messages[i].id
  <2> TAKE i \in 1 .. Len(messages)
  <2> QED
    BY HeapFacts
<1>6. Ours(s)
  BY <1>1 DEF Eras, InUse
<1>7. /\ Increasing(messages)
      /\ \A i, j \in 1 .. Len(messages) : i < j => messages[i].post # messages[j].post
  BY HeapIncreasing, HeapOrder
<1>8. \A x \in Answer(p).sent : \E i \in 1 .. Len(messages) :
        x = messages[i] /\ (messages[i].id > c \/ c > messages[Len(messages)].id)
  BY <1>3, <1>4, GetMessageType
<1>9. SettledIn(messages, d, UpTo(H) \cup B)
  BY <1>2, <1>3, <1>4, <1>7, SettledAnswer DEF Batch
<1>10. \A f \in B : \E i \in 1 .. Len(messages) :
         f = messages[i].post /\ (messages[i].id > c \/ c > messages[Len(messages)].id)
  BY <1>8 DEF Batch
<1>11. \A i \in 1 .. Len(messages) : messages[Len(messages)].id \in Nat
  BY <1>4, <1>7, LastIsGreatest
<1> HIDE DEF messages, c
<1>12. \A f \in B : Now(f) /\ put[f].pc = "done" /\ put[f].storage = s
  BY <1>5, <1>6, <1>10 DEF Ours
<1>13. ASSUME NEW f \in B, NEW g \in H, Now(g)
       PROVE  put[g].id < put[f].id
  <2>1. PICK i \in 1 .. Len(messages) :
          f = messages[i].post /\ (messages[i].id > c \/ c > messages[Len(messages)].id)
    BY <1>10
  <2>2. messages[i].post \notin UpTo(H)
    BY <2>1, <1>2, <1>4, <1>5, <1>11 DEF SettledIn
  <2>3. ~(put[f].id <= put[g].id)
    BY <2>1, <2>2, <1>12, <1>13 DEF UpTo
  <2>4. put[f].id \in Nat /\ put[g].id \in Nat
    BY PutFields
  <2> QED
    BY <2>3, <2>4
<1>14. ASSUME NEW i \in 1 .. Len(messages), messages[i].post \in UpTo(H \cup B)
       PROVE  messages[i].id <= d /\ d <= messages[Len(messages)].id
  <2>1. PICK g \in H \cup B : Now(g) /\ put[messages[i].post].id <= put[g].id
    BY <1>14 DEF UpTo
  <2>2. CASE g \in H
    <3>1. messages[i].post \in UpTo(H)
      BY <2>1, <2>2, <1>5 DEF UpTo
    <3> QED
      BY <3>1, <1>9 DEF SettledIn
  <2>3. CASE g \in B
    <3>1. PICK j \in 1 .. Len(messages) : g = messages[j].post
      BY <2>3, <1>10
    <3>2. messages[j].id <= d /\ d <= messages[Len(messages)].id
      BY <3>1, <2>3, <1>9 DEF SettledIn
    <3>3. messages[i].id <= messages[j].id
      BY <2>1, <3>1, <1>5
    <3> QED
      BY <3>2, <3>3, <1>5
  <2> QED
    BY <2>2, <2>3
<1> QED
  BY <1>2, <1>12, <1>13, <1>14 DEF SettledIn, messages

LEMMA ReadInOrder ==
  ASSUME Types, Ledger, Eras, Once, InOrder, NoCrossing(appended), NEW p \in Polls, Read(p)
  PROVE  InOrder'
<1>1. PICK s \in Storages, B \in SUBSET Posts, H \in SUBSET Posts, d \in Nat :
        /\ s = poll[p].storage /\ B = Batch(p)
        /\ H = HandedOver /\ d = Answer(p).lastId
  BY ReadEffect DEF HandedOver, Batch
<1> DEFINE r == PollOf("answer", poll[p].after, NoStorage, d, B)
<1>2. /\ poll' = [poll EXCEPT ![p] = r]
      /\ poll[p].pc = "read"
      /\ UNCHANGED <<routerVars, lastReceivedMessageId, handed>>
  BY <1>1, ReadEffect DEF Batch
<1>3. \A q \in Polls : Active(q) => q = p
  BY <1>2 DEF Once, Active
<1>4. poll'[p].pc = "answer" /\ poll'[p].last = d /\ poll'[p].batch = B
  <2>1. poll'[p] = r
    BY <1>2, PollFields
  <2> QED
    BY <2>1 DEF PollOf
<1>5. /\ \A f \in B : Now(f) /\ put[f].pc = "done" /\ put[f].storage = s
      /\ \A g \in H : Now(g) => put[g].storage <= s
      /\ \A f \in B, g \in H : Now(g) => put[g].id < put[f].id
      /\ SettledIn(heap[s].messages, d, UpTo(H \cup B))
  BY <1>1, AnswerIsLater
<1>6. addresses # NoStorage => SettledIn(heap[addresses].messages, d, UpTo(H \cup B))
  <2>1. CASE addresses = s
    BY <2>1, <1>5
  <2>2. CASE addresses # s /\ addresses # NoStorage
    <3>1. addresses \in Storages /\ addresses = Len(heap) /\ s < addresses
      BY <2>2, TypesOf DEF Ledger, Ids, Storages
    <3>2. ASSUME NEW i \in 1 .. Len(heap[addresses].messages),
                 heap[addresses].messages[i].post \in UpTo(H \cup B)
          PROVE  FALSE
      <4> DEFINE q == heap[addresses].messages[i].post
      <4>1. q \in Posts /\ put[q].pc = "done" /\ put[q].storage = addresses
        BY <3>1, HeapFacts
      <4>2. PICK g \in H \cup B : Now(g) /\ put[q].id <= put[g].id
        BY <3>2 DEF UpTo
      <4> HIDE DEF q
      <4>3. Now(q)
        BY <4>1, <3>1 DEF Eras, InUse, Ours
      <4>4. put[g].storage <= s /\ put[g].storage \in Nat /\ s \in Nat
        BY <4>2, <1>5, PutFields, TypesOf DEF Storages
      <4>5. put[g].storage < put[q].storage
        BY <4>1, <4>4, <3>1, PutFields
      <4>6. put[g].id < put[q].id
        BY <4>1, <4>2, <4>3, <4>5 DEF Eras, Numbered
      <4> QED
        BY <4>2, <4>6, <4>1, PutFields
    <3> QED
      BY <3>2 DEF SettledIn
  <2> QED
    BY <2>1, <2>2
<1>7. ASSUME NEW k \in 1 .. Len(appended), NEW l \in 1 .. Len(appended),
             appended[k].message.post \in B, appended[l].message.post \in H
      PROVE  LaterThan(appended[k], appended[l])
  <2>1. appended[k].router = restarts
    <3>1. PICK j \in 1 .. Len(appended) :
            appended[j].message.post = appended[k].message.post /\ appended[j].router = restarts
      BY <1>5, <1>7 DEF Now
    <3>2. j = k
      BY <3>1, OneEntry
    <3> QED
      BY <3>1, <3>2
  <2>2. appended[l].router \in Nat /\ appended[l].router <= restarts
    BY EntryFacts DEF RecordOf
  <2>3. CASE appended[l].router = restarts
    <3>1. Now(appended[l].message.post)
      BY <2>3 DEF Now
    <3>2. put[appended[l].message.post].id < put[appended[k].message.post].id
      BY <3>1, <1>5, <1>7
    <3>3. appended[l].message.id < appended[k].message.id
      BY <3>2, EntryFacts
    <3> QED
      BY <3>3, <2>1, <2>3, EntryFacts DEF LaterThan
  <2> QED
    BY <2>1, <2>2, <2>3, TypesOf DEF LaterThan
<1>8. /\ appended' = appended /\ put' = put /\ restarts' = restarts /\ heap' = heap
      /\ addresses' = addresses /\ HandedOver' = H
  BY <1>1, <1>2 DEF routerVars, HandedOver
<1>9. OrderHere(lastReceivedMessageId, HandedOver)'
  BY <1>2, OrderStays
<1>10. OrderHere(poll[p].last, HandedOver \cup poll[p].batch)'
  <2>1. UpTo(HandedOver \cup poll[p].batch)' = UpTo(H \cup B)
    BY <1>4, <1>8 DEF UpTo, Now
  <2> QED
    BY <2>1, <1>4, <1>6, <1>8 DEF OrderHere
<1>11. OrderOf(p)'
  BY <1>4, <1>7, <1>8, <1>10 DEF OrderOf, LaterThan
<1> HIDE DEF r
<1> QED
  BY <1>2, <1>3, <1>9, <1>11, OrderAlone

(* An answer that is handed over leaves the cursor where it is in order.   *)
LEMMA TakeAnswerInOrder ==
  ASSUME Types, Once, InOrder, NEW p \in Polls, TakeAnswer(p)
  PROVE  InOrder'
<1> DEFINE r == PollOf("clear", 0, NoStorage, 0, {})
<1>1. /\ poll' = [poll EXCEPT ![p] = r]
      /\ poll[p].pc = "answer"
      /\ lastReceivedMessageId' = poll[p].last
      /\ handed' = [f \in Posts |-> IF f \in poll[p].batch /\ handed[f] < 2
                                    THEN handed[f] + 1 ELSE handed[f]]
      /\ UNCHANGED routerVars
  BY TakeAnswerEffect
<1>2. \A q \in Polls : Active(q) => q = p
  BY <1>1 DEF Once, Active
<1>3. poll'[p].pc = "clear"
  BY <1>1, PollFields DEF PollOf
<1>4. /\ \A f \in poll[p].batch : handed[f] = 0 /\ f \in Posts
      /\ OrderHere(poll[p].last, HandedOver \cup poll[p].batch)
  BY <1>1, PollFields DEF Once, OnceOf, InOrder, OrderOf
<1>5. HandedOver' = HandedOver \cup poll[p].batch
  <2>1. \A f \in Posts : handed[f] \in {0, 1}
    BY DEF Once
  <2>2. ASSUME NEW f \in Posts
        PROVE  handed'[f] > 0 <=> (handed[f] > 0 \/ f \in poll[p].batch)
    <3>1. handed'[f] = IF f \in poll[p].batch /\ handed[f] < 2 THEN handed[f] + 1 ELSE handed[f]
      BY <1>1
    <3> QED
      BY <2>1, <3>1, <1>4
  <2>3. HandedOver' = {f \in Posts : handed'[f] > 0}
    BY DEF HandedOver
  <2> QED
    BY <2>2, <2>3, <1>4 DEF HandedOver
<1>6. OrderHere(lastReceivedMessageId, HandedOver)'
  <2>1. /\ appended' = appended /\ put' = put /\ restarts' = restarts /\ heap' = heap
        /\ addresses' = addresses
    BY <1>1 DEF routerVars
  <2>2. UpTo(HandedOver)' = UpTo(HandedOver \cup poll[p].batch)
    BY <2>1, <1>5 DEF UpTo, Now
  <2> QED
    BY <2>1, <2>2, <1>1, <1>4 DEF OrderHere
<1>7. OrderOf(p)'
  BY <1>3 DEF OrderOf
<1> HIDE DEF r
<1> QED
  BY <1>1, <1>2, <1>6, <1>7, OrderAlone

LEMMA InitInOrder ==
  ASSUME Init
  PROVE  InOrder
<1>1. addresses = NoStorage /\ poll = [p \in Polls |-> IdlePoll]
  BY DEF Init, RouterInit, PeerInit
<1>2. \A p \in Polls : poll[p].pc = "idle"
  BY <1>1 DEF IdlePoll
<1> QED
  BY <1>1, <1>2 DEF InOrder, OrderOf, OrderHere

LEMMA NextInOrder ==
  ASSUME Types, Ledger, Eras, Once, InOrder, [Next]_vars, ~overlapped', NoCrossing(appended')
  PROVE  InOrder'
<1>1. NoCrossing(appended)
  BY UndisturbedBefore
<1>2. ASSUME NEW p \in Polls, PollStep(p)
      PROVE  InOrder'
  BY <1>1, <1>2, OtherInOrder, LookUpInOrder, ReadInOrder, TakeAnswerInOrder DEF PollStep
<1>3. RouterNext => RouterStep
  BY DEF RouterNext, RouterStep
<1>4. UNCHANGED vars => RouterStep /\ UNCHANGED peerVars
  BY DEF vars, RouterStep
<1> QED
  BY <1>1, <1>2, <1>3, <1>4, InOrderRouter, InOrderRestart DEF Next

MailInv == Types /\ Ledger /\ Eras /\ (~overlapped /\ NoCrossing(appended) => Once /\ InOrder)

LEMMA InitMailInv ==
  ASSUME Init
  PROVE  MailInv
BY InitTypes, InitLedger, InitEras, InitOnce, InitInOrder DEF MailInv

LEMMA NextMailInv ==
  ASSUME MailInv, [Next]_vars
  PROVE  MailInv'
<1>1. Types /\ Ledger /\ Eras
  BY DEF MailInv
<1>2. Types' /\ Ledger' /\ Eras'
  BY <1>1, NextTypes, NextLedger, NextEras
<1>3. ~overlapped' /\ NoCrossing(appended') => Once' /\ InOrder'
  BY <1>1, UndisturbedBefore, NextOnce, NextInOrder DEF MailInv
<1> QED
  BY <1>2, <1>3 DEF MailInv

-----------------------------------------------------------------------------
(* The steps of Delivery are steps of Mailbox.  Its tickets, by position   *)
(* in the log.                                                             *)
LEMMA Tickets ==
  ASSUME Types
  PROVE  /\ \A t : t \in StoredTickets <=> \E k \in 1 .. Len(appended) : t = TicketOf(appended[k])
         /\ \A t : t \in WaitingTickets <=>
              \E f \in Posts : put[f].pc = "append" /\ t = [post |-> f, era |-> restarts, id |-> put[f].id]
<1>1. DOMAIN appended = 1 .. Len(appended)
  BY TypesOf
<1> QED
  BY <1>1 DEF StoredTickets, WaitingTickets, ToSet

(* The crossings of a log, as the invariants name them. *)
CrossedIn(log, a) ==
  \E i, j \in DOMAIN log :
    i < j /\ log[j] = a /\ log[i].storage = a.storage /\ log[i].message.id > a.message.id

LEMMA CrossingIs ==
  ASSUME NEW log, DOMAIN log = 1 .. Len(log),
         \A k \in 1 .. Len(log) : log[k].message.id \in Nat
  PROVE  (\E a \in ToSet(log) : CrossedIn(log, a)) <=> ~NoCrossing(log)
<1>1. ASSUME NEW a \in ToSet(log), CrossedIn(log, a)
      PROVE  ~NoCrossing(log)
  <2>1. PICK k \in 1 .. Len(log), l \in 1 .. Len(log) :
          /\ k < l /\ log[l] = a
          /\ log[k].storage = a.storage /\ log[k].message.id > a.message.id
    BY <1>1 DEF CrossedIn
  <2>2. ~(log[k].message.id <= log[l].message.id)
    BY <2>1
  <2> QED
    BY <2>1, <2>2 DEF NoCrossing
<1>2. ASSUME ~NoCrossing(log)
      PROVE  \E a \in ToSet(log) : CrossedIn(log, a)
  <2>1. PICK k \in 1 .. Len(log), l \in 1 .. Len(log) :
          /\ k < l /\ log[k].storage = log[l].storage
          /\ ~(log[k].message.id <= log[l].message.id)
    BY <1>2 DEF NoCrossing
  <2>2. log[k].message.id > log[l].message.id
    BY <2>1
  <2>3. CrossedIn(log, log[l]) /\ log[l] \in ToSet(log)
    BY <2>1, <2>2 DEF CrossedIn, ToSet
  <2> QED
    BY <2>3
<1> QED
  BY <1>1, <1>2

LEMMA DisturbedIs ==
  ASSUME Types, Ledger
  PROVE  Disturbed <=> overlapped \/ ~NoCrossing(appended)
<1>1. DOMAIN appended = 1 .. Len(appended)
  BY TypesOf
<1>2. \A k \in 1 .. Len(appended) : appended[k].message.id \in Nat
  BY EntryFacts
<1>3. (\E a \in ToSet(appended) : CrossedIn(appended, a)) <=> ~NoCrossing(appended)
  BY <1>1, <1>2, CrossingIs
<1> QED
  BY <1>3 DEF Disturbed, Crossed, CrossedIn

(* Which is a matter of the log and of the polls. *)
LEMMA DisturbedSame ==
  ASSUME appended' = appended, overlapped' = overlapped
  PROVE  Disturbed' = Disturbed
BY DEF Disturbed, Crossed

LEMMA InitMail ==
  ASSUME Init
  PROVE  Promise!MailInit
<1>1. /\ appended = <<>> /\ restarts = 0 /\ nextId = 1 /\ overlapped = FALSE
      /\ put = [f \in Posts |-> [pc |-> "unsent", storage |-> NoStorage, id |-> 0]]
      /\ handed = [f \in Posts |-> 0]
  BY DEF Init, RouterInit, PeerInit
<1>2. ToSet(appended) = {}
  BY <1>1 DEF ToSet
<1>3. StoredTickets = {} /\ Disturbed = FALSE
  BY <1>1, <1>2 DEF StoredTickets, Disturbed
<1>4. WaitingTickets = {}
  BY <1>1 DEF WaitingTickets
<1> QED
  BY <1>1, <1>3, <1>4 DEF Promise!MailInit

(* A Put that begins takes a ticket ... *)
LEMMA PutBeginEnters ==
  ASSUME Types, Ledger, NEW f \in Posts, PutBegin(f), UNCHANGED peerVars
  PROVE  Promise!Enter(f)
<1>1. /\ put[f].pc = "unsent"
      /\ put'[f] = [pc |-> "append", storage |-> addresses', id |-> nextId]
      /\ \A g \in Posts : g # f => put'[g] = put[g]
      /\ nextId' = nextId + 1
      /\ UNCHANGED <<restarts, appended>>
  BY PutBeginEffect
<1>2. put'[f].pc = "append" /\ put'[f].id = nextId
  BY <1>1
<1>3. StoredTickets' = StoredTickets
  BY <1>1 DEF StoredTickets
<1>4. \A t \in WaitingTickets \cup StoredTickets : t.post # f
  <2>1. \A k \in 1 .. Len(appended) : put[TicketOf(appended[k]).post].pc = "done"
    BY EntryFacts DEF TicketOf
  <2> QED
    BY <2>1, <1>1, Tickets
<1>5. WaitingTickets' = WaitingTickets \cup {[post |-> f, era |-> restarts, id |-> nextId]}
  <2>1. {g \in Posts : put'[g].pc = "append"} = {g \in Posts : put[g].pc = "append"} \cup {f}
    BY <1>1, <1>2
  <2>2. \A g \in {h \in Posts : put[h].pc = "append"} : put'[g].id = put[g].id
    BY <1>1
  <2> QED
    BY <2>1, <2>2, <1>1, <1>2 DEF WaitingTickets
<1>6. Disturbed' = Disturbed /\ handed' = handed
  BY <1>1, DisturbedSame DEF peerVars
<1> QED
  BY <1>1, <1>3, <1>4, <1>5, <1>6 DEF Promise!Enter

(* ... and one that ends stores it: the storage it chose holds nothing of  *)
(* an earlier start of the router, so what it crosses there is later.      *)
LEMMA PutEndCrosses ==
  ASSUME Types, Ledger, Eras, NEW f \in Posts, PutEnd(f),
         NoCrossing(appended), ~NoCrossing(appended')
  PROVE  \E k \in 1 .. Len(appended) :
           appended[k].router = restarts /\ appended[k].message.id > put[f].id
<1>1. /\ put[f].pc = "append" /\ put[f].storage \in Storages
      /\ Len(appended') = Len(appended) + 1
      /\ appended'[Len(appended) + 1] = SentEntry(f)
      /\ \A k \in 1 .. Len(appended) : appended'[k] = appended[k]
  BY PutEndEffect
<1>2. SentEntry(f).storage = put[f].storage /\ SentEntry(f).message.id = put[f].id
  BY DEF SentEntry, Sent
<1> DEFINE n == Len(appended)
<1>3. n \in Nat
  BY TypesOf
<1>4. PICK k \in 1 .. n + 1, l \in 1 .. n + 1 :
        /\ k < l /\ appended'[k].storage = appended'[l].storage
        /\ ~(appended'[k].message.id <= appended'[l].message.id)
  BY <1>1 DEF NoCrossing
<1> HIDE DEF n
<1>5. k \in 1 .. n /\ (l \in 1 .. n \/ l = n + 1)
  BY <1>3, <1>4
<1>6. l = n + 1
  <2> SUFFICES ASSUME l \in 1 .. n PROVE FALSE
    BY <1>5
  <2>1. appended'[k] = appended[k] /\ appended'[l] = appended[l]
    BY <1>1, <1>5 DEF n
  <2> QED
    BY <2>1, <1>4, <1>5 DEF NoCrossing, n
<1>7. appended[k].storage = put[f].storage /\ ~(appended[k].message.id <= put[f].id)
  <2>1. appended'[k] = appended[k] /\ appended'[l] = SentEntry(f)
    BY <1>1, <1>5, <1>6 DEF n
  <2> QED
    BY <2>1, <1>2, <1>4
<1>8. PICK s \in Storages : s = put[f].storage
  BY <1>1
<1>9. Ours(s)
  BY <1>1, <1>8 DEF Eras, InUse
<1>10. k \in 1 .. Len(appended)
  BY <1>5 DEF n
<1>11. Now(appended[k].message.post)
  BY <1>7, <1>8, <1>9, <1>10, EntryFacts DEF Ours
<1>12. appended[k].router = restarts
  <2>1. PICK j \in 1 .. Len(appended) :
          appended[j].message.post = appended[k].message.post /\ appended[j].router = restarts
    BY <1>11 DEF Now
  <2>2. j = k
    BY <2>1, <1>10, OneEntry
  <2> QED
    BY <2>1, <2>2
<1>13. appended[k].message.id > put[f].id
  BY <1>7, <1>10, EntryFacts, PutFields
<1> QED
  BY <1>10, <1>12, <1>13

LEMMA PutEndDisturbs ==
  ASSUME Types, Ledger, NEW f \in Posts, PutEnd(f)
  PROVE  Disturbed' <=> overlapped' \/ ~NoCrossing(appended')
<1>1. /\ Len(appended') = Len(appended) + 1 /\ appended' \in Seq(Entry)
      /\ appended'[Len(appended) + 1] = SentEntry(f)
      /\ \A k \in 1 .. Len(appended) : appended'[k] = appended[k]
  BY PutEndEffect
<1>2. SentEntry(f).message.id \in Nat
  BY PutFields DEF SentEntry, Sent
<1> DEFINE n == Len(appended)
<1>3. n \in Nat /\ \A k \in 1 .. n : appended[k].message.id \in Nat
  BY EntryFacts, TypesOf
<1> HIDE DEF n
<1>4. \A k \in 1 .. n + 1 : appended'[k].message.id \in Nat
  <2>1. \A k : k \in 1 .. n + 1 <=> (k \in 1 .. n \/ k = n + 1)
    BY <1>3
  <2> QED
    BY <2>1, <1>1, <1>2, <1>3 DEF n
<1>5. DOMAIN appended' = 1 .. Len(appended')
  BY <1>1
<1>6. (\E a \in ToSet(appended') : CrossedIn(appended', a)) <=> ~NoCrossing(appended')
  BY <1>1, <1>4, <1>5, CrossingIs DEF n
<1>7. Disturbed' <=> overlapped' \/ \E a \in ToSet(appended') : CrossedIn(appended', a)
  BY DEF Disturbed, Crossed, CrossedIn
<1> QED
  BY <1>6, <1>7

LEMMA PutEndStores ==
  ASSUME Types, Ledger, Eras, NEW f \in Posts, PutEnd(f), UNCHANGED peerVars
  PROVE  \E t \in WaitingTickets : Promise!Store(t)
<1> DEFINE t == [post |-> f, era |-> restarts, id |-> put[f].id]
<1>1. /\ put[f].pc = "append"
      /\ put'[f] = [pc |-> "done", storage |-> put[f].storage, id |-> put[f].id]
      /\ \A g \in Posts : g # f => put'[g] = put[g]
      /\ Len(appended') = Len(appended) + 1
      /\ appended'[Len(appended) + 1] = SentEntry(f)
      /\ \A k \in 1 .. Len(appended) : appended'[k] = appended[k]
      /\ UNCHANGED <<nextId, restarts>>
  BY PutEndEffect
<1>2. put'[f].pc = "done"
  BY <1>1
<1>3. t \in WaitingTickets
  BY <1>1, Tickets
<1>4. WaitingTickets' = WaitingTickets \ {t}
  <2>1. {g \in Posts : put'[g].pc = "append"} = {g \in Posts : put[g].pc = "append"} \ {f}
    BY <1>1, <1>2
  <2>2. \A g \in {h \in Posts : put[h].pc = "append"} \ {f} : put'[g].id = put[g].id
    BY <1>1
  <2>3. \A g \in Posts : [post |-> g, era |-> restarts, id |-> put[g].id] = t => g = f
    OBVIOUS
  <2> QED
    BY <2>1, <2>2, <2>3, <1>1 DEF WaitingTickets
<1>5. TicketOf(SentEntry(f)) = t
  BY DEF TicketOf, SentEntry, Sent
<1>6. StoredTickets' = StoredTickets \cup {t}
  <2> DEFINE n == Len(appended)
  <2>1. n \in Nat
    BY TypesOf
  <2>2. /\ \A u : u \in StoredTickets <=> \E k \in 1 .. n : u = TicketOf(appended[k])
        /\ \A u : u \in StoredTickets' <=> \E k \in 1 .. n + 1 : u = TicketOf(appended'[k])
    <3>1. DOMAIN appended = 1 .. Len(appended) /\ DOMAIN appended' = 1 .. Len(appended')
      BY TypesOf, PutEndEffect
    <3> QED
      BY <3>1, <1>1 DEF StoredTickets, ToSet
  <2>3. appended'[n + 1] = SentEntry(f) /\ \A k \in 1 .. n : appended'[k] = appended[k]
    BY <1>1
  <2> HIDE DEF n, t
  <2>4. \A k : k \in 1 .. n + 1 <=> (k \in 1 .. n \/ k = n + 1)
    BY <2>1
  <2> QED
    BY <2>2, <2>3, <2>4, <1>5
<1>7. \/ Disturbed' = Disturbed
      \/ (\E u \in StoredTickets : Promise!Later(u, t)) /\ Disturbed' = TRUE
  <2>1. /\ Disturbed <=> overlapped \/ ~NoCrossing(appended)
        /\ Disturbed' <=> overlapped' \/ ~NoCrossing(appended')
    BY DisturbedIs, PutEndDisturbs
  <2>2. overlapped' = overlapped
    BY DEF peerVars
  <2>3. ~NoCrossing(appended) => ~NoCrossing(appended')
    BY NoCrossingBefore DEF RouterStep
  <2>4. CASE NoCrossing(appended) /\ ~NoCrossing(appended')
    <3>1. PICK k \in 1 .. Len(appended) :
            appended[k].router = restarts /\ appended[k].message.id > put[f].id
      BY <2>4, PutEndCrosses
    <3>2. TicketOf(appended[k]) \in StoredTickets
      BY Tickets
    <3>3. Promise!Later(TicketOf(appended[k]), t)
      BY <3>1 DEF Promise!Later, TicketOf
    <3> QED
      BY <3>2, <3>3, <2>1, <2>4
  <2>5. CASE ~(NoCrossing(appended) /\ ~NoCrossing(appended'))
    <3>1. Disturbed' <=> Disturbed
      BY <2>1, <2>2, <2>3, <2>5
    <3> QED
      BY <3>1 DEF Disturbed
  <2> QED
    BY <2>4, <2>5
<1>8. handed' = handed
  BY DEF peerVars
<1> HIDE DEF t
<1>9. Promise!Store(t)
  BY <1>1, <1>4, <1>6, <1>7, <1>8 DEF Promise!Store
<1> QED
  BY <1>3, <1>9

(* What changes neither the frames nor their tickets is nothing to it. *)
LEMMA MailStutters ==
  ASSUME /\ UNCHANGED <<restarts, nextId, put, appended, handed>>
         /\ overlapped' = overlapped
  PROVE  UNCHANGED Promise!mailVars
<1>1. WaitingTickets' = WaitingTickets /\ StoredTickets' = StoredTickets
  BY DEF WaitingTickets, StoredTickets
<1>2. Disturbed' = Disturbed
  BY DisturbedSame
<1> QED
  BY <1>1, <1>2 DEF Promise!mailVars

LEMMA BeginPollOverlaps ==
  ASSUME Types, NEW p \in Polls, BeginPoll(p)
  PROVE  [Promise!MailNext]_(Promise!mailVars)
<1>1. /\ overlapped' = (overlapped \/ \E q \in Polls : Active(q))
      /\ UNCHANGED <<routerVars, handed>>
  BY BeginPollEffect
<1>2. UNCHANGED <<restarts, nextId, put, appended, handed>>
  BY <1>1 DEF routerVars
<1>3. CASE overlapped' = overlapped
  BY <1>2, <1>3, MailStutters
<1>4. CASE overlapped' # overlapped
  <2>1. overlapped'
    BY <1>1, <1>4, TypesOf DEF PeerTypeOK
  <2>2. Disturbed' = TRUE
    BY <2>1 DEF Disturbed
  <2>3. WaitingTickets' = WaitingTickets /\ StoredTickets' = StoredTickets
    BY <1>2 DEF WaitingTickets, StoredTickets
  <2>4. Promise!Overlap
    BY <1>2, <2>2, <2>3 DEF Promise!Overlap
  <2> QED
    BY <2>4 DEF Promise!MailNext
<1> QED
  BY <1>3, <1>4

(* The tickets of an answer: each of its frames was stored, and unless     *)
(* something disturbed the order each is later than all that was handed    *)
(* over.                                                                   *)
LEMMA TakeAnswerHands ==
  ASSUME MailInv, NEW p \in Polls, TakeAnswer(p)
  PROVE  \E batch \in SUBSET StoredTickets : Promise!HandOver(batch)
<1> DEFINE batch == {t \in StoredTickets : t.post \in poll[p].batch}
<1>1. Types /\ Ledger /\ Eras
  BY DEF MailInv
<1>2. /\ poll[p].pc = "answer"
      /\ handed' = [f \in Posts |-> IF f \in poll[p].batch /\ handed[f] < 2
                                    THEN handed[f] + 1 ELSE handed[f]]
      /\ UNCHANGED routerVars /\ overlapped' = overlapped
  BY <1>1, TakeAnswerEffect
<1>3. \A f \in poll[p].batch : \E t \in StoredTickets : t.post = f
  <2> SUFFICES ASSUME NEW f \in poll[p].batch
               PROVE  \E t \in StoredTickets : t.post = f
    OBVIOUS
  <2>1. f \in Posts /\ put[f].pc = "done"
    BY <1>1, PollFields DEF Eras
  <2>2. PICK k \in 1 .. Len(appended) : appended[k].message.post = f
    BY <2>1, <1>1 DEF Ledger, Recorded
  <2>3. TicketOf(appended[k]) \in StoredTickets
    BY <1>1, Tickets
  <2>4. TicketOf(appended[k]).post = f
    BY <2>2 DEF TicketOf
  <2> QED
    BY <2>3, <2>4
<1>4. \A f \in Posts : (\E t \in batch : t.post = f) <=> f \in poll[p].batch
  BY <1>3
<1>5. ASSUME ~Disturbed, NEW t \in batch, NEW u \in StoredTickets, handed[u.post] > 0
      PROVE  Promise!Later(t, u)
  <2>1. Once /\ InOrder
    BY <1>1, <1>5, DisturbedIs DEF MailInv
  <2>2. PICK k \in 1 .. Len(appended) : t = TicketOf(appended[k])
    BY <1>1, Tickets
  <2>3. PICK l \in 1 .. Len(appended) : u = TicketOf(appended[l])
    BY <1>1, Tickets
  <2>4. appended[k].message.post \in poll[p].batch
    BY <2>2 DEF TicketOf
  <2>5. appended[l].message.post \in HandedOver
    <3>1. u.post = appended[l].message.post
      BY <2>3 DEF TicketOf
    <3>2. appended[l].message.post \in Posts
      BY <1>1, EntryFacts
    <3> QED
      BY <3>1, <3>2, <1>5 DEF HandedOver
  <2>6. LaterThan(appended[k], appended[l])
    BY <2>1, <2>4, <2>5, <1>2 DEF InOrder, OrderOf
  <2>7. /\ t.era = appended[k].router /\ t.id = appended[k].message.id
        /\ u.era = appended[l].router /\ u.id = appended[l].message.id
    BY <2>2, <2>3 DEF TicketOf
  <2> QED
    BY <2>6, <2>7 DEF LaterThan, Promise!Later
<1>6. handed' = [f \in Posts |-> IF \E t \in batch : t.post = f
                                 THEN IF handed[f] = 0 THEN 1 ELSE 2
                                 ELSE handed[f]]
  <2>1. \A f \in Posts : handed[f] \in 0 .. 2
    BY <1>1, TypesOf DEF PeerTypeOK
  <2> HIDE DEF batch
  <2>2. \A f \in Posts :
          (IF f \in poll[p].batch /\ handed[f] < 2 THEN handed[f] + 1 ELSE handed[f])
          = (IF \E t \in batch : t.post = f THEN IF handed[f] = 0 THEN 1 ELSE 2
             ELSE handed[f])
    BY <2>1, <1>4
  <2> QED
    BY <2>2, <1>2
<1>7. /\ WaitingTickets' = WaitingTickets /\ StoredTickets' = StoredTickets
      /\ UNCHANGED <<restarts, nextId>> /\ Disturbed' = Disturbed
  <2>1. UNCHANGED <<restarts, nextId, put, appended>>
    BY <1>2 DEF routerVars
  <2> QED
    BY <2>1, <1>2, DisturbedSame DEF WaitingTickets, StoredTickets
<1>8. batch \in SUBSET StoredTickets
  OBVIOUS
<1> HIDE DEF batch
<1>9. Promise!HandOver(batch)
  BY <1>5, <1>6, <1>7 DEF Promise!HandOver
<1> QED
  BY <1>8, <1>9

(* A restart of the router drops the Puts under way and numbers anew. *)
LEMMA RestartStartsAgain ==
  ASSUME Types, Restart
  PROVE  Promise!StartAgain
<1>1. /\ \A f \in Posts : put'[f].pc # "append"
      /\ restarts' = restarts + 1 /\ nextId' = 1
      /\ UNCHANGED <<appended, handed>> /\ overlapped' = overlapped
  BY RestartEffect
<1>2. WaitingTickets' = {}
  BY <1>1 DEF WaitingTickets
<1>3. StoredTickets' = StoredTickets /\ Disturbed' = Disturbed
  BY <1>1, DisturbedSame DEF StoredTickets
<1> QED
  BY <1>1, <1>2, <1>3 DEF Promise!StartAgain

LEMMA NextMail ==
  ASSUME MailInv, [Next]_vars
  PROVE  [Promise!MailNext]_(Promise!mailVars)
<1>1. Types /\ Ledger /\ Eras
  BY DEF MailInv
<1>2. ASSUME NEW p \in Polls, CheckFlag(p) \/ LookUp(p) \/ Read(p) \/ LosePoll(p) \/ EndPoll(p)
      PROVE  UNCHANGED Promise!mailVars
  <2>1. UNCHANGED routerVars /\ handed' = handed /\ overlapped' = overlapped
    BY <1>1, <1>2, CheckFlagEffect, LookUpEffect, ReadEffect, LosePollEffect, EndPollEffect
  <2>2. UNCHANGED <<restarts, nextId, put, appended, handed>>
    BY <2>1 DEF routerVars
  <2> QED
    BY <2>1, <2>2, MailStutters
<1>3. ASSUME NEW p \in Polls, TakeAnswer(p)
      PROVE  Promise!MailNext
  <2>1. \E batch \in SUBSET StoredTickets : Promise!HandOver(batch)
    BY <1>3, TakeAnswerHands
  <2> QED
    BY <2>1 DEF Promise!MailNext
<1>4. ASSUME NEW p \in Polls, PollStep(p)
      PROVE  [Promise!MailNext]_(Promise!mailVars)
  BY <1>1, <1>2, <1>3, <1>4, BeginPollOverlaps DEF PollStep
<1>5. ASSUME NEW f \in Posts, PutBegin(f), UNCHANGED peerVars
      PROVE  Promise!MailNext
  BY <1>1, <1>5, PutBeginEnters DEF Promise!MailNext
<1>6. ASSUME NEW f \in Posts, PutEnd(f), UNCHANGED peerVars
      PROVE  Promise!MailNext
  <2>1. \E t \in WaitingTickets : Promise!Store(t)
    BY <1>1, <1>6, PutEndStores
  <2> QED
    BY <2>1 DEF Promise!MailNext
<1>7. ASSUME ClearBegin \/ ClearEnd \/ Tick \/ UNCHANGED routerVars, UNCHANGED peerVars
      PROVE  UNCHANGED Promise!mailVars
  <2>1. UNCHANGED <<restarts, nextId, put, appended, handed>> /\ overlapped' = overlapped
    BY <1>1, <1>7, ClearEndEffect DEF ClearBegin, Tick, routerVars, peerVars
  <2> QED
    BY <2>1, MailStutters
<1>8. ASSUME Restart
      PROVE  Promise!MailNext
  BY <1>1, <1>8, RestartStartsAgain DEF Promise!MailNext
<1>9. UNCHANGED vars => UNCHANGED routerVars /\ UNCHANGED peerVars
  BY DEF vars
<1> QED
  BY <1>4, <1>5, <1>6, <1>7, <1>8, <1>9 DEF Next, RouterNext

(* Router and polls implement Mailbox: what a peer is handed over was put, *)
(* and comes once and in the order of the router's numbers, whatever is    *)
(* lost, cleared or started again, unless polls overlap or Puts cross.     *)
THEOREM MailboxRefinement == Spec => ImplementsMailbox
<1>1. Init => MailInv /\ Promise!MailInit
  BY InitMailInv, InitMail
<1>2. MailInv /\ [Next]_vars => MailInv'
  BY NextMailInv
<1>3. MailInv /\ [Next]_vars => [Promise!MailNext]_(Promise!mailVars)
  BY NextMail
<1> QED
  BY <1>1, <1>2, <1>3, PTL DEF Spec, ImplementsMailbox, Promise!MailSpec
===============================================================================
