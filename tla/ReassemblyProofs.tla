-------------------------- MODULE ReassemblyProofs --------------------------
(***************************************************************************)
(* Proofs about Reassembly, for any messages, sizes, frame size, ages and  *)
(* bounds.                                                                 *)
(*                                                                         *)
(* What a reader of frame.go has to believe about the byte count of a      *)
(* transaction is proved first: blocks of one message add up to its length *)
(* only if all of them are there (WholeOnly).  ReceivedDataLen is a fold,  *)
(* so its facts are found by minimal counterexample on the size of a set.  *)
(*                                                                         *)
(* The invariants are proved in layers: Types and SinceInv, then SentInv   *)
(* (blocks that are under way, stored or handed over belong to calls that  *)
(* were sent), then on top of both CountInv, ArrivedInv and WholeInv.      *)
(***************************************************************************)
EXTENDS Reassembly, FiniteSetTheorems, WellFoundedInduction, TLAPS

(* Induction by minimal counterexample: a set of numbers has a least one. *)
LEMMA LeastNat ==
  ASSUME NEW T \in SUBSET Nat, T # {}
  PROVE  \E n \in T : \A m \in T : n <= m
<1> DEFINE R == {p \in Nat \X Nat : p[1] < p[2]}
<1>1. IsWellFoundedOn(R, Nat)
  BY NatLessThanWellFounded DEF OpToRel
<1> HIDE DEF R
<1>2. PICK n \in T : \A m \in T : <<m, n>> \notin R
  BY <1>1, WFMin
<1>3. \A m \in T : ~(m < n)
  BY <1>2 DEF R
<1> QED
  BY <1>2, <1>3

Some(s) == CHOOSE x \in s : TRUE

(* g is the sum of the lengths on the subsets of S. *)
IsSum(g, S) ==
  g = [s \in SUBSET S |-> IF s = {} THEN 0 ELSE Some(s).length + g[s \ {Some(s)}]]

(* Every finite set has such a function. *)
LEMMA SumExists == ASSUME NEW S, IsFiniteSet(S) PROVE \E g : IsSum(g, S)
<1> DEFINE Small(k) == {s \in SUBSET S : Cardinality(s) <= k}
           Good(g, k) ==
             g = [s \in Small(k) |->
                    IF s = {} THEN 0 ELSE Some(s).length + g[s \ {Some(s)}]]
           Bad == {k \in Nat : ~\E g : Good(g, k)}
<1>1. \A s \in SUBSET S : IsFiniteSet(s) /\ Cardinality(s) \in Nat
  BY FS_Subset, FS_CardinalityType
<1>2. \A s \in SUBSET S : s # {} =>
        /\ Some(s) \in s /\ s \ {Some(s)} \in SUBSET S
        /\ Cardinality(s \ {Some(s)}) = Cardinality(s) - 1
  BY <1>1, FS_RemoveElement DEF Some
<1>3. Bad = {}
  <2> SUFFICES ASSUME Bad # {} PROVE FALSE
    OBVIOUS
  <2>1. PICK k \in Bad : \A m \in Bad : k <= m
    BY LeastNat
  <2>2. CASE k = 0
    <3>1. Small(0) = {{}}
      BY <1>1, FS_EmptySet
    <3>2. Good([s \in {{}} |-> 0], 0)
      BY <3>1
    <3> QED
      BY <2>1, <2>2, <3>2
  <2>3. CASE k # 0
    <3>1. k - 1 \in Nat /\ k - 1 \notin Bad
      <4>1. k \in Nat
        BY <2>1
      <4> HIDE DEF Bad
      <4> QED
        BY <2>1, <2>3, <4>1
    <3>2. PICK h : Good(h, k - 1)
      BY <3>1
    <3> DEFINE g == [s \in Small(k) |-> IF s = {} THEN 0 ELSE Some(s).length + h[s \ {Some(s)}]]
    <3>3. \A s \in Small(k) : s # {} => s \ {Some(s)} \in Small(k - 1) /\ s \ {Some(s)} \in Small(k)
      BY <1>1, <1>2
    <3>4. \A s \in Small(k - 1) : s \in Small(k)
      BY <1>1
    <3>5. \A s \in Small(k - 1) : g[s] = h[s]
      BY <3>2, <3>4
    <3>6. \A s \in Small(k) : g[s] = IF s = {} THEN 0 ELSE Some(s).length + g[s \ {Some(s)}]
      BY <3>3, <3>5
    <3>7. Good(g, k)
      BY <3>6
    <3> QED
      BY <2>1, <3>7
  <2> QED
    BY <2>2, <2>3
<1>4. Cardinality(S) \in Nat
  BY FS_CardinalityType
<1>5. PICK g : Good(g, Cardinality(S))
  BY <1>3, <1>4
<1>6. Small(Cardinality(S)) = SUBSET S
  BY FS_Subset
<1> QED
  BY <1>5, <1>6 DEF IsSum

(* ReceivedDataLen, a fold of the community modules, is that sum. *)
LEMMA ReceivedDataLenSum ==
  ASSUME NEW S, IsFiniteSet(S)
  PROVE  \E g : IsSum(g, S) /\ ReceivedDataLen(S) = g[S]
<1> DEFINE iter[s \in SUBSET S] ==
        IF s = {} THEN 0 ELSE Some(s).length + iter[s \ {Some(s)}]
<1>1. ReceivedDataLen(S) = iter[S]
  BY DEF ReceivedDataLen, MapThenSumSet, MapThenFoldSet, Some
<1>2. PICK g : IsSum(g, S)
  BY SumExists
<1>3. g = [s \in SUBSET S |-> IF s = {} THEN 0 ELSE Some(s).length + g[s \ {Some(s)}]]
  BY <1>2 DEF IsSum
<1>4. iter = [s \in SUBSET S |-> IF s = {} THEN 0 ELSE Some(s).length + iter[s \ {Some(s)}]]
  BY <1>3, Zenon DEF iter
<1> HIDE DEF iter
<1>5. IsSum(iter, S)
  BY <1>4 DEF IsSum
<1> QED
  BY <1>1, <1>5

(* It says what ReceivedDataLen is of every subset. *)
LEMMA SumIsDataLen ==
  ASSUME NEW S, IsFiniteSet(S), NEW g, IsSum(g, S), NEW t \in SUBSET S
  PROVE  ReceivedDataLen(t) = g[t]
<1>1. IsFiniteSet(t)
  BY FS_Subset
<1>2. PICK h : IsSum(h, t) /\ ReceivedDataLen(t) = h[t]
  BY <1>1, ReceivedDataLenSum
<1> DEFINE Bad == {k \in Nat : \E s \in SUBSET t : Cardinality(s) = k /\ g[s] # h[s]}
<1>3. Bad = {}
  <2> SUFFICES ASSUME Bad # {} PROVE FALSE
    OBVIOUS
  <2>1. PICK k \in Bad : \A m \in Bad : k <= m
    BY LeastNat
  <2>2. PICK s \in SUBSET t : Cardinality(s) = k /\ g[s] # h[s]
    BY <2>1
  <2>3. /\ g[s] = IF s = {} THEN 0 ELSE Some(s).length + g[s \ {Some(s)}]
        /\ h[s] = IF s = {} THEN 0 ELSE Some(s).length + h[s \ {Some(s)}]
    BY <1>2 DEF IsSum
  <2>4. s # {} /\ g[s \ {Some(s)}] # h[s \ {Some(s)}]
    BY <2>2, <2>3
  <2>5. Some(s) \in s /\ IsFiniteSet(s)
    BY <2>4, <1>1, FS_Subset DEF Some
  <2>6. Cardinality(s \ {Some(s)}) = k - 1 /\ Cardinality(s \ {Some(s)}) \in Nat
    BY <2>2, <2>5, FS_RemoveElement, FS_CardinalityType
  <2>7. k - 1 \in Bad
    BY <2>4, <2>6
  <2>8. k \in Nat
    BY <2>1
  <2> HIDE DEF Bad
  <2> QED
    BY <2>1, <2>7, <2>8
<1>4. Cardinality(t) \in Nat
  BY <1>1, FS_CardinalityType
<1>5. g[t] = h[t]
  BY <1>3, <1>4
<1> QED
  BY <1>2, <1>5

(* No blocks have no bytes. *)
LEMMA EmptyDataLen == ReceivedDataLen({}) = 0
<1>1. PICK g : IsSum(g, {}) /\ ReceivedDataLen({}) = g[{}]
  BY ReceivedDataLenSum, FS_EmptySet
<1> QED
  BY <1>1 DEF IsSum

Lengths(S) == IsFiniteSet(S) /\ \A x \in S : x.length \in Nat

(* A set of blocks has a number of bytes. *)
LEMMA DataLenType ==
  ASSUME NEW S, Lengths(S), NEW t \in SUBSET S
  PROVE  ReceivedDataLen(t) \in Nat
<1>1. PICK g : IsSum(g, S)
  BY SumExists DEF Lengths
<1> DEFINE Bad == {k \in Nat : \E s \in SUBSET S : Cardinality(s) = k /\ g[s] \notin Nat}
<1>2. Bad = {}
  <2> SUFFICES ASSUME Bad # {} PROVE FALSE
    OBVIOUS
  <2>1. PICK k \in Bad : \A m \in Bad : k <= m
    BY LeastNat
  <2>2. PICK s \in SUBSET S : Cardinality(s) = k /\ g[s] \notin Nat
    BY <2>1
  <2>3. g[s] = IF s = {} THEN 0 ELSE Some(s).length + g[s \ {Some(s)}]
    BY <1>1 DEF IsSum
  <2>4. s # {} /\ Some(s) \in s /\ IsFiniteSet(s)
    BY <2>2, <2>3, FS_Subset DEF Some, Lengths
  <2>5. g[s \ {Some(s)}] \notin Nat
    BY <2>2, <2>3, <2>4 DEF Lengths
  <2>6. Cardinality(s \ {Some(s)}) = k - 1 /\ Cardinality(s \ {Some(s)}) \in Nat
    BY <2>2, <2>4, FS_RemoveElement, FS_CardinalityType
  <2>7. k - 1 \in Bad
    BY <2>5, <2>6
  <2>8. k \in Nat
    BY <2>1
  <2> HIDE DEF Bad
  <2> QED
    BY <2>1, <2>7, <2>8
<1>3. Cardinality(t) \in Nat
  BY FS_Subset, FS_CardinalityType DEF Lengths
<1>4. g[t] \in Nat
  BY <1>2, <1>3
<1> QED
  BY <1>1, <1>4, SumIsDataLen DEF Lengths

(* Whichever element is taken out of a set, its length is what is missing. *)
LEMMA DataLenRemove ==
  ASSUME NEW S, Lengths(S), NEW t \in SUBSET S, NEW x \in t
  PROVE  ReceivedDataLen(t) = ReceivedDataLen(t \ {x}) + x.length
<1> DEFINE W(s) == ReceivedDataLen(s)
           Bad == {k \in Nat : \E s \in SUBSET S :
                     Cardinality(s) = k /\ \E y \in s : W(s) # W(s \ {y}) + y.length}
<1>1. PICK g : IsSum(g, S)
  BY SumExists DEF Lengths
<1>2. \A s \in SUBSET S : W(s) = g[s] /\ W(s) \in Nat /\ IsFiniteSet(s)
  BY <1>1, SumIsDataLen, DataLenType, FS_Subset DEF Lengths
<1>3. ASSUME NEW s \in SUBSET S, s # {}
      PROVE  Some(s) \in s /\ W(s) = Some(s).length + W(s \ {Some(s)})
  <2>1. Some(s) \in s /\ s \ {Some(s)} \in SUBSET S
    BY <1>3 DEF Some
  <2>2. g[s] = Some(s).length + g[s \ {Some(s)}]
    BY <1>1, <1>3 DEF IsSum
  <2>3. W(s) = g[s] /\ W(s \ {Some(s)}) = g[s \ {Some(s)}]
    BY <1>2, <2>1
  <2> QED
    BY <2>1, <2>2, <2>3
<1> HIDE DEF W
<1>4. Bad = {}
  <2> SUFFICES ASSUME Bad # {} PROVE FALSE
    OBVIOUS
  <2>1. PICK k \in Bad : \A m \in Bad : k <= m
    BY LeastNat
  <2>2. PICK s \in SUBSET S : Cardinality(s) = k /\ \E y \in s : W(s) # W(s \ {y}) + y.length
    BY <2>1
  <2>3. PICK y \in s : W(s) # W(s \ {y}) + y.length
    BY <2>2
  <2> DEFINE z == Some(s)
  <2>4. z \in s /\ W(s) = z.length + W(s \ {z})
    BY <1>3, <2>3
  <2>5. z.length \in Nat /\ y.length \in Nat
    BY <2>3, <2>4 DEF Lengths
  <2> HIDE DEF z
  <2>14. W(s \ {z}) \in Nat /\ W(s \ {y}) \in Nat /\ W((s \ {y}) \ {z}) \in Nat
    <3>1. s \ {z} \in SUBSET S /\ s \ {y} \in SUBSET S /\ (s \ {y}) \ {z} \in SUBSET S
      OBVIOUS
    <3> QED
      BY <1>2, <3>1
  <2>6. z # y
    BY <2>3, <2>4, <2>5, <2>14
  <2>7. /\ Cardinality(s \ {z}) = k - 1 /\ Cardinality(s \ {z}) \in Nat
        /\ Cardinality(s \ {y}) = k - 1
    BY <1>2, <2>2, <2>4, FS_RemoveElement, FS_CardinalityType
  <2>8. k \in Nat
    BY <2>1
  <2>9. k - 1 \in Nat /\ k - 1 \notin Bad
    <3> HIDE DEF Bad
    <3> QED
      BY <2>1, <2>7, <2>8
  <2>10. W(s \ {z}) = W((s \ {z}) \ {y}) + y.length
    BY <2>6, <2>7, <2>9
  <2>11. W(s \ {y}) = W((s \ {y}) \ {z}) + z.length
    BY <2>4, <2>6, <2>7, <2>9
  <2>12. (s \ {z}) \ {y} = (s \ {y}) \ {z}
    OBVIOUS
  <2>13. W((s \ {z}) \ {y}) = W((s \ {y}) \ {z})
    BY <2>12
  <2> QED
    BY <2>3, <2>4, <2>5, <2>10, <2>11, <2>13, <2>14
<1>5. Cardinality(t) \in Nat
  BY <1>2, FS_CardinalityType
<1>6. W(t) = W(t \ {x}) + x.length
  BY <1>4, <1>5
<1> QED
  BY <1>6 DEF W

(* More blocks, more bytes. *)
LEMMA DataLenGrows ==
  ASSUME NEW S, Lengths(S), NEW t \in SUBSET S
  PROVE  ReceivedDataLen(t) <= ReceivedDataLen(S)
<1> DEFINE Bad == {k \in Nat : \E s \in SUBSET S :
                     t \subseteq s /\ Cardinality(s) = k /\ ReceivedDataLen(t) > ReceivedDataLen(s)}
<1>1. \A s \in SUBSET S : ReceivedDataLen(s) \in Nat /\ IsFiniteSet(s)
  BY DataLenType, FS_Subset DEF Lengths
<1>2. Bad = {}
  <2> SUFFICES ASSUME Bad # {} PROVE FALSE
    OBVIOUS
  <2>1. PICK k \in Bad : \A m \in Bad : k <= m
    BY LeastNat
  <2>2. PICK s \in SUBSET S :
          t \subseteq s /\ Cardinality(s) = k /\ ReceivedDataLen(t) > ReceivedDataLen(s)
    BY <2>1
  <2>3. s # t
    BY <1>1, <2>2
  <2>4. PICK x \in s : x \notin t
    BY <2>2, <2>3
  <2>5. x.length \in Nat /\ ReceivedDataLen(s) = ReceivedDataLen(s \ {x}) + x.length
    BY DataLenRemove DEF Lengths
  <2>6. ReceivedDataLen(t) > ReceivedDataLen(s \ {x}) /\ t \subseteq s \ {x}
    BY <1>1, <2>2, <2>4, <2>5
  <2>7. Cardinality(s \ {x}) = k - 1 /\ Cardinality(s \ {x}) \in Nat
    BY <1>1, <2>2, <2>4, FS_RemoveElement, FS_CardinalityType
  <2>8. k - 1 \in Bad
    BY <2>6, <2>7
  <2>9. k \in Nat
    BY <2>1
  <2> HIDE DEF Bad
  <2> QED
    BY <2>1, <2>8, <2>9
<1>3. Cardinality(S) \in Nat
  BY <1>1, FS_CardinalityType
<1> QED
  BY <1>1, <1>2, <1>3

-----------------------------------------------------------------------------
(* An offset that FrameSize divides is a multiple of it. *)
LEMMA Multiple ==
  ASSUME NEW q \in Nat, q % FrameSize = 0
  PROVE  \E d \in Nat : q = d * FrameSize
BY FrameSizeAssumption

(* Where a message is cut. *)
LEMMA Cuts ==
  ASSUME NEW k \in Nat
  PROVE  /\ k * FrameSize \in Nat /\ (k + 1) * FrameSize = k * FrameSize + FrameSize
         /\ (k * FrameSize) % FrameSize = 0 /\ k <= k * FrameSize
         /\ \A q \in Nat : q % FrameSize = 0 /\ k * FrameSize <= q /\ q < k * FrameSize + FrameSize
                             => q = k * FrameSize
<1> USE FrameSizeAssumption
<1>1. k * FrameSize \in Nat /\ (k + 1) * FrameSize = k * FrameSize + FrameSize
  OBVIOUS
<1>2. (k * FrameSize) % FrameSize = 0
  OBVIOUS
<1>3. k <= k * FrameSize
  OBVIOUS
<1>4. ASSUME NEW q \in Nat, q % FrameSize = 0,
             k * FrameSize <= q, q < k * FrameSize + FrameSize
      PROVE  q = k * FrameSize
  <2>1. PICK d \in Nat : q = d * FrameSize
    BY <1>4, Multiple
  <2>2. k * FrameSize <= d * FrameSize /\ d * FrameSize < k * FrameSize + FrameSize
    BY <1>4, <2>1
  <2>3. d = k
    BY <2>2
  <2> QED
    BY <2>1, <2>3
<1> QED
  BY <1>1, <1>2, <1>3, <1>4

(* The lengths of the blocks of a message. *)
LEMMA BlocksShape ==
  ASSUME NEW kind, NEW tid, NEW body, NEW total \in Nat \ {0}
  PROVE  /\ Lengths(Blocks(kind, tid, body, total))
         /\ \A g \in Blocks(kind, tid, body, total) :
              /\ g.kind = kind /\ g.tid = tid /\ g.body = body /\ g.total = total
              /\ g.offset \in 0 .. total - 1 /\ g.length \in Nat \ {0}
         /\ Blocks(kind, tid, body, total) # {}
         /\ \A g, h \in Blocks(kind, tid, body, total) : g.offset = h.offset => g = h
<1> USE FrameSizeAssumption
<1> DEFINE B(o) == NewTransaction(kind, tid, body, o, total)
<1>1. IsFiniteSet(Offsets(total))
  <2>1. IsFiniteSet(0 .. total - 1)
    BY FS_Interval
  <2> QED
    BY <2>1, FS_Subset DEF Offsets
<1>2. IsFiniteSet(Blocks(kind, tid, body, total))
  <2>1. Blocks(kind, tid, body, total) = {B(o) : o \in Offsets(total)}
    BY DEF Blocks
  <2> HIDE DEF B
  <2>2. [o \in Offsets(total) |-> B(o)]
          \in Surjection(Offsets(total), Blocks(kind, tid, body, total))
    BY <2>1 DEF Surjection
  <2> QED
    BY <1>1, <2>2, FS_Surjection
<1>3. ASSUME NEW o \in Offsets(total)
      PROVE  /\ B(o).kind = kind /\ B(o).tid = tid /\ B(o).body = body /\ B(o).total = total
             /\ B(o).offset = o /\ o \in 0 .. total - 1 /\ B(o).length \in Nat \ {0}
  BY DEF NewTransaction, Offsets
<1>4. 0 \in Offsets(total)
  BY DEF Offsets
<1> QED
  BY <1>2, <1>3, <1>4 DEF Blocks, Lengths

(* All of a message is as long as the message. *)
LEMMA WholeDataLen ==
  ASSUME NEW kind, NEW tid, NEW body, NEW total \in Nat \ {0}
  PROVE  ReceivedDataLen(Blocks(kind, tid, body, total)) = total
<1> USE FrameSizeAssumption
<1> DEFINE B(o) == NewTransaction(kind, tid, body, o, total)
           All == Blocks(kind, tid, body, total)
           Before(o) == {B(p) : p \in {q \in Offsets(total) : q < o}}
           Bad == {k \in Nat : ReceivedDataLen(Before(k * FrameSize)) #
                                 IF k * FrameSize < total THEN k * FrameSize ELSE total}
<1>1. Lengths(All)
  BY BlocksShape
<1>2. \A o : Before(o) \in SUBSET All
  BY DEF Blocks
<1>3. Bad = {}
  <2> SUFFICES ASSUME Bad # {} PROVE FALSE
    OBVIOUS
  <2>1. PICK k \in Bad : \A m \in Bad : k <= m
    BY LeastNat
  <2>2. k # 0
    <3>1. Before(0 * FrameSize) = {}
      BY DEF Offsets
    <3> QED
      BY <3>1, EmptyDataLen, <2>1
  <2>3. PICK j \in Nat : k = j + 1
    <3>1. k \in Nat
      BY <2>1
    <3> QED
      BY <2>2, <3>1
  <2>4. j \notin Bad
    <3> HIDE DEF Bad
    <3> QED
      BY <2>1, <2>3
  <2> DEFINE o == j * FrameSize
  <2>5. /\ o \in Nat /\ k * FrameSize = o + FrameSize
        /\ o % FrameSize = 0
        /\ \A q \in Nat : q % FrameSize = 0 /\ o <= q /\ q < o + FrameSize => q = o
    BY <2>3, Cuts
  <2>6. ReceivedDataLen(Before(o)) = IF o < total THEN o ELSE total
    BY <2>4
  <2> HIDE DEF o
  <2>7. CASE o >= total
    <3>1. Before(o + FrameSize) = Before(o)
      BY <2>5, <2>7 DEF Offsets
    <3>2. ~(k * FrameSize < total)
      BY <2>5, <2>7
    <3>3. ReceivedDataLen(Before(k * FrameSize)) = total
      <4>1. ReceivedDataLen(Before(o)) = total
        BY <2>5, <2>6, <2>7
      <4>2. Before(k * FrameSize) = Before(o)
        BY <2>5, <3>1
      <4> QED
        BY <4>1, <4>2
    <3>4. k \notin Bad
      BY <3>2, <3>3
    <3> QED
      BY <2>1, <3>4
  <2>8. CASE o < total
    <3>1. o \in Offsets(total)
      BY <2>5, <2>8 DEF Offsets
    <3>2. \A q \in Offsets(total) : q < o + FrameSize <=> q < o \/ q = o
      <4>1. \A q \in Offsets(total) : q \in Nat /\ q % FrameSize = 0
        BY DEF Offsets
      <4>2. \A q \in Offsets(total) : ~(q < o) /\ q < o + FrameSize => q = o
        BY <2>5, <4>1
      <4> QED
        BY <2>5, <4>1, <4>2
    <3>3. Before(o + FrameSize) = Before(o) \cup {B(o)}
      BY <3>1, <3>2
    <3>4. B(o) \notin Before(o)
      <4>1. \A p : B(p).offset = p
        BY DEF NewTransaction
      <4> HIDE DEF B
      <4>2. \A p \in Offsets(total) : p < o => B(p) # B(o)
        BY <2>5, <4>1 DEF Offsets
      <4> QED
        BY <4>2
    <3>5. Before(o) = Before(o + FrameSize) \ {B(o)}
      BY <3>3, <3>4
    <3>6. ReceivedDataLen(Before(o + FrameSize)) = ReceivedDataLen(Before(o)) + B(o).length
      <4>1. Before(o + FrameSize) \in SUBSET All
        BY <1>2
      <4>2. B(o) \in Before(o + FrameSize)
        BY <3>3
      <4> HIDE DEF Before, B, All
      <4> QED
        BY <1>1, <3>5, <4>1, <4>2, DataLenRemove
    <3>7. B(o).length = IF total - o < FrameSize THEN total - o ELSE FrameSize
      BY DEF NewTransaction
    <3> HIDE DEF Before, B
    <3>8. ReceivedDataLen(Before(k * FrameSize)) =
            IF k * FrameSize < total THEN k * FrameSize ELSE total
      BY <2>5, <2>6, <2>8, <3>6, <3>7
    <3> QED
      BY <2>1, <3>8
  <2> QED
    BY <2>5, <2>7, <2>8
<1>4. total <= total * FrameSize /\ total * FrameSize \in Nat
  BY Cuts
<1>5. ReceivedDataLen(Before(total * FrameSize)) = total
  <2>1. total \notin Bad
    BY <1>3
  <2>2. ~(total * FrameSize < total)
    BY <1>4
  <2> HIDE DEF Before
  <2> QED
    BY <2>1, <2>2
<1>6. Before(total * FrameSize) = All
  BY <1>4 DEF Offsets, Blocks
<1> QED
  BY <1>5, <1>6

(* So some blocks of a message make up its length only if all are there. *)
THEOREM WholeOnly ==
  ASSUME NEW kind, NEW tid, NEW body, NEW total \in Nat \ {0},
         NEW frames \in SUBSET Blocks(kind, tid, body, total)
  PROVE  ReceivedDataLen(frames) = total <=> frames = Blocks(kind, tid, body, total)
<1> DEFINE All == Blocks(kind, tid, body, total)
<1>1. /\ Lengths(All) /\ \A g \in All : g.length \in Nat \ {0}
      /\ ReceivedDataLen(All) = total
  BY BlocksShape, WholeDataLen
<1> HIDE DEF All
<1>2. ASSUME NEW g \in All, g \notin frames PROVE ReceivedDataLen(frames) < total
  <2>1. /\ All \ {g} \in SUBSET All /\ frames \in SUBSET All
        /\ frames \in SUBSET (All \ {g})
    BY <1>2 DEF All
  <2>2. Lengths(All \ {g})
    BY <1>1, FS_RemoveElement DEF Lengths
  <2>3. ReceivedDataLen(frames) <= ReceivedDataLen(All \ {g})
    BY <2>1, <2>2, DataLenGrows
  <2>4. ReceivedDataLen(All) = ReceivedDataLen(All \ {g}) + g.length
    BY <1>1, DataLenRemove
  <2>5. ReceivedDataLen(frames) \in Nat /\ ReceivedDataLen(All \ {g}) \in Nat
    BY <1>1, <2>1, DataLenType
  <2> QED
    BY <1>1, <2>3, <2>4, <2>5
<1>3. frames \subseteq All
  BY DEF All
<1>4. ReceivedDataLen(frames) = total <=> frames = All
  BY <1>1, <1>2, <1>3
<1> QED
  BY <1>4 DEF All

-----------------------------------------------------------------------------
(* The blocks of a request, a response and a refusal. *)
LEMMA RequestShape ==
  ASSUME NEW m \in Messages
  PROVE  /\ Request(m) # {} /\ IsFiniteSet(Request(m))
         /\ \A g \in Request(m) :
              /\ g.kind = "call" /\ g.tid = TidOf[m] /\ g.body = m /\ g.total = SizeOf[m]
              /\ g.offset \in 0 .. SizeOf[m] - 1
         /\ \A g, h \in Request(m) : g.offset = h.offset => g = h
BY MessagesAssumption, BlocksShape DEF Request, Lengths

(* What the blocks of a response say. *)
LEMMA ResponseShape ==
  ASSUME NEW m \in Messages
  PROVE  \A g \in Response(m) :
           /\ g.kind = "response" /\ g.tid = TidOf[m] /\ g.body = m /\ g.total = ResponseSizeOf[m]
           /\ g.offset \in 0 .. ResponseSizeOf[m] - 1
BY MessagesAssumption, BlocksShape DEF Response

(* What the block of an error response says. *)
LEMMA RefusedShape ==
  ASSUME NEW t
  PROVE  \A g \in Refused(t) : g.kind = "response" /\ g.tid = t /\ g.body = Refusal
BY BlocksShape DEF Refused

(* A request block names its message, and is one of its blocks. *)
LEMMA RequestBlock ==
  ASSUME NEW f \in RequestBlocks
  PROVE  /\ f.body \in Messages /\ f \in Request(f.body) /\ f.kind = "call"
         /\ f.tid = TidOf[f.body] /\ f.total = SizeOf[f.body]
BY RequestShape DEF RequestBlocks

(* No response block is a request block. *)
LEMMA ResponseBlock ==
  ASSUME NEW f \in ResponseBlocks
  PROVE  f.kind = "response"
<1>1. CASE f \in UNION {Response(m) : m \in Messages}
  BY <1>1, ResponseShape
<1>2. CASE f \in UNION {Refused(TidOf[m]) : m \in Messages}
  <2>1. PICK m \in Messages : f \in Refused(TidOf[m])
    BY <1>2
  <2> QED
    BY <2>1, RefusedShape
<1> DEFINE A == UNION {Response(m) : m \in Messages}
           B == UNION {Refused(TidOf[m]) : m \in Messages}
<1>3. ResponseBlocks = A \cup B
  BY Zenon DEF ResponseBlocks, A, B
<1> HIDE DEF A, B
<1>4. f \in A \/ f \in B
  BY <1>3
<1> QED
  BY <1>1, <1>2, <1>4 DEF A, B

(* The table without what is purged, and the transaction of a block in it. *)
LEMMA JoinedShape ==
  ASSUME NEW f
  PROVE  /\ DOMAIN Young =
              {t \in DOMAIN incomingTransactions : now - incomingTransactions[t].begin <= PurgeAge}
         /\ \A t \in DOMAIN Young : Young[t] = incomingTransactions[t]
BY DEF Young

-----------------------------------------------------------------------------
Sent(m) == outgoingTransactions[m].offset > 0

CallState == [pc : {"idle", "sending", "waiting", "done"}, offset : Nat,
              frames : SUBSET ResponseBlocks, result : SUBSET ResponseBlocks]
Handed == [frames : SUBSET RequestBlocks, since : Nat, at : Nat]

Types ==
  /\ now \in 0 .. MaxTime
  /\ net \subseteq RequestBlocks \cup ResponseBlocks
  /\ repeats \in 0 .. MaxRepeats
  /\ process \in Nat \ {0}
  /\ outgoingTransactions \in [Messages -> CallState]
  /\ \A m \in Messages : outgoingTransactions[m].pc \in {"idle", "sending"} =>
       outgoingTransactions[m].offset \in Offsets(SizeOf[m])
  /\ \A t \in DOMAIN incomingTransactions :
       incomingTransactions[t] \in [begin : 0 .. now, frames : (SUBSET RequestBlocks) \ {{}}]
  /\ executed \subseteq Messages
  /\ panicked \subseteq {"client", "server"}
  /\ taken \in [RequestBlocks -> Nat]
  /\ handed \in Seq(Handed)

(* What is under way, in the table or handed over was sent. *)
SentInv ==
  /\ \A m \in Messages : outgoingTransactions[m].pc \in {"sending", "waiting"} => Sent(m)
  /\ \A f \in net : f.kind = "call" => Sent(f.body)
  /\ \A f \in RequestBlocks : taken[f] > 0 => Sent(f.body)
  /\ \A t \in DOMAIN incomingTransactions : \A g \in incomingTransactions[t].frames :
       g.tid = t /\ taken[g] > 0
  /\ \A i \in DOMAIN handed : \A f, g \in handed[i].frames : f.tid = g.tid
  /\ \A m \in executed : Sent(m)

(* The table says since when it holds a transaction. *)
SinceInv ==
  /\ DOMAIN since = DOMAIN incomingTransactions
  /\ \A t \in DOMAIN since : since[t] = incomingTransactions[t].begin

(* Responses, and what the calls have of them, belong to the id's only use. *)
ResponseInv ==
  /\ \A f \in net : f.kind = "response" =>
       Reused(f.tid) \/ \E m \in executed : f \in Response(m)
  /\ \A m \in Messages :
       LET frames == outgoingTransactions[m].frames
       IN  frames = {} \/ Reused(TidOf[m]) \/ (frames \subseteq Response(m) /\ m \in executed)

Stored(f) == f.tid \in DOMAIN incomingTransactions /\ f \in incomingTransactions[f.tid].frames

(* A block in the table is one arrival that has not completed a message. *)
CountInv ==
  \A m \in Messages : \A f \in Request(m) :
    Cardinality(Completions(Request(m))) + (IF Stored(f) THEN 1 ELSE 0) <= taken[f]

(* Until its message is complete, a block that arrived is in the table,    *)
(* and the table holds no complete message.                                *)
ArrivedInv ==
  /\ \A m \in Messages : \A f \in Request(m) :
       taken[f] > 0 =>
         Stored(f) \/ Completions(Request(m)) # {} \/ TidOf[m] \in purged \/ Reused(TidOf[m])
  /\ \A m \in Messages :
       ~Reused(TidOf[m]) /\ TidOf[m] \in DOMAIN incomingTransactions =>
         incomingTransactions[TidOf[m]].frames # Request(m)

-----------------------------------------------------------------------------
(* A frame that is taken adds no more than what is posted for it. *)
LEMMA ExchangeShape ==
  ASSUME NEW f, NEW frames, Exchange(f, frames), repeats \in 0 .. MaxRepeats
  PROVE  f \in net /\ net' \subseteq net \cup frames /\ repeats' \in 0 .. MaxRepeats
BY BoundsAssumption DEF Exchange

(* A block is appended, or its offset was seen. *)
LEMMA AppendedShape ==
  ASSUME NEW frames, NEW f
  PROVE  Appended(frames, f) \in {frames, frames \cup {f}}
BY DEF Appended

(* A call frame under way is a block of a request. *)
LEMMA CallOf ==
  ASSUME Types, NEW f \in net, f.kind = "call" PROVE f \in RequestBlocks
BY ResponseBlock DEF Types

(* The transaction a block is taken into. *)
LEMMA JoinedFrames ==
  ASSUME Types, SinceInv, NEW f \in RequestBlocks
  PROVE  /\ Joined(f).begin \in 0 .. now /\ Since(f) = Joined(f).begin
         /\ now - Since(f) <= PurgeAge
         /\ Joined(f) \in [begin : 0 .. now, frames : (SUBSET RequestBlocks) \ {{}}]
         /\ \E g \in Joined(f).frames : g.offset = f.offset
         /\ f.tid \notin DOMAIN Young => Joined(f).frames = {f}
         /\ f.tid \in DOMAIN Young =>
              /\ incomingTransactions[f.tid].frames \subseteq Joined(f).frames
              /\ Joined(f).frames \subseteq incomingTransactions[f.tid].frames \cup {f}
              /\ \/ f \in Joined(f).frames
                 \/ \E g \in incomingTransactions[f.tid].frames : g.offset = f.offset
<1>1. CASE f.tid \notin DOMAIN Young
  <2>1. Joined(f) = [begin |-> now, frames |-> {f}] /\ Since(f) = now
    BY <1>1 DEF Joined, Since
  <2>2. now \in Nat /\ now - now <= PurgeAge /\ now \in 0 .. now
    BY BoundsAssumption DEF Types
  <2> QED
    BY <1>1, <2>1, <2>2
<1>2. CASE f.tid \in DOMAIN Young
  <2> DEFINE old == incomingTransactions[f.tid]
  <2>1. f.tid \in DOMAIN incomingTransactions /\ now - old.begin <= PurgeAge /\ Young[f.tid] = old
    BY <1>2 DEF Young
  <2>2. old \in [begin : 0 .. now, frames : (SUBSET RequestBlocks) \ {{}}]
    BY <2>1 DEF Types
  <2>3. Joined(f) = [old EXCEPT !.frames = Appended(@, f)]
    BY <1>2, <2>1 DEF Joined
  <2> HIDE DEF old
  <2>4. Joined(f).begin = old.begin /\ Joined(f).frames = Appended(old.frames, f)
    BY <2>2, <2>3
  <2>8. Appended(old.frames, f) \in (SUBSET RequestBlocks) \ {{}}
    BY <2>2 DEF Appended
  <2>9. Joined(f) \in [begin : 0 .. now, frames : (SUBSET RequestBlocks) \ {{}}]
    BY <2>2, <2>3, <2>8
  <2>5. Since(f) = old.begin
    BY <1>2, <2>1 DEF Since, SinceInv, old
  <2>6. CASE \E g \in old.frames : g.offset = f.offset
    <3>1. Joined(f).frames = old.frames
      BY <2>4, <2>6 DEF Appended
    <3> QED
      BY <1>2, <2>1, <2>2, <2>4, <2>5, <2>6, <2>9, <3>1 DEF old
  <2>7. CASE ~\E g \in old.frames : g.offset = f.offset
    <3>1. Joined(f).frames = old.frames \cup {f}
      BY <2>4, <2>7 DEF Appended
    <3> QED
      BY <1>2, <2>1, <2>2, <2>4, <2>5, <2>9, <3>1 DEF old
  <2> QED
    BY <2>6, <2>7
<1> QED
  BY <1>1, <1>2

-----------------------------------------------------------------------------
(* What changing two fields of a call leaves of it. *)
LEMMA SentUpdate ==
  ASSUME NEW c \in CallState, NEW pc \in {"idle", "sending", "waiting", "done"},
         NEW offset \in Nat
  PROVE  /\ [c EXCEPT !.offset = offset, !.pc = pc] \in CallState
         /\ [c EXCEPT !.offset = offset, !.pc = pc].pc = pc
         /\ [c EXCEPT !.offset = offset, !.pc = pc].offset = offset
         /\ [c EXCEPT !.offset = offset, !.pc = pc].frames = c.frames
         /\ [c EXCEPT !.offset = offset, !.pc = pc].result = c.result
BY DEF CallState

(* The same for what a call receives. *)
LEMMA ReceivedUpdate ==
  ASSUME NEW c \in CallState,
         NEW frames \in SUBSET ResponseBlocks, NEW result \in SUBSET ResponseBlocks
  PROVE  /\ [c EXCEPT !.frames = frames, !.result = result] \in CallState
         /\ [c EXCEPT !.frames = frames, !.result = result].pc = c.pc
         /\ [c EXCEPT !.frames = frames, !.result = result].offset = c.offset
         /\ [c EXCEPT !.frames = frames, !.result = result].frames = frames
         /\ [c EXCEPT !.frames = frames, !.result = result].result = result
BY DEF CallState

(* What sending a block does to the calls. *)
LEMMA SendBlockShape ==
  ASSUME Types, NEW m \in Messages, SendBlock(m)
  PROVE  /\ \E block \in Request(m) : net' = net \cup {block}
         /\ outgoingTransactions' \in [Messages -> CallState]
         /\ \A n \in Messages \ {m} : outgoingTransactions'[n] = outgoingTransactions[n]
         /\ outgoingTransactions'[m].pc \in {"sending", "waiting"}
         /\ outgoingTransactions'[m].offset > 0
         /\ outgoingTransactions'[m].pc = "sending" =>
              outgoingTransactions'[m].offset \in Offsets(SizeOf[m])
         /\ outgoingTransactions'[m].frames = outgoingTransactions[m].frames
         /\ outgoingTransactions'[m].result = outgoingTransactions[m].result
<1> DEFINE o == outgoingTransactions[m].offset
           block == NewTransaction("call", TidOf[m], m, o, SizeOf[m])
           pc == IF o + block.length < SizeOf[m] THEN "sending" ELSE "waiting"
<1>1. SizeOf[m] \in Nat \ {0} /\ FrameSize \in Nat \ {0}
  BY MessagesAssumption, FrameSizeAssumption
<1>2. o \in Offsets(SizeOf[m])
  BY DEF Types, SendBlock
<1>3. block \in Request(m)
  BY <1>2 DEF Request, Blocks
<1>4. block.length = IF SizeOf[m] - o < FrameSize THEN SizeOf[m] - o ELSE FrameSize
  BY DEF NewTransaction
<1>5. /\ outgoingTransactions' = [outgoingTransactions EXCEPT ![m] =
           [@ EXCEPT !.offset = o + block.length, !.pc = pc]]
      /\ net' = net \cup {block}
  BY DEF SendBlock, Post
<1> HIDE DEF block, o
<1>6. o \in Nat /\ o < SizeOf[m] /\ o % FrameSize = 0
  BY <1>1, <1>2 DEF Offsets
<1>7. o + block.length \in Nat \ {0} /\ o + FrameSize \in Nat
  BY <1>1, <1>4, <1>6
<1>8. ASSUME o + block.length < SizeOf[m] PROVE o + block.length \in Offsets(SizeOf[m])
  <2>1. block.length = FrameSize
    BY <1>1, <1>4, <1>6, <1>8
  <2>2. (o + FrameSize) % FrameSize = 0
    <3>1. PICK d \in Nat : o = d * FrameSize
      BY <1>6, Multiple
    <3>2. o + FrameSize = (d + 1) * FrameSize /\ d + 1 \in Nat
      BY <3>1, Cuts
    <3> QED
      BY <3>2, Cuts
  <2> QED
    BY <1>1, <1>7, <1>8, <2>1, <2>2 DEF Offsets
<1> DEFINE c == outgoingTransactions[m]
           offset == o + block.length
           d == [c EXCEPT !.offset = offset, !.pc = pc]
<1>9. c \in CallState /\ outgoingTransactions \in [Messages -> CallState]
  BY DEF Types
<1>10. pc \in {"sending", "waiting"} /\ (pc = "sending" => offset \in Offsets(SizeOf[m]))
  BY <1>8
<1>11. outgoingTransactions' = [outgoingTransactions EXCEPT ![m] = d]
  BY <1>5
<1>12. offset \in Nat /\ offset > 0
  BY <1>7
<1> HIDE DEF pc, offset, c
<1>13. /\ d \in CallState /\ d.pc = pc /\ d.offset = offset
       /\ d.frames = c.frames /\ d.result = c.result
  <2>1. c \in CallState /\ pc \in {"idle", "sending", "waiting", "done"} /\ offset \in Nat
    BY <1>9, <1>10, <1>12
  <2>2. d \in CallState
    BY <2>1 DEF CallState
  <2>3. d.pc = pc
    BY <2>1 DEF CallState
  <2>4. d.offset = offset
    BY <2>1 DEF CallState
  <2>5. d.frames = c.frames
    BY <2>1 DEF CallState
  <2>6. d.result = c.result
    BY <2>1 DEF CallState
  <2> QED
    BY <2>2, <2>3, <2>4, <2>5, <2>6
<1> HIDE DEF d
<1>14. /\ outgoingTransactions' \in [Messages -> CallState]
       /\ \A n \in Messages \ {m} : outgoingTransactions'[n] = outgoingTransactions[n]
       /\ outgoingTransactions'[m] = d
  BY <1>9, <1>11, <1>13
<1>15. \E b \in Request(m) : net' = net \cup {b}
  BY <1>3, <1>5
<1> QED
  BY <1>10, <1>12, <1>13, <1>14, <1>15 DEF c

(* What the end of a call leaves of it. *)
LEMMA FinishShape ==
  ASSUME Types, NEW m \in Messages, Finish(m)
  PROVE  /\ outgoingTransactions' \in [Messages -> CallState]
         /\ \A n \in Messages \ {m} : outgoingTransactions'[n] = outgoingTransactions[n]
         /\ outgoingTransactions'[m].pc = "done"
         /\ outgoingTransactions'[m].offset = outgoingTransactions[m].offset
         /\ outgoingTransactions'[m].frames = outgoingTransactions[m].frames
         /\ outgoingTransactions'[m].result = outgoingTransactions[m].result
<1> DEFINE c == outgoingTransactions[m]
           d == [c EXCEPT !.pc = "done"]
<1>1. c \in CallState /\ outgoingTransactions \in [Messages -> CallState]
  BY DEF Types
<1>2. outgoingTransactions' = [outgoingTransactions EXCEPT ![m] = d]
  BY DEF Finish
<1> HIDE DEF c
<1>3. /\ d \in CallState /\ d.pc = "done" /\ d.offset = c.offset
      /\ d.frames = c.frames /\ d.result = c.result
  BY <1>1 DEF CallState
<1> HIDE DEF d
<1>4. /\ outgoingTransactions' \in [Messages -> CallState]
      /\ \A n \in Messages \ {m} : outgoingTransactions'[n] = outgoingTransactions[n]
      /\ outgoingTransactions'[m] = d
  BY <1>1, <1>2, <1>3
<1> QED
  BY <1>3, <1>4 DEF c

(* A restart ends calls, and leaves what they had. *)
LEMMA RestartShape ==
  ASSUME Types, RestartClient
  PROVE  /\ outgoingTransactions' \in [Messages -> CallState]
         /\ \A m \in Messages :
              /\ outgoingTransactions'[m].pc \in {outgoingTransactions[m].pc, "done"}
              /\ outgoingTransactions'[m].offset = outgoingTransactions[m].offset
              /\ outgoingTransactions'[m].frames = outgoingTransactions[m].frames
              /\ outgoingTransactions'[m].result = outgoingTransactions[m].result
<1> DEFINE d(m) == [outgoingTransactions[m] EXCEPT !.pc = "done"]
<1>1. outgoingTransactions \in [Messages -> CallState]
  BY DEF Types
<1>2. outgoingTransactions' =
        [m \in Messages |-> IF ProcessOf[m] = process THEN d(m) ELSE outgoingTransactions[m]]
  BY DEF RestartClient
<1>3. ASSUME NEW m \in Messages
      PROVE  /\ d(m) \in CallState /\ d(m).pc = "done"
             /\ d(m).offset = outgoingTransactions[m].offset
             /\ d(m).frames = outgoingTransactions[m].frames
             /\ d(m).result = outgoingTransactions[m].result
  <2> DEFINE c == outgoingTransactions[m]
  <2>1. c \in CallState
    BY <1>1
  <2> HIDE DEF c
  <2>2. /\ [c EXCEPT !.pc = "done"] \in CallState /\ [c EXCEPT !.pc = "done"].pc = "done"
        /\ [c EXCEPT !.pc = "done"].offset = c.offset
        /\ [c EXCEPT !.pc = "done"].frames = c.frames
        /\ [c EXCEPT !.pc = "done"].result = c.result
    BY <2>1 DEF CallState
  <2> QED
    BY <2>2 DEF c
<1> HIDE DEF d
<1> QED
  BY <1>1, <1>2, <1>3

(* A response block that is taken for a call. *)
LEMMA ReceiveShape ==
  ASSUME Types, NEW m \in Messages, NEW f \in net, ReceiveResponse(m, f)
  PROVE  /\ f \in ResponseBlocks /\ f.kind = "response" /\ f.tid = TidOf[m]
         /\ outgoingTransactions' \in [Messages -> CallState]
         /\ \A n \in Messages \ {m} : outgoingTransactions'[n] = outgoingTransactions[n]
         /\ outgoingTransactions'[m].pc = outgoingTransactions[m].pc
         /\ outgoingTransactions'[m].offset = outgoingTransactions[m].offset
         /\ \/ outgoingTransactions' = outgoingTransactions
            \/ /\ outgoingTransactions'[m].frames =
                    Appended(outgoingTransactions[m].frames, f)
               /\ \/ outgoingTransactions'[m].result = outgoingTransactions[m].result
                  \/ /\ outgoingTransactions'[m].result = outgoingTransactions'[m].frames
                     /\ Complete(outgoingTransactions'[m].frames, f)
<1> DEFINE c == outgoingTransactions[m]
           frames == Appended(c.frames, f)
           result == IF Complete(frames, f) THEN frames ELSE c.result
           d == [c EXCEPT !.frames = frames, !.result = result]
<1>1. f \in ResponseBlocks /\ f.kind = "response" /\ f.tid = TidOf[m]
  BY RequestBlock DEF Types, ReceiveResponse
<1>2. c \in CallState /\ outgoingTransactions \in [Messages -> CallState]
  BY DEF Types
<1>3. frames \in SUBSET ResponseBlocks
  BY <1>1, <1>2 DEF Appended, CallState
<1>4. result \in SUBSET ResponseBlocks
  BY <1>2, <1>3 DEF CallState
<1>5. \/ outgoingTransactions' = outgoingTransactions
      \/ outgoingTransactions' = [outgoingTransactions EXCEPT ![m] =
           [c EXCEPT !.frames = frames,
                     !.result = IF Complete(frames, f) THEN frames ELSE c.result]]
  BY DEF ReceiveResponse
<1>6. result = c.result \/ (result = frames /\ Complete(frames, f))
  OBVIOUS
<1> HIDE DEF frames, result, c
<1>8. /\ d \in CallState /\ d.pc = c.pc /\ d.offset = c.offset
      /\ d.frames = frames /\ d.result = result
  <2>2. d \in CallState
    BY <1>2, <1>3, <1>4 DEF CallState
  <2>3. d.pc = c.pc
    BY <1>2, <1>3, <1>4 DEF CallState
  <2>4. d.offset = c.offset
    BY <1>2, <1>3, <1>4 DEF CallState
  <2>5. d.frames = frames
    BY <1>2, <1>3, <1>4 DEF CallState
  <2>6. d.result = result
    BY <1>2, <1>3, <1>4 DEF CallState
  <2> QED
    BY <2>2, <2>3, <2>4, <2>5, <2>6
<1>9. \/ outgoingTransactions' = outgoingTransactions
      \/ outgoingTransactions' = [outgoingTransactions EXCEPT ![m] = d]
  BY <1>5 DEF result
<1> HIDE DEF d
<1>10. CASE outgoingTransactions' = outgoingTransactions
  BY <1>1, <1>2, <1>10
<1>11. CASE outgoingTransactions' = [outgoingTransactions EXCEPT ![m] = d]
  <2>1. /\ outgoingTransactions' \in [Messages -> CallState]
        /\ \A n \in Messages \ {m} : outgoingTransactions'[n] = outgoingTransactions[n]
        /\ outgoingTransactions'[m] = d
    BY <1>2, <1>8, <1>11
  <2> QED
    BY <1>1, <1>6, <1>8, <2>1 DEF frames, c
<1> QED
  BY <1>9, <1>10, <1>11

(* The steps that leave the calls alone. *)
ServerOrNetwork ==
  \/ Tick
  \/ \E f \in net : StorePartial(f) \/ HandOver(f) \/ PanicServer(f) \/ DropResponse(f)

(* The server never touches the state of the client. *)
LEMMA ServerOrNetworkShape ==
  ASSUME ServerOrNetwork PROVE UNCHANGED clientVars
BY DEF ServerOrNetwork, clientVars, Tick, StorePartial, HandOver, PanicServer, Arrive,
   DropResponse

(* The actions of Next, by whom they belong to. *)
LEMMA Cases ==
  ASSUME [Next]_vars
  PROVE  \/ UNCHANGED vars \/ ServerOrNetwork \/ RestartClient
         \/ \E m \in Messages : SendBlock(m)
         \/ \E m \in Messages : Finish(m)
         \/ \E m \in Messages, f \in net : ReceiveResponse(m, f)
BY Zenon DEF Next, ServerOrNetwork

(* Nothing that was sent is ever unsent. *)
LEMMA SentStays ==
  ASSUME Types, [Next]_vars, NEW m \in Messages
  PROVE  Sent(m) => Sent(m)'
<1>1. CASE UNCHANGED vars \/ ServerOrNetwork
  BY <1>1, ServerOrNetworkShape DEF Sent, vars, clientVars
<1>2. ASSUME NEW n \in Messages, SendBlock(n) PROVE Sent(m) => Sent(m)'
  BY <1>2, SendBlockShape DEF Sent
<1>3. ASSUME NEW n \in Messages, Finish(n) PROVE Sent(m) => Sent(m)'
  BY <1>3, FinishShape DEF Sent
<1>4. CASE RestartClient
  BY <1>4, RestartShape DEF Sent
<1>5. ASSUME NEW n \in Messages, NEW f \in net, ReceiveResponse(n, f)
      PROVE  Sent(m) => Sent(m)'
  BY <1>5, ReceiveShape DEF Sent
<1> QED
  BY <1>1, <1>2, <1>3, <1>4, <1>5, Cases

(* So an id that was used again stays so. *)
LEMMA ReusedStays ==
  ASSUME Types, [Next]_vars, NEW t
  PROVE  Reused(t) => Reused(t)'
<1>1. \A m \in Messages : Sent(m) => Sent(m)'
  BY SentStays
<1> QED
  BY <1>1 DEF Reused, Sent

-----------------------------------------------------------------------------
(* What the server does with a block: the table, its history and the net. *)
LEMMA ArriveShape ==
  ASSUME Types, NEW f \in net, Arrive(f)
  PROVE  /\ f \in RequestBlocks /\ f.kind = "call"
         /\ taken' \in [RequestBlocks -> Nat]
         /\ taken'[f] = taken[f] + 1
         /\ \A g \in RequestBlocks \ {f} : taken'[g] = taken[g]
         /\ purged' = purged \cup (DOMAIN incomingTransactions \ DOMAIN Young)
         /\ UNCHANGED <<now, clientVars>>
BY CallOf DEF Arrive, Purged, Types

(* A block that completes nothing is put into the table. *)
LEMMA StoreShape ==
  ASSUME Types, SinceInv, NEW f \in net, StorePartial(f)
  PROVE  /\ DOMAIN incomingTransactions' = DOMAIN Young \cup {f.tid}
         /\ incomingTransactions'[f.tid] = Joined(f)
         /\ \A t \in DOMAIN Young : t # f.tid => incomingTransactions'[t] = incomingTransactions[t]
         /\ DOMAIN since' = DOMAIN Young \cup {f.tid}
         /\ since'[f.tid] = Since(f)
         /\ \A t \in DOMAIN Young : t # f.tid => since'[t] = since[t]
         /\ net' \subseteq net /\ repeats' \in 0 .. MaxRepeats
         /\ UNCHANGED <<executed, panicked, handed>>
<1>1. Exchange(f, {}) /\ repeats \in 0 .. MaxRepeats
  BY DEF StorePartial, Types
<1>2. net' \subseteq net /\ repeats' \in 0 .. MaxRepeats
  BY <1>1, ExchangeShape
<1>3. \A t \in DOMAIN Young : Young[t] = incomingTransactions[t]
  BY JoinedShape
<1>4. /\ DOMAIN incomingTransactions' = DOMAIN Young \cup {f.tid}
      /\ incomingTransactions'[f.tid] = Joined(f)
      /\ \A t \in DOMAIN Young : t # f.tid => incomingTransactions'[t] = Young[t]
  <2> DEFINE j == Joined(f)
             y == Young
             d == f.tid
  <2>1. incomingTransactions' = [t \in DOMAIN y \cup {d} |-> IF t = d THEN j ELSE y[t]]
    BY DEF StorePartial
  <2> HIDE DEF j, y, d
  <2>2. /\ DOMAIN incomingTransactions' = DOMAIN y \cup {d}
        /\ incomingTransactions'[d] = j
        /\ \A t \in DOMAIN y : t # d => incomingTransactions'[t] = y[t]
    BY <2>1
  <2> QED
    BY <2>2 DEF j, y, d
<1>5. /\ DOMAIN since' = DOMAIN Young \cup {f.tid}
      /\ since'[f.tid] = Since(f)
      /\ \A t \in DOMAIN Young : t # f.tid => since'[t] = since[t]
  <2> DEFINE j == Since(f)
             y == Young
             d == f.tid
  <2>1. since' = [t \in DOMAIN y \cup {d} |-> IF t = d THEN j ELSE since[t]]
    BY DEF StorePartial
  <2> HIDE DEF j, y, d
  <2>2. /\ DOMAIN since' = DOMAIN y \cup {d}
        /\ since'[d] = j
        /\ \A t \in DOMAIN y : t # d => since'[t] = since[t]
    BY <2>1
  <2> QED
    BY <2>2 DEF j, y, d
<1> QED
  BY <1>2, <1>3, <1>4, <1>5 DEF StorePartial

(* A message that is complete leaves the table. *)
LEMMA HandOverShape ==
  ASSUME Types, SinceInv, NEW f \in net, HandOver(f)
  PROVE  /\ DOMAIN incomingTransactions' = DOMAIN Young \ {f.tid}
         /\ \A t \in DOMAIN incomingTransactions' :
              incomingTransactions'[t] = incomingTransactions[t]
         /\ DOMAIN since' = DOMAIN Young \ {f.tid}
         /\ \A t \in DOMAIN since' : since'[t] = since[t]
         /\ handed' = Append(handed, [frames |-> Joined(f).frames, since |-> Since(f), at |-> now])
         /\ repeats' \in 0 .. MaxRepeats
         /\ UNCHANGED panicked
<1>1. repeats \in 0 .. MaxRepeats
  BY DEF Types
<1>2. \E frames : Exchange(f, frames)
  BY DEF HandOver, Handle
<1>3. repeats' \in 0 .. MaxRepeats
  BY <1>1, <1>2, ExchangeShape
<1>4. \A t \in DOMAIN Young : Young[t] = incomingTransactions[t]
  BY JoinedShape
<1> HIDE DEF Young
<1> QED
  BY <1>3, <1>4 DEF HandOver

(* What it answers when a message is complete. *)
LEMMA HandleShape ==
  ASSUME Types, NEW f \in net, f \in RequestBlocks, HandOver(f)
  PROVE  \/ /\ Joined(f).frames # Request(f.body)
            /\ net' \subseteq net \cup Refused(f.tid) /\ UNCHANGED executed
         \/ /\ Joined(f).frames = Request(f.body) /\ f.body \in executed
            /\ net' \subseteq net /\ UNCHANGED executed
         \/ /\ Joined(f).frames = Request(f.body)
            /\ net' \subseteq net \cup Response(f.body) /\ executed' = executed \cup {f.body}
<1>1. repeats \in 0 .. MaxRepeats
  BY DEF Types
<1>2. Exchange(f, Refused(f.tid)) => net' \subseteq net \cup Refused(f.tid)
  BY <1>1, ExchangeShape
<1>3. Exchange(f, {}) => net' \subseteq net
  BY <1>1, ExchangeShape
<1>4. Exchange(f, Response(f.body)) => net' \subseteq net \cup Response(f.body)
  BY <1>1, ExchangeShape
<1> QED
  BY <1>2, <1>3, <1>4 DEF HandOver, Handle

(* What the server answers is a response block. *)
LEMMA Answers ==
  ASSUME NEW m \in Messages
  PROVE  Refused(TidOf[m]) \subseteq ResponseBlocks /\ Response(m) \subseteq ResponseBlocks
<1> DEFINE A == UNION {Response(n) : n \in Messages}
           B == UNION {Refused(TidOf[n]) : n \in Messages}
<1>1. ResponseBlocks = A \cup B
  BY Zenon DEF ResponseBlocks
<1>2. Response(m) \subseteq A
  OBVIOUS
<1>3. Refused(TidOf[m]) \subseteq B
  OBVIOUS
<1> HIDE DEF A, B
<1> QED
  BY <1>1, <1>2, <1>3

(* A panic leaves the table as it is. *)
LEMMA PanicShape ==
  ASSUME Types, NEW f \in net, PanicServer(f)
  PROVE  /\ net' \subseteq net /\ repeats' \in 0 .. MaxRepeats
         /\ UNCHANGED <<incomingTransactions, since, executed, handed>>
         /\ panicked' = panicked \cup {"server"}
BY ExchangeShape DEF PanicServer, Types

(* A response nobody waits for only leaves the net. *)
LEMMA DropShape ==
  ASSUME Types, NEW f \in net, DropResponse(f)
  PROVE  /\ net' \subseteq net /\ repeats' \in 0 .. MaxRepeats
         /\ UNCHANGED <<now, clientVars, serverVars, panicked, history>>
BY ExchangeShape DEF DropResponse, Types

(* A response that is taken only leaves the net, too. *)
LEMMA ReceiveNet ==
  ASSUME Types, NEW m \in Messages, NEW f \in net, ReceiveResponse(m, f)
  PROVE  /\ net' \subseteq net /\ repeats' \in 0 .. MaxRepeats
         /\ panicked' \in {panicked, panicked \cup {"client"}}
         /\ UNCHANGED <<now, process, serverVars, history>>
<1>1. Exchange(f, {}) /\ repeats \in 0 .. MaxRepeats
  BY DEF ReceiveResponse, Types
<1>2. net' \subseteq net /\ repeats' \in 0 .. MaxRepeats
  BY <1>1, ExchangeShape
<1> QED
  BY <1>2 DEF ReceiveResponse

-----------------------------------------------------------------------------
Basic == Types /\ SinceInv

(* The calls keep their types whatever step is taken on them. *)
CallsOK ==
  /\ outgoingTransactions \in [Messages -> CallState]
  /\ \A m \in Messages : outgoingTransactions[m].pc \in {"idle", "sending"} =>
       outgoingTransactions[m].offset \in Offsets(SizeOf[m])

(* One lemma per action: the types and the begin times are kept. *)
LEMMA BasicSendBlock ==
  ASSUME Basic, NEW m \in Messages, SendBlock(m) PROVE Basic'
<1>1. Types /\ SinceInv
  BY DEF Basic
<1>2. CallsOK'
  <2>1. \A n \in Messages \ {m} : outgoingTransactions'[n].pc \in {"idle", "sending"} =>
          outgoingTransactions'[n].offset \in Offsets(SizeOf[n])
    BY <1>1, SendBlockShape DEF Types
  <2>2. outgoingTransactions'[m].pc # "idle"
    BY <1>1, SendBlockShape
  <2> QED
    BY <1>1, <2>1, <2>2, SendBlockShape DEF CallsOK
<1>3. net' \subseteq RequestBlocks \cup ResponseBlocks
  BY <1>1, SendBlockShape DEF Types, RequestBlocks
<1>4. UNCHANGED <<now, process, serverVars, panicked, history, repeats>>
  BY DEF SendBlock, Post
<1> QED
  BY <1>1, <1>2, <1>3, <1>4 DEF Basic, Types, SinceInv, CallsOK, serverVars, history

(* Types and begin times over the end of a call. *)
LEMMA BasicFinish ==
  ASSUME Basic, NEW m \in Messages, Finish(m) PROVE Basic'
<1>1. Types /\ SinceInv
  BY DEF Basic
<1>2. CallsOK'
  BY <1>1, FinishShape DEF CallsOK, Types
<1>4. UNCHANGED <<now, net, process, serverVars, panicked, history, repeats>>
  BY DEF Finish
<1> QED
  BY <1>1, <1>2, <1>4 DEF Basic, Types, SinceInv, CallsOK, serverVars, history

(* Types and begin times over a restart of the client. *)
LEMMA BasicRestart ==
  ASSUME Basic, RestartClient PROVE Basic'
<1>1. Types /\ SinceInv
  BY DEF Basic
<1>2. CallsOK'
  BY <1>1, RestartShape DEF CallsOK, Types
<1>3. process' \in Nat \ {0} /\ panicked' \subseteq {"client", "server"}
  BY <1>1 DEF RestartClient, Types
<1>4. UNCHANGED <<now, net, serverVars, history, repeats>>
  BY DEF RestartClient
<1> QED
  BY <1>1, <1>2, <1>3, <1>4 DEF Basic, Types, SinceInv, CallsOK, serverVars, history

(* Types and begin times over a response block. *)
LEMMA BasicReceive ==
  ASSUME Basic, NEW m \in Messages, NEW f \in net, ReceiveResponse(m, f) PROVE Basic'
<1>1. Types /\ SinceInv
  BY DEF Basic
<1>2. CallsOK'
  BY <1>1, ReceiveShape DEF CallsOK, Types
<1>3. net' \subseteq RequestBlocks \cup ResponseBlocks /\ repeats' \in 0 .. MaxRepeats
  BY <1>1, ReceiveNet DEF Types
<1>4. panicked' \subseteq {"client", "server"}
  BY <1>1, ReceiveNet DEF Types
<1>5. UNCHANGED <<now, process, serverVars, history>>
  BY <1>1, ReceiveNet
<1> QED
  BY <1>1, <1>2, <1>3, <1>4, <1>5 DEF Basic, Types, SinceInv, CallsOK, serverVars, history

(* Types and begin times over a block that is stored. *)
LEMMA BasicStore ==
  ASSUME Basic, NEW f \in net, StorePartial(f) PROVE Basic'
<1>1. Types /\ SinceInv /\ Arrive(f)
  BY DEF Basic, StorePartial
<1>2. /\ f \in RequestBlocks /\ taken' \in [RequestBlocks -> Nat] /\ UNCHANGED <<now, clientVars>>
  BY <1>1, ArriveShape
<1>3. /\ net' \subseteq net /\ repeats' \in 0 .. MaxRepeats
      /\ UNCHANGED <<executed, panicked, handed>>
  BY <1>1, StoreShape
<1>4. /\ Joined(f) \in [begin : 0 .. now, frames : (SUBSET RequestBlocks) \ {{}}]
      /\ Since(f) = Joined(f).begin
  BY <1>1, <1>2, JoinedFrames
<1>5. \A t \in DOMAIN Young : t \in DOMAIN incomingTransactions
  BY JoinedShape
<1>6. \A t \in DOMAIN incomingTransactions' :
        /\ incomingTransactions'[t] \in [begin : 0 .. now, frames : (SUBSET RequestBlocks) \ {{}}]
        /\ since'[t] = incomingTransactions'[t].begin
  <2> SUFFICES ASSUME NEW t \in DOMAIN incomingTransactions'
               PROVE  /\ incomingTransactions'[t] \in
                           [begin : 0 .. now, frames : (SUBSET RequestBlocks) \ {{}}]
                      /\ since'[t] = incomingTransactions'[t].begin
    OBVIOUS
  <2>1. CASE t = f.tid
    BY <1>1, <1>4, <2>1, StoreShape
  <2>2. CASE t # f.tid
    <3>1. /\ t \in DOMAIN incomingTransactions /\ since'[t] = since[t]
          /\ incomingTransactions'[t] = incomingTransactions[t]
      BY <1>1, <1>5, <2>2, StoreShape
    <3> QED
      BY <1>1, <3>1 DEF Types, SinceInv
  <2> QED
    BY <2>1, <2>2
<1>7. DOMAIN since' = DOMAIN incomingTransactions'
  BY <1>1, StoreShape
<1>8. SinceInv'
  BY <1>6, <1>7 DEF SinceInv
<1>9. Types'
  BY <1>1, <1>2, <1>3, <1>6 DEF Types, clientVars
<1> QED
  BY <1>8, <1>9 DEF Basic

(* Types and begin times over a message that is handed over. *)
LEMMA BasicHandOver ==
  ASSUME Basic, NEW f \in net, HandOver(f) PROVE Basic'
<1>1. Types /\ SinceInv /\ Arrive(f)
  BY DEF Basic, HandOver
<1>2. /\ f \in RequestBlocks /\ taken' \in [RequestBlocks -> Nat] /\ UNCHANGED <<now, clientVars>>
  BY <1>1, ArriveShape
<1>3. repeats' \in 0 .. MaxRepeats /\ UNCHANGED panicked
  BY <1>1, HandOverShape
<1>4. /\ Joined(f) \in [begin : 0 .. now, frames : (SUBSET RequestBlocks) \ {{}}]
      /\ Since(f) = Joined(f).begin
  BY <1>1, <1>2, JoinedFrames
<1>5. f.tid = TidOf[f.body] /\ f.body \in Messages
  BY <1>2, RequestBlock
<1>6. Refused(f.tid) \subseteq ResponseBlocks /\ Response(f.body) \subseteq ResponseBlocks
  BY <1>5, Answers
<1>7. net' \subseteq RequestBlocks \cup ResponseBlocks /\ executed' \subseteq Messages
  <2>1. net' \subseteq RequestBlocks \cup ResponseBlocks
    BY <1>1, <1>2, <1>6, HandleShape DEF Types
  <2>2. executed' \subseteq Messages
    BY <1>1, <1>2, <1>5, HandleShape DEF Types
  <2> QED
    BY <2>1, <2>2
<1>8. handed' \in Seq(Handed)
  <2> DEFINE r == [frames |-> Joined(f).frames, since |-> Since(f), at |-> now]
  <2>1. /\ Joined(f).frames \in SUBSET RequestBlocks /\ Since(f) \in Nat /\ now \in Nat
    BY <1>1, <1>4 DEF Types
  <2>2. r \in Handed
    BY <2>1 DEF Handed
  <2>3. handed' = Append(handed, r)
    BY <1>1, HandOverShape
  <2> HIDE DEF r
  <2> QED
    BY <1>1, <2>2, <2>3 DEF Types
<1>9. /\ DOMAIN incomingTransactions' = DOMAIN Young \ {f.tid}
      /\ DOMAIN since' = DOMAIN Young \ {f.tid}
      /\ \A t \in DOMAIN incomingTransactions' :
           t \in DOMAIN incomingTransactions /\ incomingTransactions'[t] = incomingTransactions[t]
      /\ \A t \in DOMAIN since' : since'[t] = since[t]
  BY <1>1, HandOverShape, JoinedShape
<1>10. SinceInv'
  BY <1>1, <1>9 DEF SinceInv
<1>11. Types'
  BY <1>1, <1>2, <1>3, <1>7, <1>8, <1>9 DEF Types, clientVars
<1> QED
  BY <1>10, <1>11 DEF Basic

(* Types and begin times over a panic of the server. *)
LEMMA BasicPanic ==
  ASSUME Basic, NEW f \in net, PanicServer(f) PROVE Basic'
<1>1. Types /\ SinceInv /\ Arrive(f)
  BY DEF Basic, PanicServer
<1>2. taken' \in [RequestBlocks -> Nat] /\ UNCHANGED <<now, clientVars>>
  BY <1>1, ArriveShape
<1>3. /\ net' \subseteq net /\ repeats' \in 0 .. MaxRepeats
      /\ UNCHANGED <<incomingTransactions, since, executed, handed>>
      /\ panicked' \subseteq {"client", "server"}
  BY <1>1, PanicShape DEF Types
<1> QED
  BY <1>1, <1>2, <1>3 DEF Basic, Types, SinceInv, clientVars

(* Types and begin times over a response that is dropped. *)
LEMMA BasicDrop ==
  ASSUME Basic, NEW f \in net, DropResponse(f) PROVE Basic'
BY DropShape DEF Basic, Types, SinceInv, clientVars, serverVars, history

(* Types and begin times over the clock. *)
LEMMA BasicTick ==
  ASSUME Basic, Tick PROVE Basic'
<1>1. Types /\ SinceInv
  BY DEF Basic
<1>2. now' \in 0 .. MaxTime /\ now \in 0 .. now'
  BY <1>1, BoundsAssumption DEF Types, Tick
<1>3. 0 .. now \subseteq 0 .. now'
  BY <1>1, <1>2 DEF Types
<1>4. UNCHANGED <<net, repeats, clientVars, serverVars, panicked, history>>
  BY DEF Tick
<1>5. \A t \in DOMAIN incomingTransactions :
        incomingTransactions[t] \in [begin : 0 .. now', frames : (SUBSET RequestBlocks) \ {{}}]
  BY <1>1, <1>3 DEF Types
<1> QED
  BY <1>1, <1>2, <1>4, <1>5 DEF Basic, Types, SinceInv, clientVars, serverVars, history

(* Types and begin times at the start. *)
LEMMA BasicInit == Init => Basic
<1> SUFFICES ASSUME Init PROVE Basic
  OBVIOUS
<1>1. \A m \in Messages : 0 \in Offsets(SizeOf[m])
  BY MessagesAssumption, FrameSizeAssumption DEF Offsets
<1>2. /\ outgoingTransactions \in [Messages -> CallState]
      /\ \A m \in Messages : outgoingTransactions[m].offset = 0
  BY DEF Init, Idle, CallState
<1>3. taken \in [RequestBlocks -> Nat]
  BY DEF Init, RequestBlocks
<1>4. DOMAIN incomingTransactions = {} /\ DOMAIN since = {}
  BY DEF Init
<1>5. handed \in Seq(Handed)
  BY DEF Init
<1> QED
  BY <1>1, <1>2, <1>3, <1>4, <1>5, BoundsAssumption DEF Basic, Types, SinceInv, Init

(* Types and begin times over every step. *)
LEMMA BasicStep == Basic /\ [Next]_vars => Basic'
<1> SUFFICES ASSUME Basic, [Next]_vars PROVE Basic'
  OBVIOUS
<1>1. CASE UNCHANGED vars
  BY <1>1 DEF Basic, Types, SinceInv, vars, clientVars, serverVars, history
<1>2. CASE ServerOrNetwork
  BY <1>2, BasicTick, BasicStore, BasicHandOver, BasicPanic, BasicDrop DEF ServerOrNetwork
<1> QED
  BY <1>1, <1>2, BasicSendBlock, BasicFinish, BasicRestart, BasicReceive, Cases

(* The table is [transaction id -> [begin, frames]], and so are the rest.  *)
THEOREM TypesKept == Spec => []TypeOK
<1>1. Types => TypeOK
  BY DEF Types, TypeOK, CallState
<1>2. Init => Basic
  BY BasicInit
<1>3. Basic /\ [Next]_vars => Basic'
  BY BasicStep
<1>4. Basic => TypeOK
  BY <1>1 DEF Basic
<1> QED
  BY <1>2, <1>3, <1>4, PTL DEF Spec

-----------------------------------------------------------------------------
Base == Basic /\ SentInv

(* Nothing is under way at the start. *)
LEMMA SentInit == Init => SentInv
BY DEF Init, Idle, SentInv, RequestBlocks

(* The step of a call sends, or leaves the rest alone. *)
LEMMA SentCalls ==
  ASSUME Base, [Next]_vars, UNCHANGED <<taken, incomingTransactions, handed, executed>>,
         \A m \in Messages : outgoingTransactions'[m].pc \in {"sending", "waiting"} => Sent(m)',
         \A f \in net' : f.kind = "call" => f \in net \/ Sent(f.body)'
  PROVE  SentInv'
<1>1. Types /\ SentInv
  BY DEF Base, Basic
<1>2. \A m \in Messages : Sent(m) => Sent(m)'
  BY <1>1, SentStays
<1>3. \A f \in net : f.kind = "call" => f.body \in Messages
  BY <1>1, CallOf, RequestBlock
<1>4. \A f \in net' : f.kind = "call" => Sent(f.body)'
  BY <1>1, <1>2, <1>3 DEF SentInv
<1>5. \A f \in RequestBlocks : taken[f] > 0 => Sent(f.body)'
  BY <1>1, <1>2, RequestBlock DEF SentInv
<1>6. \A m \in executed : Sent(m)'
  BY <1>1, <1>2 DEF SentInv, Types
<1>7. /\ \A t \in DOMAIN incomingTransactions : \A g \in incomingTransactions[t].frames :
           g.tid = t /\ taken[g] > 0
      /\ \A i \in DOMAIN handed : \A f, g \in handed[i].frames : f.tid = g.tid
  BY <1>1 DEF SentInv
<1> QED
  BY <1>4, <1>5, <1>6, <1>7 DEF SentInv

(* The blocks the server joins were sent, all under one transaction id. *)
LEMMA JoinedSent ==
  ASSUME Base, NEW f \in net, Arrive(f), NEW g \in Joined(f).frames
  PROVE  /\ f \in RequestBlocks /\ f.body \in Messages /\ Sent(f.body)
         /\ g \in RequestBlocks /\ g.body \in Messages /\ Sent(g.body)
         /\ g.tid = f.tid /\ taken'[g] > 0
         /\ g = f \/ Stored(g)
<1>1. Types /\ SinceInv /\ SentInv
  BY DEF Base, Basic
<1>2. f \in RequestBlocks /\ f.kind = "call"
  BY <1>1, ArriveShape
<1>3. taken'[f] > 0 /\ \A h \in RequestBlocks : taken[h] > 0 => taken'[h] > 0
  <2>1. \A h \in RequestBlocks : taken[h] \in Nat /\ taken'[h] \in Nat
    BY <1>1, ArriveShape DEF Types
  <2> QED
    BY <1>1, <1>2, <2>1, ArriveShape
<1>4. f.body \in Messages /\ Sent(f.body)
  BY <1>1, <1>2, RequestBlock DEF SentInv
<1>5. g \in RequestBlocks
  BY <1>1, <1>2, JoinedFrames
<1>6. CASE g = f
  BY <1>2, <1>3, <1>4, <1>6
<1>7. CASE g # f
  <2>1. f.tid \in DOMAIN Young /\ g \in incomingTransactions[f.tid].frames
    BY <1>1, <1>2, <1>7, JoinedFrames
  <2>2. f.tid \in DOMAIN incomingTransactions
    BY <2>1, JoinedShape
  <2>3. g.tid = f.tid /\ taken[g] > 0
    BY <1>1, <2>1, <2>2 DEF SentInv
  <2>4. Sent(g.body) /\ g.body \in Messages
    BY <1>1, <1>5, <2>3, RequestBlock DEF SentInv
  <2> QED
    BY <1>2, <1>3, <1>4, <1>5, <2>1, <2>2, <2>3, <2>4 DEF Stored
<1> QED
  BY <1>6, <1>7

(* A block that is taken by the server, whatever becomes of it. *)
LEMMA SentServer ==
  ASSUME Base, NEW f \in net, Arrive(f),
         net' \subseteq net \cup ResponseBlocks,
         executed' \in {executed, executed \cup {f.body}},
         DOMAIN incomingTransactions' \subseteq DOMAIN incomingTransactions \cup {f.tid},
         \A t \in DOMAIN incomingTransactions' :
           \/ /\ t \in DOMAIN incomingTransactions
              /\ incomingTransactions'[t] = incomingTransactions[t]
           \/ t = f.tid /\ incomingTransactions'[t] = Joined(f),
         \/ UNCHANGED handed
         \/ handed' = Append(handed, [frames |-> Joined(f).frames, since |-> Since(f), at |-> now])
  PROVE  SentInv'
<1>1. Types /\ SinceInv /\ SentInv
  BY DEF Base, Basic
<1>2. /\ f \in RequestBlocks /\ f.kind = "call" /\ taken' \in [RequestBlocks -> Nat]
      /\ taken'[f] = taken[f] + 1
      /\ \A g \in RequestBlocks \ {f} : taken'[g] = taken[g]
      /\ UNCHANGED clientVars
  BY <1>1, ArriveShape
<1>3. f.body \in Messages /\ Sent(f.body)
  BY <1>1, <1>2, RequestBlock DEF SentInv
<1>4. \A m : Sent(m)' <=> Sent(m)
  BY <1>2 DEF Sent, clientVars
<1>5. \A m \in Messages : outgoingTransactions'[m].pc \in {"sending", "waiting"} => Sent(m)'
  BY <1>1, <1>2, <1>4 DEF SentInv, clientVars
<1>6. \A g \in net' : g.kind = "call" => Sent(g.body)'
  BY <1>1, <1>4, ResponseBlock DEF SentInv
<1>7. \A g \in RequestBlocks : taken'[g] > 0 => Sent(g.body)'
  BY <1>1, <1>2, <1>3, <1>4 DEF SentInv
<1>8. \A t \in DOMAIN incomingTransactions' : \A g \in incomingTransactions'[t].frames :
        g.tid = t /\ taken'[g] > 0
  <2> SUFFICES ASSUME NEW t \in DOMAIN incomingTransactions',
                      NEW g \in incomingTransactions'[t].frames
               PROVE  g.tid = t /\ taken'[g] > 0
    OBVIOUS
  <2>1. CASE t \in DOMAIN incomingTransactions /\ incomingTransactions'[t] = incomingTransactions[t]
    <3>1. g.tid = t /\ taken[g] > 0 /\ g \in RequestBlocks
      BY <1>1, <2>1 DEF SentInv, Types
    <3>2. taken[g] \in Nat /\ taken[f] \in Nat
      BY <1>1, <1>2, <3>1 DEF Types
    <3> QED
      BY <1>2, <3>1, <3>2
  <2>2. CASE t = f.tid /\ incomingTransactions'[t] = Joined(f)
    BY <2>2, JoinedSent
  <2> QED
    BY <2>1, <2>2
<1>9. \A i \in DOMAIN handed' : \A g, h \in handed'[i].frames : g.tid = h.tid
  <2>1. CASE UNCHANGED handed
    BY <1>1, <2>1 DEF SentInv
  <2>2. ASSUME handed' = Append(handed,
                 [frames |-> Joined(f).frames, since |-> Since(f), at |-> now]),
               NEW i \in DOMAIN handed', NEW g \in handed'[i].frames, NEW h \in handed'[i].frames
        PROVE  g.tid = h.tid
    <3>1. handed \in Seq(Handed)
      BY <1>1 DEF Types
    <3>2. CASE i \in DOMAIN handed
      <4>1. handed'[i] = handed[i]
        BY <2>2, <3>1, <3>2
      <4> QED
        BY <1>1, <2>2, <3>2, <4>1 DEF SentInv
    <3>3. CASE i \notin DOMAIN handed
      <4>1. i = Len(handed) + 1
        BY <2>2, <3>1, <3>3
      <4>2. handed'[i].frames = Joined(f).frames
        BY <2>2, <3>1, <4>1
      <4>3. g \in Joined(f).frames /\ h \in Joined(f).frames
        BY <2>2, <4>2
      <4> QED
        BY <4>3, JoinedSent
    <3> QED
      BY <3>2, <3>3
  <2> QED
    BY <2>1, <2>2
<1>10. \A m \in executed' : Sent(m)'
  BY <1>1, <1>3, <1>4 DEF SentInv
<1> QED
  BY <1>5, <1>6, <1>7, <1>8, <1>9, <1>10 DEF SentInv

(* Over every step, what is under way was sent. *)
LEMMA SentStep == Base /\ [Next]_vars => SentInv'
<1> SUFFICES ASSUME Base, [Next]_vars PROVE SentInv'
  OBVIOUS
<1>1. Types /\ SinceInv /\ SentInv
  BY DEF Base, Basic
<1>2. CASE UNCHANGED vars
  BY <1>1, <1>2 DEF SentInv, Sent, vars, clientVars, serverVars, history
<1>3. CASE Tick
  BY <1>1, <1>3 DEF SentInv, Sent, Tick, clientVars, serverVars, history
<1>4. ASSUME NEW f \in net, StorePartial(f) PROVE SentInv'
  <2>1. Arrive(f)
    BY <1>4 DEF StorePartial
  <2>2. DOMAIN Young \subseteq DOMAIN incomingTransactions
    BY JoinedShape
  <2>3. /\ net' \subseteq net /\ executed' = executed /\ UNCHANGED handed
        /\ DOMAIN incomingTransactions' \subseteq DOMAIN incomingTransactions \cup {f.tid}
    BY <1>1, <1>4, <2>2, StoreShape
  <2>4. \A t \in DOMAIN incomingTransactions' :
           \/ /\ t \in DOMAIN incomingTransactions
              /\ incomingTransactions'[t] = incomingTransactions[t]
           \/ t = f.tid /\ incomingTransactions'[t] = Joined(f)
    BY <1>1, <1>4, <2>2, StoreShape
  <2> QED
    BY <2>1, <2>3, <2>4, SentServer
<1>5. ASSUME NEW f \in net, HandOver(f) PROVE SentInv'
  <2>1. Arrive(f)
    BY <1>5 DEF HandOver
  <2>2. DOMAIN Young \subseteq DOMAIN incomingTransactions
    BY JoinedShape
  <2>3. f \in RequestBlocks /\ f.body \in Messages /\ f.tid = TidOf[f.body]
    BY <1>1, <2>1, ArriveShape, RequestBlock
  <2>4. Refused(f.tid) \subseteq ResponseBlocks /\ Response(f.body) \subseteq ResponseBlocks
    BY <2>3, Answers
  <2>5. net' \subseteq net \cup ResponseBlocks
    BY <1>1, <1>5, <2>3, <2>4, HandleShape
  <2>6. executed' \in {executed, executed \cup {f.body}}
    BY <1>1, <1>5, <2>3, HandleShape
  <2>7. /\ DOMAIN incomingTransactions' \subseteq DOMAIN incomingTransactions
        /\ \A t \in DOMAIN incomingTransactions' :
             incomingTransactions'[t] = incomingTransactions[t]
        /\ handed' = Append(handed, [frames |-> Joined(f).frames, since |-> Since(f), at |-> now])
    BY <1>1, <1>5, <2>2, HandOverShape
  <2> QED
    BY <2>1, <2>5, <2>6, <2>7, SentServer
<1>6. ASSUME NEW f \in net, PanicServer(f) PROVE SentInv'
  <2>1. Arrive(f)
    BY <1>6 DEF PanicServer
  <2>2. net' \subseteq net /\ UNCHANGED <<incomingTransactions, executed, handed>>
    BY <1>1, <1>6, PanicShape
  <2> QED
    BY <2>1, <2>2, SentServer
<1>7. ASSUME NEW f \in net, DropResponse(f) PROVE SentInv'
  BY <1>1, <1>7, DropShape DEF SentInv, Sent, clientVars, serverVars, history
<1>8. ASSUME NEW m \in Messages, SendBlock(m) PROVE SentInv'
  <2>1. UNCHANGED <<taken, incomingTransactions, handed, executed>>
    BY <1>8 DEF SendBlock, serverVars, history
  <2>2. Sent(m)' /\ \A n \in Messages \ {m} : outgoingTransactions'[n] = outgoingTransactions[n]
    BY <1>1, <1>8, SendBlockShape DEF Sent
  <2>3. \A n \in Messages : outgoingTransactions'[n].pc \in {"sending", "waiting"} => Sent(n)'
    BY <1>1, <2>2 DEF SentInv, Sent
  <2>4. \A f \in net' : f.kind = "call" => f \in net \/ Sent(f.body)'
    <3>1. PICK block \in Request(m) : net' = net \cup {block}
      BY <1>1, <1>8, SendBlockShape
    <3>2. block.body = m
      BY <3>1, RequestShape
    <3> QED
      BY <2>2, <3>1, <3>2
  <2> QED
    BY <2>1, <2>3, <2>4, SentCalls
<1>9. ASSUME NEW m \in Messages, Finish(m) PROVE SentInv'
  <2>1. UNCHANGED <<taken, incomingTransactions, handed, executed, net>>
    BY <1>9 DEF Finish, serverVars, history
  <2>2. \A n \in Messages : outgoingTransactions'[n].pc \in {"sending", "waiting"} => Sent(n)'
    BY <1>1, <1>9, FinishShape DEF SentInv, Sent
  <2> QED
    BY <2>1, <2>2, SentCalls
<1>10. CASE RestartClient
  <2>1. UNCHANGED <<taken, incomingTransactions, handed, executed, net>>
    BY <1>10 DEF RestartClient, serverVars, history
  <2>2. \A n \in Messages : outgoingTransactions'[n].pc \in {"sending", "waiting"} => Sent(n)'
    BY <1>1, <1>10, RestartShape DEF SentInv, Sent
  <2> QED
    BY <2>1, <2>2, SentCalls
<1>11. ASSUME NEW m \in Messages, NEW f \in net, ReceiveResponse(m, f) PROVE SentInv'
  <2>1. UNCHANGED <<taken, incomingTransactions, handed, executed>> /\ net' \subseteq net
    BY <1>1, <1>11, ReceiveNet DEF serverVars, history
  <2>2. \A n \in Messages : outgoingTransactions'[n].pc \in {"sending", "waiting"} => Sent(n)'
    BY <1>1, <1>11, ReceiveShape DEF SentInv, Sent
  <2> QED
    BY <2>1, <2>2, SentCalls
<1>12. CASE ServerOrNetwork
  BY <1>3, <1>4, <1>5, <1>6, <1>7, <1>12 DEF ServerOrNetwork
<1> QED
  BY <1>2, <1>8, <1>9, <1>10, <1>11, <1>12, Cases

(* The part of the inductive invariant all the theorems below rest on. *)
LEMMA BaseInit == Init => Base
BY BasicInit, SentInit DEF Base

(* It is inductive. *)
LEMMA BaseStep == Base /\ [Next]_vars => Base'
BY BasicStep, SentStep DEF Base

-----------------------------------------------------------------------------
(* What one more message handed over adds. *)
LEMMA CompletionsFinite ==
  ASSUME Types, NEW blocks
  PROVE  /\ IsFiniteSet(Completions(blocks))
         /\ Cardinality(Completions(blocks)) \in Nat
         /\ Len(handed) + 1 \notin Completions(blocks)
<1>1. DOMAIN handed = 1 .. Len(handed) /\ Len(handed) \in Nat
  BY DEF Types
<1>2. IsFiniteSet(1 .. Len(handed))
  BY <1>1, FS_Interval
<1>3. Completions(blocks) \subseteq 1 .. Len(handed)
  BY <1>1 DEF Completions
<1>4. Len(handed) + 1 \notin 1 .. Len(handed)
  BY <1>1
<1>5. IsFiniteSet(Completions(blocks))
  BY <1>2, <1>3, FS_Subset
<1> QED
  BY <1>3, <1>4, <1>5, FS_CardinalityType

(* One more message handed over is one more of its completions only. *)
LEMMA CompletionsAppended ==
  ASSUME Basic, NEW f \in net, HandOver(f)
  PROVE  /\ handed' \in Seq(Handed) /\ DOMAIN handed' = DOMAIN handed \cup {Len(handed) + 1}
         /\ \A i \in DOMAIN handed : handed'[i] = handed[i]
         /\ handed'[Len(handed) + 1] =
              [frames |-> Joined(f).frames, since |-> Since(f), at |-> now]
         /\ \A blocks :
              Completions(blocks)' = IF Joined(f).frames = blocks
                                     THEN Completions(blocks) \cup {Len(handed) + 1}
                                     ELSE Completions(blocks)
<1> DEFINE r == [frames |-> Joined(f).frames, since |-> Since(f), at |-> now]
           k == Len(handed) + 1
<1>1. handed \in Seq(Handed) /\ handed' \in Seq(Handed) /\ handed' = Append(handed, r)
  BY BasicHandOver, HandOverShape DEF Basic, Types
<1>2. r.frames = Joined(f).frames
  OBVIOUS
<1> HIDE DEF r
<1>3. /\ DOMAIN handed' = DOMAIN handed \cup {k} /\ k \notin DOMAIN handed
      /\ \A i \in DOMAIN handed : handed'[i] = handed[i]
      /\ handed'[k] = r
  BY <1>1
<1> HIDE DEF k
<1>4. \A blocks : Completions(blocks)' = IF r.frames = blocks
                                         THEN Completions(blocks) \cup {k}
                                         ELSE Completions(blocks)
  <2> SUFFICES ASSUME NEW blocks
               PROVE  Completions(blocks)' = IF r.frames = blocks
                                             THEN Completions(blocks) \cup {k}
                                             ELSE Completions(blocks)
    OBVIOUS
  <2>1. Completions(blocks)' = {i \in DOMAIN handed' : handed'[i].frames = blocks}
    BY DEF Completions
  <2> QED
    BY <1>3, <2>1 DEF Completions
<1> QED
  BY <1>1, <1>2, <1>3, <1>4 DEF r, k

(* The ten seconds: what is handed over was begun that recently. *)
LEMMA TogetherStep == Basic /\ HandedTogether /\ [Next]_vars => HandedTogether'
<1> SUFFICES ASSUME Basic, HandedTogether, [Next]_vars PROVE HandedTogether'
  OBVIOUS
<1>1. Types /\ SinceInv
  BY DEF Basic
<1>2. CASE UNCHANGED handed
  BY <1>2 DEF HandedTogether
<1>3. ASSUME NEW f \in net, HandOver(f) PROVE HandedTogether'
  <2>1. f \in RequestBlocks
    BY <1>1, <1>3, ArriveShape DEF HandOver
  <2>2. now - Since(f) <= PurgeAge
    BY <1>1, <2>1, JoinedFrames
  <2> QED
    <3> DEFINE k == Len(handed) + 1
    <3>1. handed'[k].at - handed'[k].since <= PurgeAge
      <4>1. handed'[k] = [frames |-> Joined(f).frames, since |-> Since(f), at |-> now]
        BY <1>1, <1>3, CompletionsAppended DEF Basic
      <4>2. handed'[k].since = Since(f) /\ handed'[k].at = now
        BY <4>1
      <4> QED
        BY <2>2, <4>2
    <3>2. DOMAIN handed' = DOMAIN handed \cup {k} /\ \A i \in DOMAIN handed : handed'[i] = handed[i]
      BY <1>3, CompletionsAppended
    <3> HIDE DEF k
    <3> QED
      BY <3>1, <3>2 DEF HandedTogether
<1>4. UNCHANGED handed \/ \E f \in net : HandOver(f)
  BY DEF Next, vars, history, Tick, RestartClient, SendBlock, Finish, StorePartial, PanicServer,
     DropResponse, ReceiveResponse
<1> QED
  BY <1>2, <1>3, <1>4

(* Blocks handed over as one message arrived within ten seconds of one     *)
(* another: the purge in processFrameCallRequest, for any clock and sizes. *)
THEOREM HandedTogetherAlways == Spec => []HandedTogether
<1>1. Init => Basic /\ HandedTogether
  BY BasicInit DEF Init, HandedTogether
<1>2. Basic /\ HandedTogether /\ [Next]_vars => (Basic /\ HandedTogether)'
  BY BasicStep, TogetherStep
<1> QED
  BY <1>1, <1>2, PTL DEF Spec

-----------------------------------------------------------------------------
(* What is stored after a block was taken was stored before, or is it. *)
LEMMA StoredAfter ==
  ASSUME Base, NEW f \in net, StorePartial(f) \/ HandOver(f) \/ PanicServer(f),
         NEW g \in RequestBlocks, Stored(g)'
  PROVE  /\ Stored(g) \/ (g = f /\ StorePartial(f))
         /\ HandOver(f) => g.tid # f.tid
<1>1. Types /\ SinceInv
  BY DEF Base, Basic
<1>2. g.tid \in DOMAIN incomingTransactions' /\ g \in incomingTransactions'[g.tid].frames
  BY DEF Stored
<1>3. DOMAIN Young \subseteq DOMAIN incomingTransactions
  BY JoinedShape
<1>4. CASE StorePartial(f)
  <2>1. Arrive(f) /\ ~HandOver(f)
    BY <1>4 DEF StorePartial, HandOver
  <2>2. CASE g.tid = f.tid
    <3>1. g \in Joined(f).frames
      BY <1>1, <1>2, <1>4, <2>2, StoreShape
    <3> QED
      BY <1>4, <2>1, <3>1, JoinedSent
  <2>3. CASE g.tid # f.tid
    BY <1>1, <1>2, <1>3, <1>4, <2>1, <2>3, StoreShape DEF Stored
  <2> QED
    BY <2>2, <2>3
<1>5. CASE HandOver(f)
  BY <1>1, <1>2, <1>3, <1>5, HandOverShape DEF Stored
<1>6. CASE PanicServer(f)
  <2>1. ~HandOver(f)
    BY <1>6 DEF PanicServer, HandOver
  <2> QED
    BY <1>1, <1>2, <1>6, <2>1, PanicShape DEF Stored
<1> QED
  BY <1>4, <1>5, <1>6

(* A completion takes one arrival of each of its blocks out of the table. *)
LEMMA CountStep == Base /\ CountInv /\ [Next]_vars => CountInv'
<1> SUFFICES ASSUME Base, CountInv, [Next]_vars PROVE CountInv'
  OBVIOUS
<1>1. Types /\ SinceInv /\ SentInv
  BY DEF Base, Basic
<1>2. CASE UNCHANGED <<handed, taken, incomingTransactions>>
  BY <1>2 DEF CountInv, Completions, Stored
<1>3. ASSUME NEW f \in net, StorePartial(f) \/ HandOver(f) \/ PanicServer(f) PROVE CountInv'
  <2>1. Arrive(f)
    BY <1>3 DEF StorePartial, HandOver, PanicServer
  <2>2. SUFFICES ASSUME NEW m \in Messages, NEW g \in Request(m)
                 PROVE  Cardinality(Completions(Request(m)))' + (IF Stored(g)' THEN 1 ELSE 0)
                          <= taken'[g]
    BY DEF CountInv
  <2> DEFINE C == Completions(Request(m))
  <2>3. g \in RequestBlocks
    BY DEF RequestBlocks
  <2>4. /\ taken[g] \in Nat /\ taken'[g] = IF g = f THEN taken[g] + 1 ELSE taken[g]
    BY <1>1, <2>1, <2>3, ArriveShape DEF Types
  <2>5. /\ IsFiniteSet(C) /\ Cardinality(C) \in Nat /\ Len(handed) + 1 \notin C
    BY <1>1, CompletionsFinite
  <2>6. Cardinality(C) + (IF Stored(g) THEN 1 ELSE 0) <= taken[g]
    BY DEF CountInv
  <2>7. Stored(g)' => Stored(g) \/ g = f
    BY <1>3, <2>3, StoredAfter
  <2>8. CASE C' = C
    <3>1. Cardinality(C)' = Cardinality(C)
      BY <2>8
    <3> HIDE DEF C
    <3>2. CASE g = f
      BY <2>4, <2>5, <2>6, <3>1, <3>2 DEF C
    <3>3. CASE g # f
      BY <2>4, <2>5, <2>6, <2>7, <3>1, <3>3 DEF C
    <3> QED
      BY <3>2, <3>3
  <2>9. CASE HandOver(f) /\ Joined(f).frames = Request(m)
    <3>1. C' = C \cup {Len(handed) + 1}
      BY <2>9, CompletionsAppended DEF Base
    <3>2. Cardinality(C') = Cardinality(C) + 1
      BY <2>5, <3>1, FS_AddElement
    <3>3. g \in Joined(f).frames
      BY <2>9
    <3>4. (g = f \/ Stored(g)) /\ g.tid = f.tid
      BY <2>1, <3>3, JoinedSent
    <3>5. ~Stored(g)'
      BY <2>3, <2>9, <3>4, StoredAfter
    <3> HIDE DEF C
    <3> QED
      BY <2>4, <2>5, <2>6, <3>2, <3>4, <3>5 DEF C
  <2>10. CASE HandOver(f) /\ Joined(f).frames # Request(m)
    <3>1. C' = C
      BY <2>10, CompletionsAppended DEF Base
    <3> QED
      BY <2>8, <3>1
  <2>11. CASE ~HandOver(f)
    <3>1. UNCHANGED handed
      BY <1>3, <2>11 DEF StorePartial, PanicServer
    <3>2. C' = C
      BY <3>1 DEF Completions
    <3> QED
      BY <2>8, <3>2
  <2> QED
    BY <2>9, <2>10, <2>11
<1>4. \/ UNCHANGED <<handed, taken, incomingTransactions>>
      \/ \E f \in net : StorePartial(f) \/ HandOver(f) \/ PanicServer(f)
  BY DEF Next, vars, serverVars, history, Tick, RestartClient, SendBlock, Finish, DropResponse,
     ReceiveResponse
<1> QED
  BY <1>2, <1>3, <1>4

(* At the start nothing arrived and nothing is complete. *)
LEMMA CountInit == Init => CountInv
<1> SUFFICES ASSUME Init PROVE CountInv
  OBVIOUS
<1>1. \A m \in Messages : Completions(Request(m)) = {}
  BY DEF Init, Completions
<1>2. \A f : ~Stored(f)
  BY DEF Init, Stored
<1>3. \A m \in Messages : \A f \in Request(m) : taken[f] = 0
  BY DEF Init
<1>4. Cardinality({}) = 0
  BY FS_EmptySet
<1> QED
  BY <1>1, <1>2, <1>3, <1>4 DEF CountInv

(* One block that comes again never completes a message again: that takes  *)
(* as many arrivals of every block as there are completions, whatever is   *)
(* lost, repeated or reused.                                               *)
THEOREM HandedAgainNeedsAllBlocks == Spec => []HandedAgainOnlyIf
<1>1. Init => Base /\ CountInv
  BY BaseInit, CountInit
<1>2. Base /\ CountInv /\ [Next]_vars => (Base /\ CountInv)'
  BY BaseStep, CountStep
<1>3. Base /\ CountInv => HandedAgainOnlyIf
  <2> SUFFICES ASSUME Base, CountInv, NEW m \in Messages, NEW f \in Request(m)
               PROVE  Cardinality(Completions(Request(m))) <= taken[f]
    BY DEF HandedAgainOnlyIf
  <2>1. Cardinality(Completions(Request(m))) \in Nat
    BY CompletionsFinite DEF Base, Basic
  <2>2. taken[f] \in Nat
    BY DEF Base, Basic, Types, RequestBlocks
  <2> QED
    BY <2>1, <2>2 DEF CountInv
<1> QED
  BY <1>1, <1>2, <1>3, PTL DEF Spec

-----------------------------------------------------------------------------
(* Until an id is used again, the sent blocks under it are of one message. *)
LEMMA OneBody ==
  ASSUME NEW t, ~Reused(t), NEW m \in Messages, NEW n \in Messages,
         Sent(m), Sent(n), TidOf[m] = t, TidOf[n] = t
  PROVE  m = n
BY DEF Reused, Sent

(* So what the server joins is part of that message, and it sees the       *)
(* message complete exactly when it is.                                    *)
LEMMA JoinedWhole ==
  ASSUME Base, NEW f \in net, Arrive(f), ~Reused(f.tid)
  PROVE  /\ f.body \in Messages /\ f.tid = TidOf[f.body]
         /\ f \in Joined(f).frames
         /\ Joined(f).frames \subseteq Request(f.body)
         /\ Complete(Joined(f).frames, f) <=> Joined(f).frames = Request(f.body)
         /\ InRange(Joined(f).frames, f)
<1>1. Types /\ SinceInv
  BY DEF Base, Basic
<1>2. f \in RequestBlocks
  BY <1>1, ArriveShape
<1>3. /\ f.body \in Messages /\ f \in Request(f.body)
      /\ f.tid = TidOf[f.body] /\ f.total = SizeOf[f.body]
  BY <1>2, RequestBlock
<1>4. \A g \in Joined(f).frames : g \in Request(f.body)
  <2> SUFFICES ASSUME NEW g \in Joined(f).frames PROVE g \in Request(f.body)
    OBVIOUS
  <2>1. /\ Sent(f.body) /\ Sent(g.body) /\ g.body \in Messages /\ g.tid = f.tid
        /\ g \in RequestBlocks
    BY JoinedSent
  <2>2. g.tid = TidOf[g.body] /\ g \in Request(g.body)
    BY <2>1, RequestBlock
  <2>3. g.body = f.body
    BY <1>3, <2>1, <2>2, OneBody
  <2> QED
    BY <2>2, <2>3
<1>5. PICK h \in Joined(f).frames : h.offset = f.offset
  BY <1>1, <1>2, JoinedFrames
<1>6. h = f
  BY <1>3, <1>4, <1>5, RequestShape
<1>7. Joined(f).frames \in SUBSET Blocks("call", TidOf[f.body], f.body, SizeOf[f.body])
  BY <1>4 DEF Request
<1>8. SizeOf[f.body] \in Nat \ {0}
  BY <1>3, MessagesAssumption
<1>9. ReceivedDataLen(Joined(f).frames) = SizeOf[f.body] <=> Joined(f).frames = Request(f.body)
  BY <1>7, <1>8, WholeOnly DEF Request
<1>10. \A g \in Joined(f).frames : g.offset <= f.total
  <2>1. \A g \in Request(f.body) : g.offset \in 0 .. SizeOf[f.body] - 1
    BY <1>3, RequestShape
  <2> QED
    BY <1>3, <1>4, <1>8, <2>1
<1> QED
  BY <1>3, <1>4, <1>5, <1>6, <1>9, <1>10 DEF Complete, InRange

(* The same for what a call receives. *)
LEMMA ReceivedWhole ==
  ASSUME Base, ResponseInv, NEW m \in Messages, NEW f \in net, ReceiveResponse(m, f),
         ~Reused(TidOf[m])
  PROVE  LET frames == Appended(outgoingTransactions[m].frames, f)
         IN  /\ m \in executed /\ frames \subseteq Response(m)
             /\ Complete(frames, f) <=> frames = Response(m)
             /\ InRange(frames, f)
<1> DEFINE frames == Appended(outgoingTransactions[m].frames, f)
<1>1. Types /\ SentInv
  BY DEF Base, Basic
<1>2. /\ f.kind = "response" /\ f.tid = TidOf[m]
      /\ outgoingTransactions[m].pc \in {"sending", "waiting"}
  BY DEF ReceiveResponse, Registered
<1>3. PICK n \in executed : f \in Response(n)
  BY <1>2 DEF ResponseInv
<1>4. n \in Messages /\ Sent(n) /\ Sent(m)
  BY <1>1, <1>2, <1>3 DEF SentInv, Types
<1>5. f.tid = TidOf[n]
  BY <1>3, <1>4, ResponseShape
<1>6. n = m
  BY <1>2, <1>4, <1>5, OneBody
<1>7. outgoingTransactions[m].frames \subseteq Response(m)
  BY DEF ResponseInv
<1>8. frames \subseteq Response(m)
  BY <1>3, <1>6, <1>7 DEF Appended
<1> HIDE DEF frames
<1>9. \A g \in Response(m) : g.total = ResponseSizeOf[m] /\ g.offset \in 0 .. ResponseSizeOf[m] - 1
  BY ResponseShape
<1>10. ResponseSizeOf[m] \in Nat \ {0}
  BY MessagesAssumption
<1>11. frames \in SUBSET Blocks("response", TidOf[m], m, ResponseSizeOf[m])
  BY <1>8 DEF Response
<1>12. ReceivedDataLen(frames) = ResponseSizeOf[m] <=> frames = Response(m)
  BY <1>10, <1>11, WholeOnly DEF Response
<1>13. f.total = ResponseSizeOf[m]
  BY <1>3, <1>6, <1>9
<1>14. InRange(frames, f)
  BY <1>8, <1>9, <1>10, <1>13 DEF InRange
<1>15. /\ m \in executed /\ frames \subseteq Response(m)
       /\ Complete(frames, f) <=> frames = Response(m)
       /\ InRange(frames, f)
  BY <1>3, <1>6, <1>8, <1>12, <1>13, <1>14 DEF Complete
<1> QED
  BY <1>15 DEF frames

(* Only a step of a call uses an id. *)
LEMMA ReusedKept ==
  ASSUME UNCHANGED outgoingTransactions, NEW t PROVE Reused(t)' <=> Reused(t)
BY DEF Reused

-----------------------------------------------------------------------------
(* Until it is complete, purged or its id used again, what arrived is in   *)
(* the table.                                                              *)
LEMMA ArrivedStep == Base /\ ArrivedInv /\ [Next]_vars => ArrivedInv'
<1> SUFFICES ASSUME Base, ArrivedInv, [Next]_vars PROVE ArrivedInv'
  OBVIOUS
<1>1. Types /\ SinceInv /\ SentInv
  BY DEF Base, Basic
<1>2. \A t : Reused(t) => Reused(t)'
  BY <1>1, ReusedStays
<1>3. CASE UNCHANGED <<handed, taken, incomingTransactions, purged>>
  <2>1. \A f : Stored(f)' <=> Stored(f)
    BY <1>3 DEF Stored
  <2>2. \A m \in Messages : Completions(Request(m))' = Completions(Request(m))
    BY <1>3 DEF Completions
  <2> QED
    BY <1>2, <1>3, <2>1, <2>2 DEF ArrivedInv
<1>4. ASSUME NEW f \in net, StorePartial(f) \/ HandOver(f) \/ PanicServer(f) PROVE ArrivedInv'
  <2>1. Arrive(f)
    BY <1>4 DEF StorePartial, HandOver, PanicServer
  <2>2. \A t : Reused(t)' <=> Reused(t)
    BY <1>1, <2>1, ArriveShape, ReusedKept DEF clientVars
  <2>3. /\ f \in RequestBlocks
        /\ purged' = purged \cup (DOMAIN incomingTransactions \ DOMAIN Young)
    BY <1>1, <2>1, ArriveShape
  <2>4. DOMAIN Young \subseteq DOMAIN incomingTransactions
    BY JoinedShape
  <2>5. ASSUME PanicServer(f) PROVE Reused(f.tid)
    BY <2>1, <2>5, JoinedWhole DEF PanicServer
  <2>6. ASSUME NEW m \in Messages, NEW g \in Request(m), taken'[g] > 0
        PROVE  \/ Stored(g)' \/ Completions(Request(m))' # {}
               \/ TidOf[m] \in purged' \/ Reused(TidOf[m])
    <3> SUFFICES ASSUME TidOf[m] \notin purged', ~Reused(TidOf[m])
                 PROVE  Stored(g)' \/ Completions(Request(m))' # {}
      OBVIOUS
    <3>1. g \in RequestBlocks /\ g.tid = TidOf[m] /\ g.body = m
      BY RequestShape DEF RequestBlocks
    <3>2. g = f \/ taken[g] > 0
      BY <1>1, <2>1, <2>6, <3>1, ArriveShape
    <3>3. CASE g.tid = f.tid
      <4>1. ~Reused(f.tid) /\ Sent(f.body) /\ Sent(m)
        BY <1>1, <2>3, <3>1, <3>2, <3>3, CallOf, RequestBlock DEF SentInv, Arrive
      <4>2. /\ f.body \in Messages /\ f.tid = TidOf[f.body] /\ f \in Joined(f).frames
            /\ Complete(Joined(f).frames, f) <=> Joined(f).frames = Request(f.body)
        BY <2>1, <4>1, JoinedWhole
      <4>3. f.body = m
        BY <3>1, <3>3, <4>1, <4>2, OneBody
      <4>4. CASE HandOver(f)
        <5>1. Joined(f).frames = Request(m)
          BY <4>2, <4>3, <4>4 DEF HandOver
        <5> QED
          BY <4>4, <5>1, CompletionsAppended DEF Base
      <4>5. CASE StorePartial(f)
        <5>1. incomingTransactions'[f.tid] = Joined(f) /\ f.tid \in DOMAIN incomingTransactions'
          BY <1>1, <4>5, StoreShape
        <5>2. CASE g = f
          BY <3>3, <4>2, <5>1, <5>2 DEF Stored
        <5>3. CASE g # f
          <6>1. Stored(g) \/ Completions(Request(m)) # {} \/ TidOf[m] \in purged
            BY <3>2, <5>3 DEF ArrivedInv
          <6>2. CASE Completions(Request(m)) # {}
            BY <4>5, <6>2 DEF Completions, StorePartial
          <6>3. CASE Stored(g)
            <7>1. f.tid \in DOMAIN Young
              BY <2>3, <3>1, <3>3, <6>3 DEF Stored
            <7>2. g \in Joined(f).frames
              BY <1>1, <2>3, <3>3, <6>3, <7>1, JoinedFrames DEF Stored
            <7> QED
              BY <3>3, <5>1, <7>2 DEF Stored
          <6> QED
            BY <2>3, <6>1, <6>2, <6>3
        <5> QED
          BY <5>2, <5>3
      <4>6. ~PanicServer(f)
        BY <2>5, <4>1
      <4> QED
        BY <1>4, <4>4, <4>5, <4>6
    <3>4. CASE g.tid # f.tid
      <4>1. Stored(g) \/ Completions(Request(m)) # {} \/ TidOf[m] \in purged
        BY <3>2, <3>4 DEF ArrivedInv
      <4>2. CASE Completions(Request(m)) # {}
        <5>1. CASE HandOver(f)
          BY <4>2, <5>1, CompletionsAppended DEF Base
        <5>2. CASE ~HandOver(f)
          BY <1>4, <4>2, <5>2 DEF Completions, StorePartial, PanicServer
        <5> QED
          BY <5>1, <5>2
      <4>3. CASE Stored(g)
        <5>1. g.tid \in DOMAIN Young /\ g \in incomingTransactions[g.tid].frames
          BY <2>3, <3>1, <4>3 DEF Stored
        <5>2. CASE StorePartial(f)
          BY <1>1, <3>4, <5>1, <5>2, StoreShape DEF Stored
        <5>3. CASE HandOver(f)
          BY <1>1, <3>4, <5>1, <5>3, HandOverShape DEF Stored
        <5>4. CASE PanicServer(f)
          BY <1>1, <4>3, <5>4, PanicShape DEF Stored
        <5> QED
          BY <1>4, <5>2, <5>3, <5>4
      <4> QED
        BY <2>3, <4>1, <4>2, <4>3
    <3> QED
      BY <3>3, <3>4
  <2>7. ASSUME NEW m \in Messages, ~Reused(TidOf[m]), TidOf[m] \in DOMAIN incomingTransactions',
               incomingTransactions'[TidOf[m]].frames = Request(m)
        PROVE  FALSE
    <3>1. CASE StorePartial(f) /\ TidOf[m] = f.tid
      <4>1. Joined(f).frames = Request(m)
        BY <1>1, <2>7, <3>1, StoreShape
      <4>2. /\ f \in Joined(f).frames
            /\ Complete(Joined(f).frames, f) <=> Joined(f).frames = Request(f.body)
        BY <2>1, <2>7, <3>1, JoinedWhole
      <4>3. f.body = m
        BY <4>1, <4>2, RequestShape
      <4> QED
        BY <3>1, <4>1, <4>2, <4>3 DEF StorePartial
    <3>2. CASE ~(StorePartial(f) /\ TidOf[m] = f.tid)
      <4>1. /\ TidOf[m] \in DOMAIN incomingTransactions
            /\ incomingTransactions'[TidOf[m]] = incomingTransactions[TidOf[m]]
        <5>1. CASE StorePartial(f)
          BY <1>1, <2>4, <2>7, <3>2, <5>1, StoreShape
        <5>2. CASE HandOver(f)
          BY <1>1, <2>4, <2>7, <5>2, HandOverShape
        <5>3. CASE PanicServer(f)
          BY <1>1, <2>7, <5>3, PanicShape
        <5> QED
          BY <1>4, <5>1, <5>2, <5>3
      <4> QED
        BY <2>7, <4>1 DEF ArrivedInv
    <3> QED
      BY <3>1, <3>2
  <2> QED
    BY <2>2, <2>6, <2>7 DEF ArrivedInv
<1>5. \/ UNCHANGED <<handed, taken, incomingTransactions, purged>>
      \/ \E f \in net : StorePartial(f) \/ HandOver(f) \/ PanicServer(f)
  BY DEF Next, vars, serverVars, history, Tick, RestartClient, SendBlock, Finish, DropResponse,
     ReceiveResponse
<1> QED
  BY <1>3, <1>4, <1>5

(* A request all of whose blocks arrived was handed over, or was purged on *)
(* the way, or shares its transaction id with another call: no order of    *)
(* arrival, no repetition and no purge of others makes the server miss it. *)
THEOREM ArrivedIsHandedOver == Spec => []HandedIfArrived
<1>1. Init => Base /\ ArrivedInv
  BY BaseInit DEF Init, ArrivedInv
<1>2. Base /\ ArrivedInv /\ [Next]_vars => (Base /\ ArrivedInv)'
  BY BaseStep, ArrivedStep
<1>3. Base /\ ArrivedInv => HandedIfArrived
  <2> SUFFICES ASSUME Base, ArrivedInv, NEW m \in Messages,
                      \A f \in Request(m) : taken[f] > 0,
                      Completions(Request(m)) = {}, TidOf[m] \notin purged, ~Reused(TidOf[m])
               PROVE  FALSE
    BY DEF HandedIfArrived
  <2> DEFINE t == TidOf[m]
             frames == incomingTransactions[t].frames
  <2>1. Types /\ SentInv
    BY DEF Base, Basic
  <2>2. Request(m) # {} /\ \A f \in Request(m) : f.tid = t /\ f.body = m /\ f \in RequestBlocks
    BY RequestShape DEF RequestBlocks
  <2>3. t \in DOMAIN incomingTransactions /\ \A f \in Request(m) : f \in frames
    BY <2>2 DEF ArrivedInv, Stored
  <2>4. Sent(m)
    BY <2>1, <2>2 DEF SentInv
  <2>5. \A g \in frames : g \in Request(m)
    <3> SUFFICES ASSUME NEW g \in frames PROVE g \in Request(m)
      OBVIOUS
    <3>1. g \in RequestBlocks /\ g.tid = t /\ Sent(g.body)
      BY <2>1, <2>3 DEF Types, SentInv
    <3>2. g.body \in Messages /\ g \in Request(g.body) /\ TidOf[g.body] = t
      BY <3>1, RequestBlock
    <3> QED
      BY <2>4, <3>1, <3>2, OneBody
  <2>6. frames = Request(m)
    BY <2>3, <2>5
  <2> QED
    BY <2>3, <2>6 DEF ArrivedInv
<1> QED
  BY <1>1, <1>2, <1>3, PTL DEF Spec

-----------------------------------------------------------------------------
WholeInv == ResponseInv /\ HandedWhole /\ ResultWhole

(* A step that only adds use of the ids, and takes blocks away. *)
LEMMA WholeKept ==
  ASSUME Base, WholeInv, [Next]_vars, UNCHANGED <<handed, executed>>,
         \A f \in net' : f.kind = "response" => f \in net,
         \A m \in Messages : /\ outgoingTransactions'[m].frames = outgoingTransactions[m].frames
                             /\ outgoingTransactions'[m].result = outgoingTransactions[m].result,
         panicked' \subseteq panicked
  PROVE  WholeInv'
<1>1. \A t : Reused(t) => Reused(t)'
  BY ReusedStays DEF Base, Basic
<1>2. ResponseInv'
  <2>1. \A f \in net' : f.kind = "response" =>
          Reused(f.tid)' \/ \E m \in executed' : f \in Response(m)
    BY <1>1 DEF WholeInv, ResponseInv
  <2>2. \A m \in Messages :
          \/ outgoingTransactions'[m].frames = {} \/ Reused(TidOf[m])'
          \/ outgoingTransactions'[m].frames \subseteq Response(m) /\ m \in executed'
    BY <1>1 DEF WholeInv, ResponseInv
  <2> QED
    BY <2>1, <2>2 DEF ResponseInv
<1>3. HandedWhole'
  BY <1>1 DEF WholeInv, HandedWhole
<1>4. ResultWhole'
  <2>1. \A m \in Messages :
          \/ outgoingTransactions'[m].result = {} \/ Reused(TidOf[m])'
          \/ outgoingTransactions'[m].result = Response(m) /\ m \in executed'
    BY <1>1 DEF WholeInv, ResultWhole
  <2> QED
    BY <2>1 DEF ResultWhole
<1> QED
  BY <1>2, <1>3, <1>4 DEF WholeInv

(* A response block: the call's frames stay those of its own response. *)
LEMMA WholeReceive ==
  ASSUME Base, WholeInv, NEW m \in Messages, NEW f \in net, ReceiveResponse(m, f)
  PROVE  WholeInv'
<1>1. Types
  BY DEF Base, Basic
<1>2. \A t : Reused(t) => Reused(t)'
  BY <1>1, ReusedStays DEF Next
<1>3. /\ net' \subseteq net /\ executed' = executed /\ handed' = handed
      /\ panicked' \in {panicked, panicked \cup {"client"}}
  BY <1>1, ReceiveNet DEF serverVars, history
<1>4. \A n \in Messages \ {m} : outgoingTransactions'[n] = outgoingTransactions[n]
  BY <1>1, ReceiveShape
<1>5. CASE Reused(TidOf[m])
  <2>1. ResponseInv'
    <3>1. \A g \in net' : g.kind = "response" =>
            Reused(g.tid)' \/ \E n \in executed' : g \in Response(n)
      BY <1>2, <1>3 DEF WholeInv, ResponseInv
    <3>2. \A n \in Messages :
            \/ outgoingTransactions'[n].frames = {} \/ Reused(TidOf[n])'
            \/ outgoingTransactions'[n].frames \subseteq Response(n) /\ n \in executed'
      BY <1>2, <1>3, <1>4, <1>5 DEF WholeInv, ResponseInv
    <3> QED
      BY <3>1, <3>2 DEF ResponseInv
  <2>2. HandedWhole'
    BY <1>2, <1>3, <1>5 DEF WholeInv, HandedWhole
  <2>3. \A n \in Messages :
          \/ outgoingTransactions'[n].result = {} \/ Reused(TidOf[n])'
          \/ outgoingTransactions'[n].result = Response(n) /\ n \in executed'
    BY <1>2, <1>3, <1>4, <1>5 DEF WholeInv, ResultWhole
  <2> QED
    BY <2>1, <2>2, <2>3 DEF WholeInv, ResultWhole
<1>6. CASE ~Reused(TidOf[m])
  <2> DEFINE frames == Appended(outgoingTransactions[m].frames, f)
  <2>1. /\ m \in executed /\ frames \subseteq Response(m)
        /\ Complete(frames, f) <=> frames = Response(m)
        /\ InRange(frames, f)
    BY <1>6, ReceivedWhole DEF WholeInv
  <2>2. panicked' = panicked
    BY <2>1 DEF ReceiveResponse
  <2>3. \/ outgoingTransactions' = outgoingTransactions
        \/ /\ outgoingTransactions'[m].frames = frames
           /\ \/ outgoingTransactions'[m].result = outgoingTransactions[m].result
              \/ outgoingTransactions'[m].result = frames /\ Complete(frames, f)
    <3>1. CASE outgoingTransactions' = outgoingTransactions
      BY <3>1
    <3>2. CASE outgoingTransactions' # outgoingTransactions
      <4>1. outgoingTransactions'[m].frames = frames
        BY <1>1, <3>2, ReceiveShape
      <4> HIDE DEF frames
      <4>2. \/ outgoingTransactions'[m].result = outgoingTransactions[m].result
            \/ /\ outgoingTransactions'[m].result = outgoingTransactions'[m].frames
               /\ Complete(outgoingTransactions'[m].frames, f)
        BY <1>1, <3>2, ReceiveShape
      <4> QED
        BY <4>1, <4>2
    <3> QED
      BY <3>1, <3>2
  <2> HIDE DEF frames
  <2>4. ResponseInv'
    <3>1. \A g \in net' : g.kind = "response" =>
            Reused(g.tid)' \/ \E n \in executed' : g \in Response(n)
      BY <1>2, <1>3 DEF WholeInv, ResponseInv
    <3>2. \A n \in Messages :
            \/ outgoingTransactions'[n].frames = {} \/ Reused(TidOf[n])'
            \/ outgoingTransactions'[n].frames \subseteq Response(n) /\ n \in executed'
      BY <1>2, <1>3, <1>4, <2>1, <2>3 DEF WholeInv, ResponseInv
    <3> QED
      BY <3>1, <3>2 DEF ResponseInv
  <2>5. HandedWhole'
    BY <1>2, <1>3, <2>2 DEF WholeInv, HandedWhole
  <2>6. \A n \in Messages :
          \/ outgoingTransactions'[n].result = {} \/ Reused(TidOf[n])'
          \/ outgoingTransactions'[n].result = Response(n) /\ n \in executed'
    BY <1>2, <1>3, <1>4, <2>1, <2>3 DEF WholeInv, ResultWhole
  <2> QED
    BY <2>4, <2>5, <2>6 DEF WholeInv, ResultWhole
<1> QED
  BY <1>5, <1>6

(* A message is handed over: it is whole, or its id was used again. *)
LEMMA WholeHandOver ==
  ASSUME Base, WholeInv, NEW f \in net, HandOver(f) PROVE WholeInv'
<1>1. Types /\ SinceInv /\ Arrive(f) /\ Complete(Joined(f).frames, f)
  BY DEF Base, Basic, HandOver
<1>2. UNCHANGED clientVars /\ f \in RequestBlocks
  BY <1>1, ArriveShape
<1>3. \A t : Reused(t)' <=> Reused(t)
  BY <1>2, ReusedKept DEF clientVars
<1>4. f.body \in Messages /\ f.tid = TidOf[f.body]
  BY <1>2, RequestBlock
<1>5. Reused(f.tid) \/ Joined(f).frames = Request(f.body)
  BY <1>1, JoinedWhole
<1>6. executed \subseteq executed' /\ panicked' = panicked
  BY <1>1, <1>2, HandleShape, HandOverShape
<1>7. ResponseInv'
  <2>1. ASSUME NEW g \in net', g.kind = "response"
        PROVE  Reused(g.tid) \/ \E n \in executed' : g \in Response(n)
    <3>1. CASE g \in net
      BY <1>6, <2>1, <3>1 DEF WholeInv, ResponseInv
    <3>2. CASE g \notin net /\ Joined(f).frames = Request(f.body)
      <4>1. g \in Response(f.body) /\ f.body \in executed'
        BY <1>1, <1>2, <3>2, HandleShape
      <4> QED
        BY <4>1
    <3>3. CASE g \notin net /\ Joined(f).frames # Request(f.body)
      <4>1. g \in Refused(f.tid)
        BY <1>1, <1>2, <3>3, HandleShape
      <4> QED
        BY <1>5, <3>3, <4>1, RefusedShape
    <3> QED
      BY <3>1, <3>2, <3>3
  <2>2. \A m \in Messages :
          \/ outgoingTransactions'[m].frames = {} \/ Reused(TidOf[m])
          \/ outgoingTransactions'[m].frames \subseteq Response(m) /\ m \in executed'
    BY <1>2, <1>6 DEF WholeInv, ResponseInv, clientVars
  <2> QED
    BY <1>3, <2>1, <2>2 DEF ResponseInv
<1>8. HandedWhole'
  <2>1. ASSUME NEW i \in DOMAIN handed', NEW g \in handed'[i].frames
        PROVE  Reused(g.tid) \/ handed'[i].frames = Request(g.body)
    <3>1. CASE i \in DOMAIN handed
      <4>1. handed'[i] = handed[i]
        BY <3>1, CompletionsAppended DEF Base
      <4> QED
        BY <2>1, <3>1, <4>1 DEF WholeInv, HandedWhole
    <3>2. CASE i \notin DOMAIN handed
      <4>1. handed'[i] = [frames |-> Joined(f).frames, since |-> Since(f), at |-> now]
        BY <3>2, CompletionsAppended DEF Base
      <4>2. handed'[i].frames = Joined(f).frames
        BY <4>1
      <4>3. g.tid = f.tid
        BY <1>1, <2>1, <4>2, JoinedSent
      <4>4. CASE Joined(f).frames = Request(f.body)
        <5>1. g.body = f.body
          BY <1>4, <2>1, <4>2, <4>4, RequestShape
        <5> QED
          BY <4>2, <4>4, <5>1
      <4> QED
        BY <1>5, <4>3, <4>4
    <3> QED
      BY <3>1, <3>2
  <2>2. panicked' # {} => \E m \in Messages : Reused(TidOf[m])
    BY <1>6 DEF WholeInv, HandedWhole
  <2> QED
    BY <1>3, <2>1, <2>2 DEF HandedWhole
<1>9. ResultWhole'
  <2>1. \A m \in Messages :
          \/ outgoingTransactions'[m].result = {} \/ Reused(TidOf[m])'
          \/ outgoingTransactions'[m].result = Response(m) /\ m \in executed'
    BY <1>2, <1>3, <1>6 DEF WholeInv, ResultWhole, clientVars
  <2> QED
    BY <2>1 DEF ResultWhole
<1> QED
  BY <1>7, <1>8, <1>9 DEF WholeInv

(* The server panics only over blocks of two messages under one id. *)
LEMMA WholePanic ==
  ASSUME Base, WholeInv, NEW f \in net, PanicServer(f) PROVE WholeInv'
<1>1. Types /\ SinceInv /\ Arrive(f)
  BY DEF Base, Basic, PanicServer
<1>2. UNCHANGED clientVars /\ f \in RequestBlocks
  BY <1>1, ArriveShape
<1>3. \A t : Reused(t)' <=> Reused(t)
  BY <1>2, ReusedKept DEF clientVars
<1>4. f.body \in Messages /\ f.tid = TidOf[f.body]
  BY <1>2, RequestBlock
<1>5. Reused(f.tid)
  BY <1>1, JoinedWhole DEF PanicServer
<1>6. net' \subseteq net /\ executed' = executed /\ handed' = handed
  BY <1>1, PanicShape
<1>7. HandedWhole'
  BY <1>3, <1>4, <1>5, <1>6 DEF WholeInv, HandedWhole
<1>8. ResponseInv'
  <2>1. \A g \in net' : g.kind = "response" =>
          Reused(g.tid)' \/ \E n \in executed' : g \in Response(n)
    BY <1>3, <1>6 DEF WholeInv, ResponseInv
  <2>2. \A m \in Messages :
          \/ outgoingTransactions'[m].frames = {} \/ Reused(TidOf[m])'
          \/ outgoingTransactions'[m].frames \subseteq Response(m) /\ m \in executed'
    BY <1>2, <1>3, <1>6 DEF WholeInv, ResponseInv, clientVars
  <2> QED
    BY <2>1, <2>2 DEF ResponseInv
<1>9. ResultWhole'
  <2>1. \A m \in Messages :
          \/ outgoingTransactions'[m].result = {} \/ Reused(TidOf[m])'
          \/ outgoingTransactions'[m].result = Response(m) /\ m \in executed'
    BY <1>2, <1>3, <1>6 DEF WholeInv, ResultWhole, clientVars
  <2> QED
    BY <2>1 DEF ResultWhole
<1> QED
  BY <1>7, <1>8, <1>9 DEF WholeInv

(* Requests and results stay whole over every step. *)
LEMMA WholeStep == Base /\ WholeInv /\ [Next]_vars => WholeInv'
<1> SUFFICES ASSUME Base, WholeInv, [Next]_vars PROVE WholeInv'
  OBVIOUS
<1>1. Types /\ SinceInv
  BY DEF Base, Basic
<1>2. CASE UNCHANGED vars
  BY <1>2, WholeKept DEF vars, clientVars, serverVars, history
<1>3. CASE Tick
  BY <1>3, WholeKept DEF Tick, clientVars, serverVars, history
<1>4. ASSUME NEW f \in net, StorePartial(f) PROVE WholeInv'
  BY <1>1, <1>4, WholeKept, StoreShape, ArriveShape DEF StorePartial, clientVars
<1>5. ASSUME NEW f \in net, DropResponse(f) PROVE WholeInv'
  BY <1>1, <1>5, WholeKept, DropShape DEF clientVars, serverVars, history
<1>6. ASSUME NEW m \in Messages, SendBlock(m) PROVE WholeInv'
  <2>1. \A n \in Messages : /\ outgoingTransactions'[n].frames = outgoingTransactions[n].frames
                            /\ outgoingTransactions'[n].result = outgoingTransactions[n].result
    BY <1>1, <1>6, SendBlockShape
  <2>2. \A f \in net' : f.kind = "response" => f \in net
    <3>1. PICK block \in Request(m) : net' = net \cup {block}
      BY <1>1, <1>6, SendBlockShape
    <3>2. block.kind = "call"
      BY <3>1, RequestShape
    <3> QED
      BY <3>1, <3>2
  <2>3. UNCHANGED <<handed, executed, panicked>>
    BY <1>6 DEF SendBlock, serverVars, history
  <2> QED
    BY <2>1, <2>2, <2>3, WholeKept
<1>7. ASSUME NEW m \in Messages, Finish(m) PROVE WholeInv'
  <2>1. \A n \in Messages : /\ outgoingTransactions'[n].frames = outgoingTransactions[n].frames
                            /\ outgoingTransactions'[n].result = outgoingTransactions[n].result
    BY <1>1, <1>7, FinishShape
  <2>2. UNCHANGED <<handed, executed, panicked, net>>
    BY <1>7 DEF Finish, serverVars, history
  <2> QED
    BY <2>1, <2>2, WholeKept
<1>8. CASE RestartClient
  <2>1. \A n \in Messages : /\ outgoingTransactions'[n].frames = outgoingTransactions[n].frames
                            /\ outgoingTransactions'[n].result = outgoingTransactions[n].result
    BY <1>1, <1>8, RestartShape
  <2>2. UNCHANGED <<handed, executed, net>> /\ panicked' \subseteq panicked
    BY <1>8 DEF RestartClient, serverVars, history
  <2> QED
    BY <2>1, <2>2, WholeKept
<1>9. CASE ServerOrNetwork
  BY <1>3, <1>4, <1>5, <1>9, WholeHandOver, WholePanic DEF ServerOrNetwork
<1> QED
  BY <1>2, <1>6, <1>7, <1>8, <1>9, WholeReceive, Cases

(* Nothing was handed over or received at the start. *)
LEMMA WholeInit == Init => WholeInv
BY DEF Init, Idle, WholeInv, ResponseInv, HandedWhole, ResultWhole

(* Requests and results stay whole. *)
LEMMA WholeAlways == Spec => []WholeInv
<1>1. Init => Base /\ WholeInv
  BY BaseInit, WholeInit
<1>2. Base /\ WholeInv /\ [Next]_vars => (Base /\ WholeInv)'
  BY BaseStep, WholeStep
<1> QED
  BY <1>1, <1>2, PTL DEF Spec

(* What the server hands over is one request with all of its blocks, and   *)
(* nothing panics, until the client uses a transaction id again.           *)
THEOREM HandedOverWhole == Spec => []HandedWhole
<1>1. WholeInv => HandedWhole
  BY DEF WholeInv
<1> QED
  BY <1>1, WholeAlways, PTL

(* The result of a call is the whole response to its own request, and the  *)
(* callback ran, unless its transaction id is used again.                  *)
THEOREM ResultsWhole == Spec => []ResultWhole
<1>1. WholeInv => ResultWhole
  BY DEF WholeInv
<1> QED
  BY <1>1, WholeAlways, PTL
=============================================================================
