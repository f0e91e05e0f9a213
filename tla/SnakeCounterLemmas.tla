------------------------- MODULE SnakeCounterLemmas -------------------------
(***************************************************************************)
(* What the operators of the replay filter guarantee, for every size of    *)
(* the window: the facts about one TestAndDeclare that the proofs about a  *)
(* filter (SnakeCounterProofs) and about the calls of a session            *)
(* (CallProofs) rest on.                                                   *)
(***************************************************************************)
EXTENDS SnakeCounter, TLAPS

(* TestAndDeclare maps a filter to a filter, and the head never moves back. *)
LEMMA DeclareType ==
  ASSUME NEW s \in SnakeCounters, NEW c \in Int
  PROVE  /\ Declare(s, c) \in SnakeCounters
         /\ Declare(s, c).lastProcessed >= s.lastProcessed
         /\ Declare(s, c).lastProcessed \in {s.lastProcessed, c}
PROOF
<1> USE SizeAssumption DEF SnakeCounters, Cells
<1>1. CASE ~Accepts(s, c)
  BY <1>1 DEF Declare
<1>2. CASE Accepts(s, c) /\ Ahead(s, c)
  <2>1. c \in Nat
    BY <1>2 DEF Ahead
  <2>2. c - s.lastProcessed \in Nat
    BY <1>2 DEF Ahead
  <2>3. Shifted(s.data, c - s.lastProcessed) \in [Cells -> {0, 1}]
    BY <2>2 DEF Shifted
  <2> QED
    BY <1>2, <2>1, <2>3 DEF Declare, Ahead
<1>3. CASE Accepts(s, c) /\ ~Ahead(s, c)
  <2>1. s.lastProcessed - c \in Cells
    BY <1>3 DEF Accepts, Verdict, FreeCell
  <2>2. Declare(s, c) = [s EXCEPT !.data[s.lastProcessed - c] = 1]
    BY <1>3 DEF Declare
  <2>3. [s.data EXCEPT ![s.lastProcessed - c] = 1] \in [Cells -> {0, 1}]
    BY <2>1
  <2>4. Declare(s, c) = [data |-> [s.data EXCEPT ![s.lastProcessed - c] = 1],
                         lastProcessed |-> s.lastProcessed]
    BY <2>2
  <2> QED
    BY <2>3, <2>4
<1> QED
  BY <1>1, <1>2, <1>3

(* The constructor returns a filter whose head is its initial value. *)
LEMMA NewSnakeCounterType ==
  ASSUME NEW v \in Nat
  PROVE  /\ NewSnakeCounter(v) \in SnakeCounters
         /\ NewSnakeCounter(v).lastProcessed = v
         /\ \A i \in Cells : NewSnakeCounter(v).data[i] = 1 <=> i = 0 \/ i > v
PROOF
<1> DEFINE blank == [data |-> [i \in Cells |-> 1], lastProcessed |-> -1]
<1>1. blank \in SnakeCounters
  BY SizeAssumption DEF SnakeCounters, Cells
<1>2. Ahead(blank, v) /\ ~TooLess(blank, v)
  BY SizeAssumption DEF Ahead, TooLess
<1>3. Declare(blank, v) = [data |-> Shifted(blank.data, v + 1), lastProcessed |-> v]
  BY <1>2 DEF Declare, Accepts, Verdict
<1>4. \A i \in Cells : Shifted(blank.data, v + 1)[i] = 1 <=> i = 0 \/ i > v
  BY SizeAssumption DEF Shifted, Cells
<1>5. Declare(blank, v) \in SnakeCounters
  BY <1>1, DeclareType
<1> QED
  BY <1>3, <1>4, <1>5 DEF NewSnakeCounter

(* A counter the filter has taken is refused afterwards: of two deliveries *)
(* of one call, whatever lies between the filter's locks, one is refused.  *)
THEOREM DeclareRefusesRepeats ==
  ASSUME NEW s \in SnakeCounters, NEW c \in Int
  PROVE  ~Accepts(Declare(s, c), c)
PROOF
<1> USE SizeAssumption DEF SnakeCounters, Cells
<1>1. CASE ~Accepts(s, c)
  BY <1>1 DEF Declare
<1>2. CASE Accepts(s, c) /\ Ahead(s, c)
  <2>1. Declare(s, c) = [data |-> Shifted(s.data, c - s.lastProcessed), lastProcessed |-> c]
    BY <1>2 DEF Declare
  <2>2. Shifted(s.data, c - s.lastProcessed)[0] = 1
    BY DEF Shifted
  <2> QED
    BY <2>1, <2>2 DEF Accepts, Verdict, Ahead, FreeCell, TooLess
<1>3. CASE Accepts(s, c) /\ ~Ahead(s, c)
  <2>1. FreeCell(s, c)
    BY <1>3 DEF Accepts, Verdict
  <2>2. Declare(s, c) = [s EXCEPT !.data[s.lastProcessed - c] = 1]
    BY <1>3 DEF Declare
  <2> QED
    BY <2>1, <2>2, <1>3 DEF Accepts, Verdict, Ahead, FreeCell
<1> QED
  BY <1>1, <1>2, <1>3

(* A refused counter stays refused, whatever is declared in between: a     *)
(* late duplicate cannot become acceptable because the window moved.       *)
THEOREM RefusalIsFinal ==
  ASSUME NEW s \in SnakeCounters, NEW c \in Int, NEW d \in Int, ~Accepts(s, c)
  PROVE  ~Accepts(Declare(s, d), c)
PROOF
<1> USE SizeAssumption DEF SnakeCounters, Cells
<1>1. ~Ahead(s, c) /\ ~(FreeCell(s, c) /\ ~TooLess(s, c))
  BY DEF Accepts, Verdict, Ahead, TooLess
<1>2. CASE ~Accepts(s, d)
  BY <1>2 DEF Declare
<1>3. CASE Accepts(s, d) /\ Ahead(s, d)
  <2> DEFINE shift == d - s.lastProcessed
  <2>1. Declare(s, d) = [data |-> Shifted(s.data, shift), lastProcessed |-> d]
    BY <1>3 DEF Declare
  <2>2. c <= s.lastProcessed /\ s.lastProcessed < d /\ d \in Nat
    BY <1>1, <1>3 DEF Ahead
  <2>3. ASSUME d - c \in Cells
        PROVE  Shifted(s.data, shift)[d - c] = 1
    <3>1. s.lastProcessed - c \in Cells /\ d - c >= shift /\ d - c # 0
      BY <2>2, <2>3
    <3>2. ~TooLess(s, c)
      BY <3>1 DEF TooLess
    <3>3. s.data[s.lastProcessed - c] = 1
      BY <1>1, <3>1, <3>2 DEF FreeCell
    <3>4. Shifted(s.data, shift)[d - c] = s.data[(d - c) - shift]
      BY <2>3, <3>1, <2>2 DEF Shifted
    <3>5. (d - c) - shift = s.lastProcessed - c
      BY <2>2
    <3> QED
      BY <3>3, <3>4, <3>5
  <2> QED
    BY <2>1, <2>2, <2>3 DEF Accepts, Verdict, Ahead, FreeCell
<1>4. CASE Accepts(s, d) /\ ~Ahead(s, d)
  <2>1. Declare(s, d) = [s EXCEPT !.data[s.lastProcessed - d] = 1]
    BY <1>4 DEF Declare
  <2>2. FreeCell(s, d)
    BY <1>4 DEF Accepts, Verdict
  <2> QED
    BY <1>1, <2>1, <2>2 DEF Accepts, Verdict, Ahead, FreeCell, TooLess
<1> QED
  BY <1>2, <1>3, <1>4
=============================================================================
