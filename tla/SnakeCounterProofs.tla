------------------------- MODULE SnakeCounterProofs -------------------------
(***************************************************************************)
(* Proofs about the replay filter: the invariants of SnakeCounterSpec and  *)
(* the refinement of ReplayGuard, for every size of the window.            *)
(***************************************************************************)
EXTENDS SnakeCounterSpec, SnakeCounterLemmas

-----------------------------------------------------------------------------
(* Every reachable state is well typed, whatever the window and the inputs. *)
THEOREM TypeCorrect == Spec => []TypeOK
PROOF
<1> USE SizeAssumption, InputsAssumption
<1>1. Init => TypeOK
  BY NewSnakeCounterType DEF Init, TypeOK, SnakeCounters
<1>2. TypeOK /\ [Next]_snakeVars => TypeOK'
  <2> SUFFICES ASSUME TypeOK, [Next]_snakeVars PROVE TypeOK'
    OBVIOUS
  <2>1. ASSUME NEW c \in Inputs, TestAndDeclare(c) PROVE TypeOK'
    <3>1. counter \in SnakeCounters /\ counter.lastProcessed \in Nat /\ c \in Int
      BY DEF TypeOK, SnakeCounters
    <3>2. /\ counter' \in SnakeCounters
          /\ counter'.lastProcessed >= counter.lastProcessed
      BY <2>1, <3>1, DeclareType DEF TestAndDeclare
    <3>3. counter' \in [data : [Cells -> {0, 1}], lastProcessed : Nat]
      BY <3>1, <3>2 DEF SnakeCounters
    <3>4. accepts' \in [Inputs -> Nat]
      <4>0. accepts \in [Inputs -> Nat]
        BY DEF TypeOK
      <4>1. CASE Accepts(counter, c)
        <5>1. accepts' = [accepts EXCEPT ![c] = accepts[c] + 1]
          BY <2>1, <4>1, Zenon DEF TestAndDeclare
        <5> QED
          BY <4>0, <5>1
      <4>2. CASE ~Accepts(counter, c)
        <5>1. accepts' = [accepts EXCEPT ![c] = accepts[c]]
          BY <2>1, <4>2, Zenon DEF TestAndDeclare
        <5> QED
          BY <4>0, <5>1
      <4> QED
        BY <4>1, <4>2
    <3>5. reply' \in [input : Inputs, verdict : {"nil", "too less", "already used"}]
      BY <2>1 DEF TestAndDeclare, Verdict
    <3> QED
      BY <3>3, <3>4, <3>5 DEF TypeOK
  <2>2. CASE UNCHANGED snakeVars
    BY <2>2 DEF snakeVars, TypeOK
  <2> QED
    BY <2>1, <2>2 DEF Next
<1> QED
  BY <1>1, <1>2, PTL DEF Spec

(* What one accepted counter does to the filter, in the two ways it can be *)
(* accepted; what a refused one does not.                                  *)
LEMMA StepShape ==
  ASSUME TypeOK, WindowExact, NEW c \in Inputs, TestAndDeclare(c)
  PROVE  \/ ~Accepts(counter, c) /\ counter' = counter /\ accepts' = accepts
         \/ /\ Accepts(counter, c)
            /\ c > counter.lastProcessed
            /\ accepts[c] = 0
            /\ accepts' = [accepts EXCEPT ![c] = 1]
            /\ counter' = [data |-> Shifted(counter.data, c - counter.lastProcessed),
                           lastProcessed |-> c]
         \/ /\ Accepts(counter, c)
            /\ c < counter.lastProcessed
            /\ 0 <= c
            /\ counter.lastProcessed - c \in Cells
            /\ accepts[c] = 0
            /\ accepts' = [accepts EXCEPT ![c] = 1]
            /\ counter' = [counter EXCEPT !.data[counter.lastProcessed - c] = 1]
PROOF
<1> USE SizeAssumption, InputsAssumption
<1>1. counter.lastProcessed \in Nat /\ c \in Int /\ accepts[c] \in Nat
  BY DEF TypeOK
<1>2. CASE ~Accepts(counter, c)
  BY <1>2 DEF TestAndDeclare, Declare, TypeOK
<1>3. CASE Accepts(counter, c) /\ Ahead(counter, c)
  <2>1. c > counter.lastProcessed
    BY <1>3 DEF Ahead
  <2>2. accepts[c] = 0
    BY <2>1, <1>1 DEF WindowExact
  <2>3. accepts' = [accepts EXCEPT ![c] = 1]
    <3>1. accepts' = [accepts EXCEPT ![c] = accepts[c] + 1]
      BY <1>3, Zenon DEF TestAndDeclare
    <3> QED
      BY <3>1, <2>2
  <2> QED
    BY <1>3, <2>1, <2>2, <2>3 DEF TestAndDeclare, Declare
<1>4. CASE Accepts(counter, c) /\ ~Ahead(counter, c)
  <2>1. FreeCell(counter, c)
    BY <1>4 DEF Accepts, Verdict
  <2>2. counter.lastProcessed - c \in Cells /\ counter.data[counter.lastProcessed - c] = 0
    BY <2>1 DEF FreeCell
  <2>3. accepts[c] = 0 /\ 0 <= c
    BY <2>2, <1>1 DEF WindowExact
  <2>4. c # counter.lastProcessed
    BY <2>3, <1>1 DEF WindowExact
  <2>5. accepts' = [accepts EXCEPT ![c] = 1]
    <3>1. accepts' = [accepts EXCEPT ![c] = accepts[c] + 1]
      BY <1>4, Zenon DEF TestAndDeclare
    <3> QED
      BY <3>1, <2>3
  <2>6. c < counter.lastProcessed
    BY <2>4, <1>4, <1>1 DEF Ahead
  <2> QED
    BY <1>4, <2>2, <2>3, <2>5, <2>6 DEF TestAndDeclare, Declare
<1> QED
  BY <1>2, <1>3, <1>4

LEMMA WindowStep == TypeOK /\ TypeOK' /\ WindowExact /\ [Next]_snakeVars => WindowExact'
PROOF
<1> USE SizeAssumption, InputsAssumption
<1> SUFFICES ASSUME TypeOK, TypeOK', WindowExact, [Next]_snakeVars PROVE WindowExact'
  OBVIOUS
<1>1. ASSUME NEW c \in Inputs, TestAndDeclare(c) PROVE WindowExact'
  <2> DEFINE head == counter.lastProcessed
  <2>0. /\ head \in Nat /\ c \in Int
        /\ accepts \in [Inputs -> Nat]
        /\ counter \in [data : [Cells -> {0, 1}], lastProcessed : Nat]
    BY DEF TypeOK
  <2>1. CASE counter' = counter /\ accepts' = accepts
    BY <2>1 DEF WindowExact
  <2>2. CASE /\ c > head
             /\ accepts' = [accepts EXCEPT ![c] = 1]
             /\ counter' = [data |-> Shifted(counter.data, c - head), lastProcessed |-> c]
    <3>1. counter'.lastProcessed = c /\ accepts'[c] = 1
      BY <2>2, <2>0
    <3>2. \A e \in Inputs : accepts'[e] > 0 => 0 <= e /\ e <= c
      BY <2>2, <2>0 DEF WindowExact
    <3>3. ASSUME NEW e \in Inputs, c - e \in Cells
          PROVE  counter'.data[c - e] = 1 <=> accepts'[e] > 0 \/ e < 0
      <4>0. e \in Int
        OBVIOUS
      <4>1. CASE e = c
        BY <4>1, <2>2, <3>1, <3>3 DEF Shifted, Cells
      <4>2. CASE e # c /\ e <= head
        <5>1. counter'.data[c - e] = counter.data[(c - e) - (c - head)]
          BY <4>2, <2>2, <2>0, <3>3 DEF Shifted, Cells
        <5>2. (c - e) - (c - head) = head - e /\ head - e \in Cells
          BY <4>2, <2>2, <2>0, <3>3 DEF Cells
        <5>3. accepts'[e] = accepts[e]
          BY <4>2, <2>2, <2>0
        <5> QED
          BY <5>1, <5>2, <5>3 DEF WindowExact
      <4>3. CASE e # c /\ e > head
        <5>1. counter'.data[c - e] = 0
          BY <4>3, <2>2, <2>0, <3>3 DEF Shifted, Cells
        <5>2. accepts'[e] = accepts[e] /\ ~(accepts[e] > 0)
          BY <4>3, <2>2, <2>0 DEF WindowExact
        <5>3. ~(e < 0)
          BY <4>3, <4>0, <2>0
        <5> QED
          BY <5>1, <5>2, <5>3
      <4> QED
        BY <4>0, <4>1, <4>2, <4>3, <2>0
    <3>4. counter'.lastProcessed \in Inputs /\ accepts'[counter'.lastProcessed] > 0
      BY <3>1, <2>0 DEF WindowExact
    <3> QED
      BY <3>1, <3>2, <3>3, <3>4, ZenonT(20) DEF WindowExact
  <2>3. CASE /\ c < head /\ 0 <= c
             /\ head - c \in Cells
             /\ accepts' = [accepts EXCEPT ![c] = 1]
             /\ counter' = [counter EXCEPT !.data[head - c] = 1]
    <3>1. counter'.lastProcessed = head /\ accepts'[head] = accepts[head]
      <4>1. head \in Inputs /\ c # head
        BY <2>3, <2>0 DEF WindowExact
      <4> QED
        BY <4>1, <2>3, <2>0
    <3>2. \A e \in Inputs : accepts'[e] > 0 => 0 <= e /\ e <= head
      BY <2>3, <2>0 DEF WindowExact
    <3>3. ASSUME NEW e \in Inputs, head - e \in Cells
          PROVE  counter'.data[head - e] = 1 <=> accepts'[e] > 0 \/ e < 0
      <4>0. e \in Int
        OBVIOUS
      <4>1. CASE e = c
        BY <4>1, <2>3, <2>0
      <4>2. CASE e # c
        <5>1. head - e # head - c
          BY <4>0, <4>2, <2>0
        <5>2. counter'.data[head - e] = counter.data[head - e] /\ accepts'[e] = accepts[e]
          BY <5>1, <4>2, <2>3, <2>0, <3>3
        <5> QED
          BY <5>2, <3>3 DEF WindowExact
      <4> QED
        BY <4>1, <4>2
    <3>4. counter'.lastProcessed \in Inputs /\ accepts'[counter'.lastProcessed] > 0
      BY <3>1, <2>0 DEF WindowExact
    <3> QED
      BY <3>1, <3>2, <3>3, <3>4, ZenonT(20) DEF WindowExact
  <2> QED
    BY <1>1, <2>1, <2>2, <2>3, StepShape
<1>2. CASE UNCHANGED snakeVars
  BY <1>2 DEF snakeVars, WindowExact
<1> QED
  BY <1>1, <1>2 DEF Next

LEMMA WindowInit == Init => WindowExact
PROOF
<1> SUFFICES ASSUME Init PROVE WindowExact
  OBVIOUS
<1>1. counter.lastProcessed = InitValue /\ InitValue \in Nat /\ InitValue \in Inputs
  BY NewSnakeCounterType, InputsAssumption DEF Init
<1>2. \A i \in Cells : counter.data[i] = 1 <=> i = 0 \/ i > InitValue
  BY NewSnakeCounterType, InputsAssumption DEF Init
<1> QED
  BY <1>1, <1>2, InputsAssumption, SizeAssumption DEF Init, WindowExact, Cells

(* The window is an exact record of the accepted counters. *)
THEOREM WindowIsExact == Spec => []WindowExact
PROOF
<1>1. Init => WindowExact
  BY WindowInit
<1>2. TypeOK /\ TypeOK' /\ WindowExact /\ [Next]_snakeVars => WindowExact'
  BY WindowStep
<1> QED
  BY <1>1, <1>2, TypeCorrect, PTL DEF Spec

(* No counter is accepted twice, for every window size, every set of       *)
(* counters and every order of their arrival (SnakeCounter.TestAndDeclare). *)
THEOREM NoReplay == Spec => []AtMostOnce
PROOF
<1> USE InputsAssumption
<1>1. Init => AtMostOnce
  BY DEF Init, AtMostOnce
<1>2. TypeOK /\ WindowExact /\ AtMostOnce /\ [Next]_snakeVars => AtMostOnce'
  <2> SUFFICES ASSUME TypeOK, WindowExact, AtMostOnce, [Next]_snakeVars PROVE AtMostOnce'
    OBVIOUS
  <2>1. ASSUME NEW c \in Inputs, TestAndDeclare(c) PROVE AtMostOnce'
    <3>1. accepts' = accepts \/ accepts' = [accepts EXCEPT ![c] = 1]
      BY <2>1, StepShape
    <3>2. accepts \in [Inputs -> Nat]
      BY DEF TypeOK
    <3> QED
      BY <3>1, <3>2 DEF AtMostOnce
  <2>2. CASE UNCHANGED snakeVars
    BY <2>2 DEF snakeVars, AtMostOnce
  <2> QED
    BY <2>1, <2>2 DEF Next
<1> QED
  BY <1>1, <1>2, TypeCorrect, WindowIsExact, PTL DEF Spec

(* The sliding window implements the abstract replay guard, which keeps    *)
(* the whole set of accepted counters.                                     *)
THEOREM Refinement == Spec => ImplementsReplayGuard
PROOF
<1> USE SizeAssumption, InputsAssumption
<1>1. Init => Guard!GuardInit
  <2> SUFFICES ASSUME Init PROVE Guard!GuardInit
    OBVIOUS
  <2>1. counter.lastProcessed = InitValue
    BY NewSnakeCounterType DEF Init
  <2>2. {e \in Inputs : accepts[e] > 0} = {InitValue}
    BY DEF Init
  <2>3. reply.input = InitValue /\ (reply.verdict = "nil") = TRUE
    BY DEF Init
  <2> QED
    BY <2>1, <2>2, <2>3, Zenon DEF Guard!GuardInit
<1>2. TypeOK /\ WindowExact /\ [Next]_snakeVars => [Guard!GuardNext]_(Guard!guardVars)
  <2> SUFFICES ASSUME TypeOK, WindowExact, [Next]_snakeVars
               PROVE  [Guard!GuardNext]_(Guard!guardVars)
    OBVIOUS
  <2> DEFINE head == counter.lastProcessed
             used == {e \in Inputs : accepts[e] > 0}
  <2>0. /\ head \in Nat
        /\ accepts \in [Inputs -> Nat]
        /\ counter.data \in [Cells -> {0, 1}]
    BY DEF TypeOK
  <2>1. ASSUME NEW c \in Inputs, TestAndDeclare(c) PROVE Guard!GuardNext
    <3>1. reply' = [input |-> c, verdict |-> Verdict(counter, c)]
      BY <2>1 DEF TestAndDeclare
    <3>2. CASE ~Accepts(counter, c)
      <4>1. counter' = counter /\ accepts' = accepts
        BY <3>2, <2>1, StepShape
      <4>2. ~(c >= 0 /\ c > head - Size /\ c \notin used)
        <5>1. SUFFICES ASSUME c >= 0, c > head - Size, ~(accepts[c] > 0) PROVE FALSE
          OBVIOUS
        <5>2. ~Ahead(counter, c) /\ ~TooLess(counter, c)
          BY <3>2, <5>1, <2>0 DEF Accepts, Verdict, Ahead, TooLess
        <5>3. head - c \in Cells
          <6>1. c \in Int
            OBVIOUS
          <6>2. c <= head
            BY <5>2, <6>1, <2>0 DEF Ahead
          <6> QED
            BY <5>1, <6>1, <6>2, <2>0 DEF Cells
        <5>4. counter.data[head - c] = 0
          <6>1. c \in Int /\ accepts[c] \in Nat
            BY <2>0 DEF TypeOK
          <6>2. counter.data[head - c] = 1 <=> accepts[c] > 0 \/ c < 0
            BY <5>3 DEF WindowExact
          <6>3. counter.data[head - c] \in {0, 1}
            BY <2>0, <5>3
          <6> QED
            BY <5>1, <6>1, <6>2, <6>3
        <5> QED
          BY <3>2, <5>2, <5>3, <5>4 DEF Accepts, Verdict, FreeCell
      <4>3. Guard!Refuse(c)
        BY <3>1, <3>2, <4>1, <4>2 DEF Guard!Refuse, Guard!Acceptable, Accepts
      <4> QED
        BY <4>3 DEF Guard!GuardNext
    <3>3. CASE Accepts(counter, c)
      <4>1. /\ c >= 0 /\ c > head - Size /\ accepts[c] = 0
            /\ accepts' = [accepts EXCEPT ![c] = 1]
            /\ counter'.lastProcessed = IF c > head THEN c ELSE head
        <5>1. c \in Int
          OBVIOUS
        <5>2. CASE /\ c > head
                   /\ counter' = [data |-> Shifted(counter.data, c - head), lastProcessed |-> c]
                   /\ accepts[c] = 0 /\ accepts' = [accepts EXCEPT ![c] = 1]
          BY <5>1, <5>2, <2>0
        <5>3. CASE /\ c < head /\ 0 <= c /\ head - c \in Cells
                   /\ counter' = [counter EXCEPT !.data[head - c] = 1]
                   /\ accepts[c] = 0 /\ accepts' = [accepts EXCEPT ![c] = 1]
          <6>1. counter'.lastProcessed = head
            BY <5>3 DEF TypeOK
          <6> QED
            BY <5>1, <5>3, <6>1, <2>0 DEF Cells
        <5> QED
          BY <3>3, <2>1, <5>2, <5>3, StepShape
      <4>2. {e \in Inputs : accepts'[e] > 0} = used \cup {c}
        BY <4>1, <2>0
      <4>3. Guard!Acceptable(c)
        BY <4>1 DEF Guard!Acceptable
      <4>4. reply'.input = c /\ (reply'.verdict = "nil") = TRUE
        BY <3>1, <3>3 DEF Accepts
      <4>5. Guard!Accept(c)
        BY <4>1, <4>2, <4>3, <4>4, Zenon DEF Guard!Accept
      <4> QED
        BY <4>5 DEF Guard!GuardNext
    <3> QED
      BY <3>2, <3>3
  <2>2. CASE UNCHANGED snakeVars
    BY <2>2 DEF snakeVars, Guard!guardVars
  <2> QED
    BY <2>1, <2>2 DEF Next
<1> QED
  BY <1>1, <1>2, TypeCorrect, WindowIsExact, PTL
     DEF Spec, ImplementsReplayGuard, Guard!GuardSpec
=============================================================================
