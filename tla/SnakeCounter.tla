---------------------------- MODULE SnakeCounter ----------------------------
(***************************************************************************)
(* The replay filter a session keeps for the counters of its calls         *)
(* (xchg/utils_snake_counter.go).  A counter is accepted when it is ahead  *)
(* of everything seen, or when its cell of the sliding window is free.     *)
(*                                                                         *)
(* Pure operators on a value [data, lastProcessed]: cell i of data stands  *)
(* for the counter lastProcessed - i.  TestAndDeclare holds the counter's  *)
(* mutex from its first to its last line, so one application of Declare is *)
(* one atomic step of whoever calls it.                                    *)
(***************************************************************************)
EXTENDS Integers

CONSTANT Size           \* the number of cells; NewSnakeCounter(100, 0) in the code

ASSUME SizeAssumption == Size \in Nat \ {0}

Cells == 0 .. Size - 1

(* lastProcessed starts at -1 and only grows. *)
SnakeCounters == [data : [Cells -> {0, 1}], lastProcessed : Nat \cup {-1}]

-----------------------------------------------------------------------------
(* The three ways TestAndDeclare looks at a counter c. *)
TooLess(s, c) == c < s.lastProcessed - Size

Ahead(s, c) == c > s.lastProcessed

FreeCellIgnoringData(s, c) == s.lastProcessed - c \in Cells

FreeCell(s, c) ==
  /\ s.lastProcessed - c \in Cells
  /\ s.data[s.lastProcessed - c] = 0

(* The error TestAndDeclare returns, "nil" when it accepts the counter. *)
Verdict(s, c) ==
  IF TooLess(s, c) THEN "too less"
  ELSE IF Ahead(s, c) \/ FreeCell(s, c) THEN "nil"
  ELSE "already used"

Accepts(s, c) == Verdict(s, c) = "nil"

(* The window moved up by shiftRange >= 1 cells: the new head is taken and *)
(* the cells of the counters that were jumped over are free.               *)
ShiftedOneShort(data, shiftRange) ==
  [i \in Cells |-> CASE i = 0 -> 1
                     [] i >= shiftRange /\ i # 0 -> data[i - shiftRange]
                     [] OTHER -> 1]

Shifted(data, shiftRange) ==
  [i \in Cells |-> CASE i = 0 -> 1
                     [] i >= shiftRange /\ i # 0 -> data[i - shiftRange]
                     [] OTHER -> 0]

(* The filter after TestAndDeclare(c). *)
DeclareUnmarked(s, c) ==
  IF ~Accepts(s, c) THEN s
  ELSE IF Ahead(s, c)
       THEN [data |-> Shifted(s.data, c - s.lastProcessed), lastProcessed |-> c]
       ELSE s

Declare(s, c) ==
  IF ~Accepts(s, c) THEN s
  ELSE IF Ahead(s, c)
       THEN [data |-> Shifted(s.data, c - s.lastProcessed), lastProcessed |-> c]
       ELSE [s EXCEPT !.data[s.lastProcessed - c] = 1]

(* The constructor takes every cell, then declares the initial value. *)
NewSnakeCounterUndeclared(initValue) ==
  [data |-> [i \in Cells |-> 1], lastProcessed |-> -1]

NewSnakeCounter(initValue) ==
  Declare([data |-> [i \in Cells |-> 1], lastProcessed |-> -1], initValue)
=============================================================================
