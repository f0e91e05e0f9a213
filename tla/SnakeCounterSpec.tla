-------------------------- MODULE SnakeCounterSpec --------------------------
(***************************************************************************)
(* One SnakeCounter driven by any sequence of TestAndDeclare calls, in any *)
(* order and with any repetition: the frames of a session reach the server *)
(* duplicated, late and out of order.                                      *)
(***************************************************************************)
EXTENDS SnakeCounter

CONSTANTS
  Inputs,      \* the counters presented (a callNonce converted to int)
  InitValue    \* the second argument of NewSnakeCounter

ASSUME InputsAssumption == Inputs \subseteq Int /\ InitValue \in Nat \cap Inputs

VARIABLES
  counter,     \* the SnakeCounter
  accepts,     \* history: how often each counter was accepted
  reply        \* history: the last counter presented and its verdict

snakeVars == <<counter, accepts, reply>>

Init ==
  /\ counter = NewSnakeCounter(InitValue)
  /\ accepts = [c \in Inputs |-> IF c = InitValue THEN 1 ELSE 0]
  /\ reply = [input |-> InitValue, verdict |-> "nil"]

TestAndDeclare(c) ==
  /\ counter' = Declare(counter, c)
  /\ accepts' = [accepts EXCEPT ![c] = IF Accepts(counter, c) THEN @ + 1 ELSE @]
  /\ reply' = [input |-> c, verdict |-> Verdict(counter, c)]

Next == \E c \in Inputs : TestAndDeclare(c)

Spec == Init /\ [][Next]_snakeVars

-----------------------------------------------------------------------------
(* The head of the window is a counter that was accepted, so never         *)
(* negative; the reply is one of the code's three.                         *)
TypeOK ==
  /\ counter \in [data : [Cells -> {0, 1}], lastProcessed : Nat]
  /\ accepts \in [Inputs -> Nat]
  /\ reply \in [input : Inputs, verdict : {"nil", "too less", "already used"}]

(* No counter is accepted twice, however late its duplicate arrives and    *)
(* however far the window moved in between (TestAndDeclare).               *)
AtMostOnce == \A c \in Inputs : accepts[c] <= 1

(* The window is an exact record of what was accepted: the head is the     *)
(* highest accepted counter, and a cell is taken if and only if its        *)
(* counter was accepted or is negative (the cells the constructor took).   *)
WindowExact ==
  LET head == counter.lastProcessed
  IN  /\ head \in Inputs
      /\ accepts[head] > 0
      /\ \A c \in Inputs : accepts[c] > 0 => 0 <= c /\ c <= head
      /\ \A c \in Inputs : head - c \in Cells =>
           (counter.data[head - c] = 1 <=> accepts[c] > 0 \/ c < 0)

(* The filter implements ReplayGuard: besides never repeating an           *)
(* acceptance, it refuses no counter of the window that is still unused.   *)
Guard == INSTANCE ReplayGuard WITH
           high   <- counter.lastProcessed,
           used   <- {c \in Inputs : accepts[c] > 0},
           answer <- [input |-> reply.input, accepted |-> reply.verdict = "nil"]

ImplementsReplayGuard == Guard!GuardSpec
=============================================================================
