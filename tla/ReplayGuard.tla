----------------------------- MODULE ReplayGuard -----------------------------
(***************************************************************************)
(* What a replay filter promises: it remembers the set of counters it has  *)
(* accepted and the highest of them.  A counter is accepted if and only if *)
(* it was never accepted before and lies above high - Size; everything     *)
(* else is refused and changes nothing.  SnakeCounterSpec implements it.   *)
(***************************************************************************)
EXTENDS Integers

CONSTANTS
  Size,        \* how far below the highest counter a late one is still taken
  Inputs,      \* the counters callers may present
  InitValue    \* the counter that is used up at creation

VARIABLES
  high,        \* the highest accepted counter
  used,        \* every accepted counter
  answer       \* the last counter presented and whether it was accepted

guardVars == <<high, used, answer>>

Acceptable(c) == c >= 0 /\ c > high - Size /\ c \notin used

GuardInit ==
  /\ high = InitValue
  /\ used = {InitValue}
  /\ answer = [input |-> InitValue, accepted |-> TRUE]

Accept(c) ==
  /\ Acceptable(c)
  /\ used' = used \cup {c}
  /\ high' = IF c > high THEN c ELSE high
  /\ answer' = [input |-> c, accepted |-> TRUE]

Refuse(c) ==
  /\ ~Acceptable(c)
  /\ answer' = [input |-> c, accepted |-> FALSE]
  /\ UNCHANGED <<high, used>>

GuardNext == \E c \in Inputs : Accept(c) \/ Refuse(c)

GuardSpec == GuardInit /\ [][GuardNext]_guardVars
=============================================================================
