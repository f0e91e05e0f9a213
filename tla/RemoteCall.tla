----------------------------- MODULE RemoteCall -----------------------------
(***************************************************************************)
(* What a remote call promises its caller and the application on the other *)
(* side, without frames, sessions or keys: a call returns once; its        *)
(* callback runs at most once, after the call began, perhaps after it gave *)
(* up; a value that is returned is that of the callback's run for this     *)
(* very call.  An error says nothing: the callback may have run, or may    *)
(* still run.  A success may also be empty, with or without a run (the     *)
(* answer to a call that reaches the server without a session).            *)
(* CallProtocol implements it.                                             *)
(***************************************************************************)
EXTENDS Integers

CONSTANTS
  Calls,      \* the calls that may be made
  Nobody      \* the result of a call that returns no callback's value

VARIABLES
  place,      \* where each call is: before, during or after
  answer,     \* what it returned: an outcome and whose value
  runs        \* how often its callback ran

callVars == <<place, answer, runs>>

NoAnswer == [outcome |-> "none", result |-> Nobody]

CallInit ==
  /\ place = [c \in Calls |-> "before"]
  /\ answer = [c \in Calls |-> NoAnswer]
  /\ runs = [c \in Calls |-> 0]

Begin(c) ==
  /\ place[c] = "before"
  /\ place' = [place EXCEPT ![c] = "during"]
  /\ UNCHANGED <<answer, runs>>

Run(c) ==
  /\ place[c] # "before"
  /\ runs[c] = 0
  /\ runs' = [runs EXCEPT ![c] = 1]
  /\ UNCHANGED <<place, answer>>

End(c, outcome, result) ==
  /\ place[c] = "during"
  /\ place' = [place EXCEPT ![c] = "after"]
  /\ answer' = [answer EXCEPT ![c] = [outcome |-> outcome, result |-> result]]
  /\ UNCHANGED runs

EndWithValue(c) == runs[c] = 1 /\ End(c, "ok", c)

EndEmpty(c) == End(c, "ok", Nobody)

EndWithError(c) == End(c, "error", Nobody)

CallNext ==
  \E c \in Calls :
    Begin(c) \/ Run(c) \/ EndWithValue(c) \/ EndEmpty(c) \/ EndWithError(c)

CallSpec == CallInit /\ [][CallNext]_callVars
=============================================================================
