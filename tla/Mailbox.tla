------------------------------ MODULE Mailbox ------------------------------
(***************************************************************************)
(* What the way of frames to one peer promises, without storages, cursors  *)
(* and polls: the router numbers the frames it is sent, anew each time it  *)
(* is started, and the peer is handed some of them, in the order of their  *)
(* numbers and each once.  Two disturbances end this: a frame overtakes    *)
(* one with a smaller number while they are stored, or two polls of the    *)
(* peer overlap.  Even then nothing is handed over that was not stored.    *)
(* Nothing is said of a frame that is never handed over.  Delivery         *)
(* implements it.                                                          *)
(***************************************************************************)
EXTENDS Integers

CONSTANT Posts      \* the frames

VARIABLES
  era, number,      \* the router's starts before this one, and its next number
  waiting,          \* the tickets of the frames on their way into the storage
  stored,           \* those of the frames that were stored
  given,            \* how often each frame was handed over, up to twice
  disturbed         \* whether one of the disturbances has happened

mailVars == <<era, number, waiting, stored, given, disturbed>>

Later(t, u) == t.era > u.era \/ (t.era = u.era /\ t.id > u.id)

MailInit ==
  /\ era = 0
  /\ number = 1
  /\ waiting = {}
  /\ stored = {}
  /\ given = [f \in Posts |-> 0]
  /\ disturbed = FALSE

Enter(f) ==
  /\ \A t \in waiting \cup stored : t.post # f
  /\ waiting' = waiting \cup {[post |-> f, era |-> era, id |-> number]}
  /\ number' = number + 1
  /\ UNCHANGED <<era, stored, given, disturbed>>

Store(t) ==
  /\ waiting' = waiting \ {t}
  /\ stored' = stored \cup {t}
  /\ \/ UNCHANGED disturbed
     \/ (\E u \in stored : Later(u, t)) /\ disturbed' = TRUE
  /\ UNCHANGED <<era, number, given>>

HandOver(batch) ==
  /\ disturbed \/ \A t \in batch, u \in stored : given[u.post] > 0 => Later(t, u)
  /\ given' = [f \in Posts |-> IF \E t \in batch : t.post = f
                               THEN IF given[f] = 0 THEN 1 ELSE 2
                               ELSE given[f]]
  /\ UNCHANGED <<era, number, waiting, stored, disturbed>>

Overlap ==
  /\ disturbed' = TRUE
  /\ UNCHANGED <<era, number, waiting, stored, given>>

StartAgain ==
  /\ era' = era + 1
  /\ number' = 1
  /\ waiting' = {}
  /\ UNCHANGED <<stored, given, disturbed>>

MailNext ==
  \/ \E f \in Posts : Enter(f)
  \/ \E t \in waiting : Store(t)
  \/ \E batch \in SUBSET stored : HandOver(batch)
  \/ Overlap
  \/ StartAgain

MailSpec == MailInit /\ [][MailNext]_mailVars
=============================================================================
