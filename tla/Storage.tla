------------------------------- MODULE Storage -------------------------------
(***************************************************************************)
(* The mailbox a router keeps for one address (router/address_storage.go): *)
(* the messages in the order they were appended, each with the id it was   *)
(* given and the time it came.  Pure operators on the sequence; each       *)
(* method holds the mutex of the storage throughout.                       *)
(***************************************************************************)
EXTENDS Integers, SequencesExt

CONSTANTS
  MaxMessages,    \* maxMessages: what a storage holds; 100000000 in the code
  MaxSize,        \* what a reader takes at once; 10 MB in getFramesFromRouter
  MessageAge      \* the age at which Clear drops a message; 5 s in the code

ASSUME StorageAssumption ==
  MaxMessages \in Nat \ {0} /\ MaxSize \in Nat /\ MessageAge \in Nat \ {0}

(* Put: at the limit the oldest message makes room. *)
AppendedUnbounded(messages, m) == Append(messages, m)

Appended(messages, m) ==
  LET longer == Append(messages, m)
  IN  IF Len(longer) > MaxMessages THEN Tail(longer) ELSE longer

(* The messages younger than age, in order. *)
Younger(messages, now, age) ==
  LET kept[n \in 0 .. Len(messages)] ==
        IF n = 0 THEN <<>>
        ELSE IF now - messages[n].touched < age THEN Append(kept[n - 1], messages[n])
        ELSE kept[n - 1]
  IN  kept[Len(messages)]

(* Clear drops the messages that are MessageAge old. *)
KeptOneShort(messages, now) == Younger(messages, now, MessageAge - 1)

Kept(messages, now) == Younger(messages, now, MessageAge)

(* The loop of GetMessage: of the messages behind id after, what fits, in  *)
(* order.  One that does not fit is left out while smaller ones behind it  *)
(* are still taken.  lastId is the id the reader shall continue after.     *)
Taken(messages, after, lastId) ==
  LET taken[n \in 0 .. Len(messages)] ==
        IF n = 0 THEN [sent |-> {}, bytes |-> 0, lastId |-> lastId]
        ELSE IF messages[n].id > after /\ taken[n - 1].bytes + messages[n].size < MaxSize
        THEN [sent   |-> taken[n - 1].sent \cup {messages[n]},
              bytes  |-> taken[n - 1].bytes + messages[n].size,
              lastId |-> messages[n].id]
        ELSE taken[n - 1]
  IN  taken[Len(messages)]

(* GetMessage(afterId, MaxSize).  An afterId beyond the last message (the  *)
(* router was restarted, or ids were appended out of order) makes it send  *)
(* everything.                                                             *)
GetMessageLastId(messages, afterId) ==
  [sent   |-> Taken(messages, afterId, afterId).sent,
   lastId |-> IF messages = <<>> THEN afterId ELSE Last(messages).id]

GetMessage(messages, afterId) ==
  LET sendAll == messages # <<>> /\ afterId > Last(messages).id
      taken   == Taken(messages, IF sendAll THEN -1 ELSE afterId, afterId)
  IN  [sent   |-> taken.sent,
       lastId |-> IF taken.sent = {} /\ sendAll /\ Head(messages).id > Last(messages).id
                  THEN Head(messages).id ELSE taken.lastId]
=============================================================================
