------------------------------ MODULE Delivery ------------------------------
(***************************************************************************)
(* A peer that polls the router for its frames (xchg/peer_receiving.go).   *)
(* thWork starts getFramesFromRouters every 10 ms on a new goroutine; each *)
(* asks for what comes after the cursor lastReceivedMessageId, waits in    *)
(* the router's long poll (processR), stores the cursor it is answered     *)
(* with and hands the frames over.  A flag is meant to let one of them run *)
(* at a time, but it is tested in one critical section and set in another. *)
(***************************************************************************)
EXTENDS Router

CONSTANT Polls          \* the goroutines of getFramesFromRouters

VARIABLES
  gettingFromInternet,      \* the flag
  lastReceivedMessageId,    \* the cursor
  poll,                     \* the state of each goroutine, and of its request
  handed,                   \* history: how often each frame was handed over, up to twice
  overlapped                \* history: two polls have been under way at once

peerVars == <<gettingFromInternet, lastReceivedMessageId, poll, handed, overlapped>>
vars == <<routerVars, peerVars>>

IdlePoll == [pc |-> "idle", after |-> 0, storage |-> NoStorage, last |-> 0, batch |-> {}]

PollState == [pc : {"idle", "checked", "request", "read", "answer", "clear"},
              after : Nat, storage : Storages \cup {NoStorage},
              last : Nat, batch : SUBSET Posts]

PeerTypeOK ==
  /\ gettingFromInternet \in BOOLEAN
  /\ lastReceivedMessageId \in Nat
  /\ poll \in [Polls -> PollState]
  /\ handed \in [Posts -> 0 .. 2]
  /\ overlapped \in BOOLEAN

PeerInit ==
  /\ gettingFromInternet = FALSE
  /\ lastReceivedMessageId = 0
  /\ poll = [p \in Polls |-> IdlePoll]
  /\ handed = [f \in Posts |-> 0]
  /\ overlapped = FALSE

Active(p) == poll[p].pc \in {"request", "read", "answer", "clear"}

-----------------------------------------------------------------------------
(* getFramesFromRouter: the test of the flag; a goroutine that finds it    *)
(* set returns.                                                            *)
CheckFlag(p) ==
  /\ poll[p].pc = "idle"
  /\ ~gettingFromInternet
  /\ poll' = [poll EXCEPT ![p].pc = "checked"]
  /\ UNCHANGED <<routerVars, gettingFromInternet, lastReceivedMessageId, handed, overlapped>>

(* The flag is set and the request made out from the cursor. *)
BeginPoll(p) ==
  /\ poll[p].pc = "checked"
  /\ gettingFromInternet' = TRUE
  /\ poll' = [poll EXCEPT ![p] = [@ EXCEPT !.pc = "request", !.after = lastReceivedMessageId]]
  /\ overlapped' = (overlapped \/ \E q \in Polls : Active(q))
  /\ UNCHANGED <<routerVars, lastReceivedMessageId, handed>>

(* processR: GetMessages is called over and over until it has something or *)
(* ten seconds are gone.  The calls before the last one change nothing, so *)
(* this is the last: first the storage is looked up ...                    *)
LookUpAhead(p) ==
  /\ poll[p].pc = "request"
  /\ poll' = [poll EXCEPT ![p] =
                IF addresses = NoStorage THEN [@ EXCEPT !.pc = "answer", !.last = nextId]
                                         ELSE [@ EXCEPT !.pc = "read", !.storage = addresses]]
  /\ UNCHANGED <<routerVars, gettingFromInternet, lastReceivedMessageId, handed, overlapped>>

LookUp(p) ==
  /\ poll[p].pc = "request"
  /\ poll' = [poll EXCEPT ![p] =
                IF addresses = NoStorage THEN [@ EXCEPT !.pc = "answer", !.last = 0]
                                         ELSE [@ EXCEPT !.pc = "read", !.storage = addresses]]
  /\ UNCHANGED <<routerVars, gettingFromInternet, lastReceivedMessageId, handed, overlapped>>

(* ... and then it is read. *)
Read(p) ==
  LET answer == GetMessage(heap[poll[p].storage].messages, poll[p].after)
  IN  /\ poll[p].pc = "read"
      /\ poll' = [poll EXCEPT ![p] =
                    [@ EXCEPT !.pc = "answer", !.storage = NoStorage, !.last = answer.lastId,
                              !.batch = {m.post : m \in answer.sent}]]
      /\ UNCHANGED <<routerVars, gettingFromInternet, lastReceivedMessageId, handed, overlapped>>

(* The request fails, or its answer is lost. *)
LosePoll(p) ==
  /\ poll[p].pc \in {"request", "read", "answer"}
  /\ poll' = [poll EXCEPT ![p] = [IdlePoll EXCEPT !.pc = "clear"]]
  /\ UNCHANGED <<routerVars, gettingFromInternet, lastReceivedMessageId, handed, overlapped>>

(* The cursor is stored and the frames are handed to the handlers. *)
TakeAnswerOldCursor(p) ==
  /\ poll[p].pc = "answer"
  /\ handed' = [f \in Posts |-> IF f \in poll[p].batch /\ handed[f] < 2
                                THEN handed[f] + 1 ELSE handed[f]]
  /\ poll' = [poll EXCEPT ![p] = [IdlePoll EXCEPT !.pc = "clear"]]
  /\ UNCHANGED <<routerVars, gettingFromInternet, lastReceivedMessageId, overlapped>>

TakeAnswer(p) ==
  /\ poll[p].pc = "answer"
  /\ lastReceivedMessageId' = poll[p].last
  /\ handed' = [f \in Posts |-> IF f \in poll[p].batch /\ handed[f] < 2
                                THEN handed[f] + 1 ELSE handed[f]]
  /\ poll' = [poll EXCEPT ![p] = [IdlePoll EXCEPT !.pc = "clear"]]
  /\ UNCHANGED <<routerVars, gettingFromInternet, overlapped>>

(* The deferred function. *)
EndPollHeld(p) ==
  /\ poll[p].pc = "clear"
  /\ poll' = [poll EXCEPT ![p] = IdlePoll]
  /\ UNCHANGED <<routerVars, gettingFromInternet, lastReceivedMessageId, handed, overlapped>>

EndPoll(p) ==
  /\ poll[p].pc = "clear"
  /\ gettingFromInternet' = FALSE
  /\ poll' = [poll EXCEPT ![p] = IdlePoll]
  /\ UNCHANGED <<routerVars, lastReceivedMessageId, handed, overlapped>>

PollStep(p) ==
  \/ CheckFlag(p)
  \/ BeginPoll(p)
  \/ LookUp(p)
  \/ Read(p)
  \/ LosePoll(p)
  \/ TakeAnswer(p)
  \/ EndPoll(p)

(* A restart of the router fails the requests it was serving. *)
Restart ==
  /\ RestartRouter
  /\ poll' = [p \in Polls |-> IF poll[p].pc \in {"request", "read"}
                              THEN [IdlePoll EXCEPT !.pc = "clear"] ELSE poll[p]]
  /\ UNCHANGED <<gettingFromInternet, lastReceivedMessageId, handed, overlapped>>

Init == RouterInit /\ PeerInit

Next ==
  \/ \E p \in Polls : PollStep(p)
  \/ RouterNext /\ UNCHANGED peerVars
  \/ Restart

Spec == Init /\ [][Next]_vars

(* A poll that can go on does: an HTTP client with a timeout and the ten   *)
(* seconds of the long poll see to it.                                     *)
FairSpec == Spec /\ \A p \in Polls : WF_vars(PollStep(p))

-----------------------------------------------------------------------------
(* Router and peer keep their types. *)
TypeOK == RouterTypeOK /\ PeerTypeOK

(* Two Puts crossed: one took the smaller id and appended second. *)
Crossed(a) ==
  \E i, j \in DOMAIN appended :
    /\ i < j /\ appended[j] = a
    /\ appended[i].storage = a.storage
    /\ appended[i].message.id > a.message.id

(* A message that was appended is kept for MessageAge, whatever is cleared *)
(* or forgotten meanwhile, unless the storage overflowed or had been       *)
(* forgotten while its Put was under way (Storage.Put, Storage.Clear and   *)
(* thClearAddresses).                                                      *)
YoungKept ==
  \A a \in ToSet(appended) :
    a.router = restarts /\ a.reachable /\ now - a.message.touched < MessageAge =>
      /\ addresses = a.storage
      /\ \/ a.message \in ToSet(heap[addresses].messages)
         \/ Len(heap[addresses].messages) = MaxMessages

(* The cursor passes a message that was never handed over only if Puts     *)
(* crossed, or if the message was too big for an answer that took a        *)
(* smaller one behind it, or for any.  (Before any restart of the router.) *)
PassedOverOnlyIf ==
  restarts = 0 =>
    \A a \in ToSet(appended) :
      /\ a.reachable /\ addresses = a.storage
      /\ a.message \in ToSet(heap[addresses].messages)
      /\ a.message.id <= lastReceivedMessageId
      /\ handed[a.message.post] = 0
      => \/ Crossed(a)
         \/ a.message.size >= MaxSize
         \/ \E b \in ToSet(appended) :
              b.message.id > a.message.id /\ b.message.size < a.message.size

(* A frame is handed over twice only if two polls overlapped or two Puts   *)
(* crossed: neither a lost answer nor a restart of the router repeats it.  *)
RepeatedOnlyIf ==
  (\E f \in Posts : handed[f] > 1) => overlapped \/ \E a \in ToSet(appended) : Crossed(a)

(* The router and the polls implement what Mailbox promises: what is       *)
(* handed over was put, each frame once and in the order in which the      *)
(* router took them up, unless polls overlapped or Puts crossed.           *)
TicketOf(a) == [post |-> a.message.post, era |-> a.router, id |-> a.message.id]

WaitingTickets ==
  {[post |-> f, era |-> restarts, id |-> put[f].id] : f \in {g \in Posts : put[g].pc = "append"}}

StoredTickets == {TicketOf(a) : a \in ToSet(appended)}

Disturbed == overlapped \/ \E a \in ToSet(appended) : Crossed(a)

Promise == INSTANCE Mailbox WITH
             era       <- restarts,
             number    <- nextId,
             waiting   <- WaitingTickets,
             stored    <- StoredTickets,
             given     <- handed,
             disturbed <- Disturbed

ImplementsMailbox == Promise!MailSpec

(* Polling never stops for good: whatever becomes of a poll, the flag is   *)
(* cleared again.                                                          *)
FlagReleased == gettingFromInternet ~> ~gettingFromInternet
=============================================================================
