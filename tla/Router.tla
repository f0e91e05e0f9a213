------------------------------- MODULE Router -------------------------------
(***************************************************************************)
(* The router (router/router.go) as one address sees it.  Each /api/w      *)
(* request runs Put on a goroutine of its own: under the router's mutex it *)
(* finds the storage and takes the next id, and only then, under the       *)
(* mutex of the storage, it appends.  The background goroutine forgets     *)
(* storages that were idle for long and clears the others, again in two    *)
(* critical sections.  A goroutine holds its storage by a pointer, so the  *)
(* storages are objects of a heap that outlive their place in addresses.   *)
(*                                                                         *)
(* Time is discrete, in units of five seconds.  Other addresses only take  *)
(* ids of their own from nextId, which leaves the order of ids as it is.   *)
(***************************************************************************)
EXTENDS Storage

CONSTANTS
  Posts,          \* the frames posted to the address
  SizeOf,         \* their sizes
  StorageIdle,    \* a storage idle for longer is forgotten; 10 s in the code
  MaxTime,        \* bound on the clock
  MaxRestarts     \* bound on the restarts of the router

ASSUME RouterAssumption ==
  /\ SizeOf \in [Posts -> Nat \ {0}]
  /\ StorageIdle \in Nat /\ StorageIdle >= MessageAge
  /\ MaxTime \in Nat /\ MaxRestarts \in Nat

VARIABLES
  now,
  nextId,
  heap,           \* every storage made so far: [messages, touched]
  addresses,      \* the storage of the address, NoStorage if it has none
  put,            \* the state of each post's Put
  clearing,       \* the storage thClearAddresses is about to clear
  restarts,       \* how often the router was started again
  appended        \* history: what Put appended, in order, and to which storage

routerVars == <<now, nextId, heap, addresses, put, clearing, restarts, appended>>

NoStorage == 0
Storages == 1 .. Len(heap)

Message == [post : Posts, id : Nat, size : Nat, touched : Nat]

RouterTypeOK ==
  /\ now \in 0 .. MaxTime
  /\ nextId \in Nat \ {0}
  /\ heap \in Seq([messages : Seq(Message), touched : 0 .. MaxTime])
  /\ \A s \in Storages : Len(heap[s].messages) <= MaxMessages
  /\ addresses \in Storages \cup {NoStorage}
  /\ put \in [Posts -> [pc : {"unsent", "append", "done", "failed"},
                        storage : Storages \cup {NoStorage}, id : Nat]]
  /\ clearing \in Storages \cup {NoStorage}
  /\ restarts \in 0 .. MaxRestarts
  /\ appended \in Seq([message : Message, storage : Storages,
                       reachable : BOOLEAN, router : 0 .. MaxRestarts])

RouterInit ==
  /\ now = 0
  /\ nextId = 1
  /\ heap = <<>>
  /\ addresses = NoStorage
  /\ put = [f \in Posts |-> [pc |-> "unsent", storage |-> NoStorage, id |-> 0]]
  /\ clearing = NoStorage
  /\ restarts = 0
  /\ appended = <<>>

NewStorage == [messages |-> <<>>, touched |-> now]

(* Put, under the router's mutex. *)
PutBegin(f) ==
  /\ put[f].pc = "unsent"
  /\ IF addresses = NoStorage
     THEN heap' = Append(heap, NewStorage) /\ addresses' = Len(heap) + 1
     ELSE UNCHANGED <<heap, addresses>>
  /\ put' = [put EXCEPT ![f] = [pc |-> "append", storage |-> addresses', id |-> nextId]]
  /\ nextId' = nextId + 1
  /\ UNCHANGED <<now, clearing, restarts, appended>>

(* Storage.Put, under the mutex of the storage. *)
PutEnd(f) ==
  LET storage == put[f].storage
      message == [post |-> f, id |-> put[f].id, size |-> SizeOf[f], touched |-> now]
  IN  /\ put[f].pc = "append"
      /\ heap' = [heap EXCEPT ![storage] =
                    [messages |-> Appended(@.messages, message), touched |-> now]]
      /\ put' = [put EXCEPT ![f].pc = "done"]
      /\ appended' = Append(appended, [message |-> message, storage |-> storage,
                                       reachable |-> storage = addresses,
                                       router |-> restarts])
      /\ UNCHANGED <<now, nextId, addresses, clearing, restarts>>

(* thClearAddresses, under the router's mutex: an idle storage is dropped, *)
(* any other is to be cleared.                                             *)
IdleTooSoon(s) == now - heap[s].touched >= 0

Idle(s) == now - heap[s].touched > StorageIdle

ClearBegin ==
  /\ clearing = NoStorage
  /\ addresses # NoStorage
  /\ IF Idle(addresses)
     THEN addresses' = NoStorage /\ UNCHANGED clearing
     ELSE clearing' = addresses /\ UNCHANGED addresses
  /\ UNCHANGED <<now, nextId, heap, put, restarts, appended>>

(* Storage.Clear *)
ClearEnd ==
  /\ clearing # NoStorage
  /\ heap' = [heap EXCEPT ![clearing].messages = Kept(@, now)]
  /\ clearing' = NoStorage
  /\ UNCHANGED <<now, nextId, addresses, put, restarts, appended>>

(* The process ends and starts again (NewRouter): ids start over, no       *)
(* message survives, and a Put that was under way is a failed request.     *)
RestartRouter ==
  /\ restarts < MaxRestarts
  /\ restarts' = restarts + 1
  /\ nextId' = 1
  /\ addresses' = NoStorage
  /\ clearing' = NoStorage
  /\ put' = [f \in Posts |-> IF put[f].pc = "append" THEN [put[f] EXCEPT !.pc = "failed"]
                                                     ELSE put[f]]
  /\ UNCHANGED <<now, heap, appended>>

Tick ==
  /\ now < MaxTime
  /\ now' = now + 1
  /\ UNCHANGED <<nextId, heap, addresses, put, clearing, restarts, appended>>

RouterNext ==
  \/ \E f \in Posts : PutBegin(f) \/ PutEnd(f)
  \/ ClearBegin
  \/ ClearEnd
  \/ Tick
=============================================================================
