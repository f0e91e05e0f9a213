----------------------------- MODULE Reassembly -----------------------------
(***************************************************************************)
(* Calls whose request and response take several frames: the sending loop  *)
(* of executeTransaction, the server's table incomingTransactions          *)
(* (processFrameCallRequest), the frames of the response, and the client's *)
(* transaction that collects them (processFrame11).                        *)
(*                                                                         *)
(* The frames travel as in Frames: unordered, lost, repeated.  The client  *)
(* process may end while some of the blocks are sent, and start again      *)
(* under the same private key: transaction ids start over, so the next     *)
(* process may use an id again while blocks of the last one still sit in   *)
(* the routers and in the server's table.                                  *)
(***************************************************************************)
EXTENDS Transactions, Sequences

CONSTANTS
  Messages,           \* the calls made, one request each
  Refusal,            \* the body of a server's error response
  ProcessOf,          \* the incarnation of the client process that makes the call
  TidOf,              \* the transaction id it takes
  SizeOf,             \* the length of the request
  ResponseSizeOf,     \* the length of the response
  MaxResponse,        \* XchgMaxTransactionSize + 1024
  PurgeAge,           \* ten seconds
  MaxTime,            \* bound on the clock
  MaxRepeats          \* bound on frames that are delivered a second time

ASSUME MessagesAssumption ==
  /\ Refusal \notin Messages
  /\ ProcessOf \in [Messages -> Nat \ {0}]
  /\ TidOf \in [Messages -> Nat \ {0}]
  /\ SizeOf \in [Messages -> Nat \ {0}]
  /\ ResponseSizeOf \in [Messages -> Nat \ {0}]
  /\ \A m, n \in Messages : ProcessOf[m] = ProcessOf[n] /\ TidOf[m] = TidOf[n] => m = n

ASSUME BoundsAssumption ==
  MaxResponse \in Nat /\ PurgeAge \in Nat /\ MaxTime \in Nat /\ MaxRepeats \in Nat

VARIABLES
  now,                     \* in units of ten seconds
  net, repeats,            \* the frames under way, and how many came again
  process,                 \* the incarnation of the client process
  outgoingTransactions,    \* the call and the transaction of each message
  incomingTransactions,    \* transaction id -> [begin, frames]
  executed,                \* messages whose callback ran
  panicked,                \* processes that hit a run-time panic
  handed,                  \* history: the transactions that became complete
  taken,                   \* history: how often each request block arrived
  since,                   \* history: when the first block of each of the table arrived
  purged                   \* history: transaction ids of what was purged

clientVars == <<process, outgoingTransactions>>
serverVars == <<incomingTransactions, executed>>
history == <<handed, taken, since, purged>>
vars == <<now, net, repeats, clientVars, serverVars, panicked, history>>

Request(m) == Blocks("call", TidOf[m], m, SizeOf[m])
Response(m) == Blocks("response", TidOf[m], m, ResponseSizeOf[m])

(* What the server answers when a request does not decrypt: one block. *)
Refused(tid) == Blocks("response", tid, Refusal, 1)

Idle == [pc |-> "idle", offset |-> 0, frames |-> {}, result |-> {}]

Init ==
  /\ now = 0
  /\ net = {}
  /\ repeats = 0
  /\ process = 1
  /\ outgoingTransactions = [m \in Messages |-> Idle]
  /\ incomingTransactions = <<>>
  /\ executed = {}
  /\ panicked = {}
  /\ handed = <<>>
  /\ taken = [f \in UNION {Request(m) : m \in Messages} |-> 0]
  /\ since = <<>>
  /\ purged = {}

-----------------------------------------------------------------------------
Post(frames) == net' = net \cup frames /\ UNCHANGED repeats

(* Frame f is taken, for good or to come again, and frames are posted. *)
Exchange(f, frames) ==
  /\ f \in net
  /\ \/ net' = (net \ {f}) \cup frames /\ UNCHANGED repeats
     \/ /\ repeats < MaxRepeats
        /\ repeats' = repeats + 1
        /\ net' = net \cup frames

Tick ==
  /\ now < MaxTime
  /\ now' = now + 1
  /\ UNCHANGED <<net, repeats, clientVars, serverVars, panicked, history>>

(* The client process lives and is the one that makes call m. *)
Running(m) == ProcessOf[m] = process /\ "client" \notin panicked

(* The loop of executeTransaction: one block per turn, in order.  The      *)
(* transaction is registered before the first.                             *)
SendBlock(m) ==
  LET offset == outgoingTransactions[m].offset
      block == NewTransaction("call", TidOf[m], m, offset, SizeOf[m])
  IN  /\ Running(m)
      /\ outgoingTransactions[m].pc \in {"idle", "sending"}
      /\ outgoingTransactions' = [outgoingTransactions EXCEPT ![m] =
           [@ EXCEPT !.offset = offset + block.length,
                     !.pc = IF offset + block.length < SizeOf[m] THEN "sending" ELSE "waiting"]]
      /\ Post({block})
      /\ UNCHANGED <<now, process, serverVars, panicked, history>>

(* The waiting loop sees the complete transaction, or its ticks run out    *)
(* first; either way the transaction is no longer registered.              *)
Finish(m) ==
  /\ Running(m)
  /\ outgoingTransactions[m].pc = "waiting"
  /\ outgoingTransactions' = [outgoingTransactions EXCEPT ![m].pc = "done"]
  /\ UNCHANGED <<now, net, repeats, process, serverVars, panicked, history>>

(* The client process ends, wherever its calls are, and starts again. *)
RestartClient ==
  /\ \E m \in Messages : ProcessOf[m] > process
  /\ process' = process + 1
  /\ outgoingTransactions' = [m \in Messages |->
       IF ProcessOf[m] = process THEN [outgoingTransactions[m] EXCEPT !.pc = "done"]
                                 ELSE outgoingTransactions[m]]
  /\ panicked' = panicked \ {"client"}
  /\ UNCHANGED <<now, net, repeats, serverVars, history>>

-----------------------------------------------------------------------------
(* processFrameCallRequest.  Transactions begun more than ten seconds ago  *)
(* are dropped first, whosoever they are.                                  *)
Young ==
  [t \in {u \in DOMAIN incomingTransactions : now - incomingTransactions[u].begin <= PurgeAge}
     |-> incomingTransactions[t]]

Purged == DOMAIN incomingTransactions \ DOMAIN Young

JoinedRefreshed(f) ==
  [begin |-> now,
   frames |-> Appended(IF f.tid \in DOMAIN Young THEN Young[f.tid].frames ELSE {}, f)]

JoinedDeadline(f) ==
  IF f.tid \in DOMAIN Young
  THEN [Young[f.tid] EXCEPT !.frames = Appended(@, f)]
  ELSE [begin |-> now + PurgeAge, frames |-> {f}]

Joined(f) ==
  IF f.tid \in DOMAIN Young
  THEN [Young[f.tid] EXCEPT !.frames = Appended(@, f)]
  ELSE [begin |-> now, frames |-> {f}]

(* The block is taken into its transaction, a new one if there is none. *)
Arrive(f) ==
  /\ f.kind = "call"
  /\ "server" \notin panicked
  /\ taken' = [taken EXCEPT ![f] = @ + 1]
  /\ purged' = purged \cup Purged
  /\ UNCHANGED <<now, clientVars>>

(* When the first block of f's transaction arrived. *)
Since(f) == IF f.tid \in DOMAIN Young THEN since[f.tid] ELSE now

StorePartial(f) ==
  /\ Arrive(f)
  /\ ~Complete(Joined(f).frames, f)
  /\ incomingTransactions' =
       [t \in DOMAIN Young \cup {f.tid} |-> IF t = f.tid THEN Joined(f) ELSE Young[t]]
  /\ since' = [t \in DOMAIN Young \cup {f.tid} |-> IF t = f.tid THEN Since(f) ELSE since[t]]
  /\ Exchange(f, {})
  /\ UNCHANGED <<executed, panicked, handed>>

(* The transaction is complete and leaves the table.  onEdgeReceivedCall   *)
(* decrypts it: what is not one request, whole, is refused; a request whose *)
(* counter was used is dropped (SnakeCounter); else the callback runs and  *)
(* its response is cut into blocks.                                        *)
Handle(f) ==
  LET frames == Joined(f).frames
  IN  IF frames # Request(f.body)
      THEN Exchange(f, Refused(f.tid)) /\ UNCHANGED executed
      ELSE IF f.body \in executed
      THEN Exchange(f, {}) /\ UNCHANGED executed
      ELSE Exchange(f, Response(f.body)) /\ executed' = executed \cup {f.body}

HandOverKept(f) ==
  /\ Arrive(f)
  /\ Complete(Joined(f).frames, f)
  /\ InRange(Joined(f).frames, f)
  /\ incomingTransactions' =
       [t \in DOMAIN Young \cup {f.tid} |-> IF t = f.tid THEN Joined(f) ELSE Young[t]]
  /\ since' = [t \in DOMAIN Young \cup {f.tid} |-> IF t = f.tid THEN Since(f) ELSE since[t]]
  /\ handed' = Append(handed, [frames |-> Joined(f).frames, since |-> Since(f), at |-> now])
  /\ Handle(f)
  /\ UNCHANGED panicked

HandOver(f) ==
  /\ Arrive(f)
  /\ Complete(Joined(f).frames, f)
  /\ InRange(Joined(f).frames, f)
  /\ incomingTransactions' = [t \in DOMAIN Young \ {f.tid} |-> Young[t]]
  /\ since' = [t \in DOMAIN Young \ {f.tid} |-> since[t]]
  /\ handed' = Append(handed, [frames |-> Joined(f).frames, since |-> Since(f), at |-> now])
  /\ Handle(f)
  /\ UNCHANGED panicked

PanicServer(f) ==
  /\ Arrive(f)
  /\ Complete(Joined(f).frames, f)
  /\ ~InRange(Joined(f).frames, f)
  /\ panicked' = panicked \cup {"server"}
  /\ Exchange(f, {})
  /\ UNCHANGED <<incomingTransactions, since, executed, handed>>

-----------------------------------------------------------------------------
(* processFrame11: a block of a response, for the call that is registered  *)
(* under its transaction id.  Oversized responses are dropped.             *)
Registered(m) == Running(m) /\ outgoingTransactions[m].pc \in {"sending", "waiting"}

DropResponse(f) ==
  /\ f.kind = "response"
  /\ f.total > MaxResponse \/ \A m \in Messages : Registered(m) => TidOf[m] # f.tid
  /\ Exchange(f, {})
  /\ UNCHANGED <<now, clientVars, serverVars, panicked, history>>

ReceiveResponse(m, f) ==
  LET call == outgoingTransactions[m]
      frames == Appended(call.frames, f)
  IN  /\ f.kind = "response"
      /\ f.total <= MaxResponse
      /\ Registered(m) /\ TidOf[m] = f.tid
      /\ IF Complete(frames, f) /\ ~InRange(frames, f)
         THEN panicked' = panicked \cup {"client"} /\ UNCHANGED outgoingTransactions
         ELSE /\ outgoingTransactions' = [outgoingTransactions EXCEPT ![m] =
                   [call EXCEPT !.frames = frames,
                                !.result = IF Complete(frames, f) THEN frames ELSE call.result]]
              /\ UNCHANGED panicked
      /\ Exchange(f, {})
      /\ UNCHANGED <<now, process, serverVars, history>>

Next ==
  \/ Tick
  \/ RestartClient
  \/ \E m \in Messages : SendBlock(m) \/ Finish(m)
  \/ \E f \in net : StorePartial(f) \/ HandOver(f) \/ PanicServer(f) \/ DropResponse(f)
  \/ \E m \in Messages, f \in net : ReceiveResponse(m, f)

Spec == Init /\ [][Next]_vars

-----------------------------------------------------------------------------
RequestBlocks == UNION {Request(m) : m \in Messages}
ResponseBlocks ==
  (UNION {Response(m) : m \in Messages}) \cup (UNION {Refused(TidOf[m]) : m \in Messages})

(* Client, server and network keep their types. *)
TypeOK ==
  /\ now \in 0 .. MaxTime
  /\ net \subseteq RequestBlocks \cup ResponseBlocks
  /\ repeats \in 0 .. MaxRepeats
  /\ process \in Nat \ {0}
  /\ outgoingTransactions \in
       [Messages -> [pc : {"idle", "sending", "waiting", "done"}, offset : Nat,
                     frames : SUBSET ResponseBlocks, result : SUBSET ResponseBlocks]]
  /\ \A t \in DOMAIN incomingTransactions :
       /\ incomingTransactions[t].begin \in 0 .. now
       /\ incomingTransactions[t].frames \in (SUBSET RequestBlocks) \ {{}}
  /\ executed \subseteq Messages
  /\ panicked \subseteq {"client", "server"}

(* Two processes of the client have used transaction id tid. *)
Reused(tid) ==
  \E m, n \in Messages :
    /\ m # n /\ TidOf[m] = tid /\ TidOf[n] = tid
    /\ outgoingTransactions[m].offset > 0 /\ outgoingTransactions[n].offset > 0

Completions(blocks) == {i \in DOMAIN handed : handed[i].frames = blocks}

(* What the server hands over is one request with all of its blocks, in    *)
(* whatever order and however often they came, until the client uses a     *)
(* transaction id again; until then nothing panics either.                *)
HandedWhole ==
  /\ \A i \in DOMAIN handed :
       \A f \in handed[i].frames : Reused(f.tid) \/ handed[i].frames = Request(f.body)
  /\ panicked # {} => \E m \in Messages : Reused(TidOf[m])

(* The ten seconds keep apart what they can: blocks that are handed over   *)
(* as one message arrived within ten seconds of one another.               *)
HandedTogether == \A i \in DOMAIN handed : handed[i].at - handed[i].since <= PurgeAge

(* A request is handed over n times only if each of its blocks arrived n   *)
(* times: one block that comes again never completes a message again.      *)
HandedAgainOnlyIf ==
  \A m \in Messages : \A f \in Request(m) :
    Cardinality(Completions(Request(m))) <= taken[f]

(* A request all of whose blocks arrived was handed over, unless it was    *)
(* purged on the way or its transaction id is used again.                  *)
HandedIfArrived ==
  \A m \in Messages :
    (\A f \in Request(m) : taken[f] > 0) =>
      \/ Completions(Request(m)) # {}
      \/ TidOf[m] \in purged
      \/ Reused(TidOf[m])

(* The result a call finds is the response to its own request, whole, and  *)
(* the callback ran; unless its transaction id is used again.              *)
ResultWhole ==
  \A m \in Messages :
    LET result == outgoingTransactions[m].result
    IN  result = {} \/ Reused(TidOf[m]) \/ (result = Response(m) /\ m \in executed)
=============================================================================
