---------------------------- MODULE CallProtocol ----------------------------
(***************************************************************************)
(* A client's RemotePeer and the server it calls, over a network that      *)
(* delays, loses, reorders and repeats frames, with the server process     *)
(* free to restart and to purge sessions at any moment.                    *)
(***************************************************************************)
EXTENDS RemotePeer, PeerServer, FiniteSets

vars == <<net, repeats, clientVars, serverVars>>

Init ==
  /\ net = {}
  /\ repeats = 0
  /\ ClientInit
  /\ ServerInit

Next ==
  \/ \E c \in Calls : CallStep(c) /\ UNCHANGED serverVars
  \/ \E m \in net : ClientReceive(m) /\ UNCHANGED serverVars
  \/ ServerNext /\ UNCHANGED clientVars

Spec == Init /\ [][Next]_vars

(* A goroutine that can go on does: its waits are loops that count to a    *)
(* limit, so even a call that is never answered gets to its end.  Nothing  *)
(* is assumed of the network or of the server.                             *)
Fairness == \A c \in Calls : WF_vars(CallStep(c) /\ UNCHANGED serverVars)

FairSpec == Spec /\ Fairness

-----------------------------------------------------------------------------
(* Every variable of the client, the server and the network keeps its type. *)
TypeOK == FramesTypeOK /\ ClientTypeOK /\ ServerTypeOK

(* A callback runs at most once per call, although frames are repeated,    *)
(* sessions are purged and the server restarts and numbers its sessions    *)
(* from 1 again (SnakeCounter.TestAndDeclare, the key of a session).       *)
ExecutedAtMostOnce == \A c \in Calls : executed[c] <= 1

(* A call that returns a callback's result returns its own, and that       *)
(* callback did run: no answer reaches the wrong transaction.              *)
OwnResult ==
  \A c \in Calls :
    call[c].result # Nobody => call[c].result = c /\ executed[c] = 1

(* The map of outgoing transactions holds the transactions of the calls    *)
(* that wait, and none of a call that gave up or went on.                  *)
OutgoingExact ==
  /\ DOMAIN outgoingTransactions = {call[c].tid : c \in {d \in Calls : call[d].pc = "wait"}}
  /\ \A c, d \in Calls :
       call[c].pc = "wait" /\ call[d].pc = "wait" /\ c # d => call[c].tid # call[d].tid

(* authProcessing is set exactly while one call is inside auth; whatever   *)
(* way auth ends, it is cleared.                                           *)
AuthExclusive ==
  /\ authProcessing <=> \E c \in Calls : InAuth(c)
  /\ \A c, d \in Calls : InAuth(c) /\ InAuth(d) => c = d

(* A session id and a key that the client holds together were issued       *)
(* together, although they are written at different times by code that     *)
(* holds the lock for neither: a frame never goes out under the key of one *)
(* session and the id of another.                                          *)
SessionMatchesKey ==
  sessionId # NoSession /\ aesKey # NoKey =>
    \E o \in opened : o.key = aesKey /\ o.sid = sessionId

(* One nonce, one session: an auth frame that is delivered again opens     *)
(* nothing; and a server gives out each session id once.                   *)
OneSessionPerNonce ==
  \A o, p \in opened :
    o.nonce = p.nonce \/ (o.key = p.key /\ o.sid = p.sid) => o = p

(* The protocol implements what RemoteCall promises: behind all frames,    *)
(* sessions and keys a call begins, runs its callback at most once, and    *)
(* returns once, its own value or none.                                    *)
PlaceOf(pc) == IF pc = "idle" THEN "before" ELSE IF pc = "done" THEN "after" ELSE "during"

Promise == INSTANCE RemoteCall WITH
             place  <- [c \in Calls |-> PlaceOf(call[c].pc)],
             answer <- [c \in Calls |-> [outcome |-> call[c].outcome,
                                         result |-> call[c].result]],
             runs   <- executed

ImplementsRemoteCall == Promise!CallSpec

(* Every call returns: whatever is lost, the caller gets an error.         *)
CallsReturn ==
  \A c \in Calls : call[c].pc = "awaitKey" \/ call[c].pc = "gate" ~> call[c].pc = "done"

(* The gate of auth opens again. *)
AuthReleased == authProcessing ~> ~authProcessing

-----------------------------------------------------------------------------
(* The samples print "Success:" and the callback's data when Call returns  *)
(* without an error: a successful call was executed.                       *)
SuccessMeansExecuted == \A c \in Calls : call[c].outcome = "ok" => executed[c] = 1

-----------------------------------------------------------------------------
(* The most favourable surroundings: the calls are made one after another, *)
(* everything posted arrives once and before anybody stops waiting for it, *)
(* nobody is refused, and a session that ends, with its server or purged,  *)
(* ends between two calls.                                                 *)
Underway(c) == call[c].pc \notin {"idle", "done"}

PromptStep(c) ==
  \/ call[c].pc \notin {"awaitKey", "wait"} /\ CallStep(c)
  \/ KeyArrived(c)
  \/ NonceAnswered(c) \/ AuthAnswered(c) \/ EncryptedAnswered(c) \/ PlainAnswered(c)
  \/ net = {} /\ KeyTimeout(c)
  \/ net = {} /\ call[c].pc = "wait" /\ Reply(c) = Pending /\ Timeout(c)

PromptHandle(m) ==
  SendPublicKey(m) \/ RefuseSession(m) \/ SessionCall(m) \/ SessionlessUserCall(m)
    \/ GetNonce(m) \/ AuthIgnored(m) \/ AuthAccepted(m)

PromptNext ==
  /\ UNCHANGED repeats
  /\ \/ \E c \in Calls :
          /\ \A d \in Calls \ {c} : ~Underway(d)
          /\ PromptStep(c)
          /\ UNCHANGED serverVars
     \/ \E m \in net : ClientReceive(m) /\ UNCHANGED serverVars
     \/ \E m \in net : PromptHandle(m) /\ UNCHANGED clientVars
     \/ /\ \A c \in Calls : ~Underway(c)
        /\ RestartServer \/ \E sid \in DOMAIN sessionsById : PurgeSession(sid)
        /\ UNCHANGED clientVars

PromptSpec == Init /\ [][PromptNext]_vars

(* A client that loses its session loses one call by it and then has a     *)
(* session again.  The comment of regularCall: "Any server error - make    *)
(* new session".                                                           *)
LostSessionCostsOneCall ==
  Cardinality({c \in Calls : call[c].outcome = "error"})
    <= Cardinality(opened) - Cardinality(DOMAIN sessionsById)

(* So it is for the sessions a server purges (purgeSessions, the plain     *)
(* refusal of onEdgeReceivedCall, Reset): in these surroundings no call of *)
(* a client fails but the first one after a purge.  Of callbacks that      *)
(* succeed: the error of one that fails is that of its call.               *)
PurgeCostsOneCall == TransportPublicKey = 1 => LostSessionCostsOneCall
=============================================================================
