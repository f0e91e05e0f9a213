----------------------------- MODULE PeerServer -----------------------------
(***************************************************************************)
(* The answering side of a peer (xchg/peer_server.go and the request half  *)
(* of xchg/peer_processing.go): it hands out its transport key and one-    *)
(* time nonces, opens a session for a client that shows a nonce of its     *)
(* under the shared key, and runs the callback for calls of a session.     *)
(*                                                                         *)
(* A handler runs on the goroutine of the batch its frame came in.  It     *)
(* touches shared state in short critical sections: the session map, the   *)
(* session's SnakeCounter, the nonce ring.  Handlers of two frames meet    *)
(* only in one TestAndDeclare, one Check or one insertion each, so each    *)
(* handler is one step here, placed where it takes effect.                 *)
(***************************************************************************)
EXTENDS Frames, SnakeCounter, Nonces

CONSTANTS
  CallbackResults,    \* what a callback may return: "ok", "error", "srv"
  MaxServerKey        \* bound on the incarnations of the server process

ASSUME CallbackAssumption == CallbackResults \subseteq {"ok", "error", "srv"}
ASSUME MaxServerKeyAssumption == MaxServerKey \in Nat \ {0}

VARIABLES
  TransportPublicKey,    \* drawn anew by every incarnation of the process
  sessionsById,          \* id -> [aesKey, snakeCounter] of the live sessions
  nextSessionId,
  authNonces,            \* the nonce ring
  drawn,                 \* nonce draws so far, all incarnations together
  opened,                \* history: [key, sid, nonce] of every session opened
  executed               \* history: how often a call's callback ran

serverState == <<TransportPublicKey, sessionsById, nextSessionId, authNonces, drawn>>
serverVars == <<serverState, opened, executed>>

(* A ring whose cells were filled with the NonceCount draws after drawn0. *)
FreshRing(drawn0) ==
  [nonces |-> [i \in Indexes |-> [index |-> i, tag |-> drawn0 + i + 1]],
   currentIndex |-> 0]

ServerInit ==
  /\ TransportPublicKey = 1
  /\ sessionsById = <<>>
  /\ nextSessionId = 1
  /\ authNonces = FreshRing(0)
  /\ drawn = NonceCount
  /\ opened = {}
  /\ executed = [c \in Calls |-> 0]

ServerTypeOK ==
  /\ TransportPublicKey \in Key \ {NoKey}
  /\ DOMAIN sessionsById \subseteq Nat
  /\ \A s \in DOMAIN sessionsById :
       sessionsById[s] \in [aesKey : Key, snakeCounter : SnakeCounters]
  /\ nextSessionId \in Nat
  /\ authNonces \in [nonces : [Indexes -> NonceValue], currentIndex : Indexes]
  /\ drawn \in Nat
  /\ opened \subseteq [key : Key, sid : Id, nonce : NonceValue]
  /\ executed \in [Calls -> Nat]

Plain(m, status) == [type |-> "plain", tid |-> m.tid, status |-> status]

LiveSession(sid) == sid \in DOMAIN sessionsById

-----------------------------------------------------------------------------
(* processFrameGetPublicKeyRequest *)
SendPublicKey(m) ==
  /\ m.type = "getKey"
  /\ Exchange(m, {[type |-> "publicKey", key |-> TransportPublicKey]})
  /\ UNCHANGED serverVars

(* A call that names a session the server does not have, or whose body     *)
(* does not decrypt under the key of that session: an error in plain.      *)
(* Only a user call carries a body encrypted as a whole.                   *)
DecryptsUnchecked(m) == m.type = "user"

Decrypts(m) == m.type = "user" /\ m.key = sessionsById[m.sid].aesKey

RefuseSession(m) ==
  /\ m.type \in {"getNonce", "auth", "user"}
  /\ m.sid # NoSession
  /\ LiveSession(m.sid) => ~Decrypts(m)
  /\ Exchange(m, {Plain(m, "srv")})
  /\ UNCHANGED serverVars

(* A call of a session: the counter of the call must be new to the session *)
(* or nothing happens and nothing is sent; otherwise the callback runs and *)
(* its result goes back under the key of the session.                      *)
SessionCall(m) ==
  /\ m.type = "user"
  /\ m.sid # NoSession /\ LiveSession(m.sid) /\ Decrypts(m)
  /\ LET session == sessionsById[m.sid]
     IN  IF Accepts(session.snakeCounter, m.counter)
         THEN /\ sessionsById' = [sessionsById EXCEPT
                    ![m.sid].snakeCounter = Declare(@, m.counter)]
              /\ executed' = [executed EXCEPT ![m.call] = @ + 1]
              /\ \E status \in CallbackResults :
                   Exchange(m, {[type |-> "result", tid |-> m.tid, key |-> session.aesKey,
                                 status |-> status, call |-> m.call]})
         ELSE Exchange(m, {}) /\ UNCHANGED <<sessionsById, executed>>
  /\ UNCHANGED <<TransportPublicKey, nextSessionId, authNonces, drawn, opened>>

(* Without a session only the two functions of the authentication do       *)
(* anything.  A user function falls through the switch and is answered     *)
(* with an empty success; if the client had encrypted it, the first byte   *)
(* of the ciphertext is read as a length and may also be refused.          *)
SessionlessUserCall(m) ==
  /\ m.type = "user"
  /\ m.sid = NoSession
  /\ \E status \in IF m.key = NoKey THEN {"ok"} ELSE {"ok", "srv"} :
       Exchange(m, {Plain(m, status)})
  /\ UNCHANGED serverVars

(* /xchg-get-nonce *)
GetNonce(m) ==
  /\ m.type = "getNonce"
  /\ m.sid = NoSession
  /\ Exchange(m, {[type |-> "nonce", tid |-> m.tid,
                   nonce |-> NextNonce(authNonces, drawn + 1)]})
  /\ authNonces' = AfterNext(authNonces, drawn + 1)
  /\ drawn' = drawn + 1
  /\ UNCHANGED <<TransportPublicKey, sessionsById, nextSessionId, opened, executed>>

(* /xchg-auth.  processAuth sends nothing at all unless the frame decrypts *)
(* under the key of this incarnation, carries a standing nonce, and the    *)
(* callback accepts it; a nonce that was checked is used up either way.    *)
AuthPresented(m) ==
  /\ m.type = "auth"
  /\ m.sid = NoSession
  /\ m.key = TransportPublicKey
  /\ Check(authNonces, m.nonce)

UseNonceKept(m) == UNCHANGED <<authNonces, drawn>>

UseNonce(m) ==
  /\ authNonces' = AfterCheck(authNonces, m.nonce, drawn + 1)
  /\ drawn' = drawn + 1

AuthIgnored(m) ==
  /\ m.type = "auth"
  /\ m.sid = NoSession
  /\ ~AuthPresented(m)
  /\ Exchange(m, {})
  /\ UNCHANGED serverVars

AuthRejected(m) ==
  /\ AuthPresented(m)
  /\ UseNonce(m)
  /\ Exchange(m, {})
  /\ UNCHANGED <<TransportPublicKey, sessionsById, nextSessionId, opened, executed>>

NewSession(key) == [aesKey |-> key, snakeCounter |-> NewSnakeCounter(0)]

AuthAccepted(m) ==
  /\ AuthPresented(m)
  /\ UseNonce(m)
  /\ sessionsById' = [sid \in DOMAIN sessionsById \cup {nextSessionId} |->
                        IF sid = nextSessionId THEN NewSession(m.key) ELSE sessionsById[sid]]
  /\ nextSessionId' = nextSessionId + 1
  /\ opened' = opened \cup {[key |-> m.key, sid |-> nextSessionId, nonce |-> m.nonce]}
  /\ Exchange(m, {[type |-> "session", tid |-> m.tid, key |-> m.key, sid |-> nextSessionId]})
  /\ UNCHANGED <<TransportPublicKey, executed>>

-----------------------------------------------------------------------------
(* purgeSessions removes the sessions that were idle for a minute: any.    *)
PurgeSession(sid) ==
  /\ LiveSession(sid)
  /\ sessionsById' = [s \in DOMAIN sessionsById \ {sid} |-> sessionsById[s]]
  /\ UNCHANGED <<TransportPublicKey, nextSessionId, authNonces, drawn, opened, executed,
                 net, repeats>>

(* The server process ends and starts again: NewPeer.  Nothing is kept on  *)
(* disk; session ids start over, the transport key and the nonces do not   *)
(* repeat.  What it had posted is still with the router.                   *)
RestartServer ==
  /\ TransportPublicKey < MaxServerKey
  /\ TransportPublicKey' = TransportPublicKey + 1
  /\ sessionsById' = <<>>
  /\ nextSessionId' = 1
  /\ authNonces' = FreshRing(drawn)
  /\ drawn' = drawn + NonceCount
  /\ UNCHANGED <<opened, executed, net, repeats>>

ServerHandle(m) ==
  \/ SendPublicKey(m)
  \/ RefuseSession(m)
  \/ SessionCall(m)
  \/ SessionlessUserCall(m)
  \/ GetNonce(m)
  \/ AuthIgnored(m)
  \/ AuthRejected(m)
  \/ AuthAccepted(m)

ServerNext ==
  \/ \E m \in net : ServerHandle(m)
  \/ \E sid \in DOMAIN sessionsById : PurgeSession(sid)
  \/ RestartServer
=============================================================================
