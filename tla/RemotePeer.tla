----------------------------- MODULE RemotePeer -----------------------------
(***************************************************************************)
(* The calling side (xchg/remote_peer.go): one RemotePeer, shared by the   *)
(* goroutines that call Call on it and by the goroutine that hands it the  *)
(* responses.  The fields sessionId, aesKey, authProcessing and the map of *)
(* outgoing transactions are shared; each goroutine works on copies it     *)
(* took in separate critical sections, so another call may change the      *)
(* session between any two of its steps.                                   *)
(*                                                                         *)
(* A call is at one of these places (pc), inside Call, auth or regularCall: *)
(*   idle -> awaitKey -> gate -> [auth: readSession(nonce) -> ... ->       *)
(*   setKey -> seal -> readSession(auth) -> ... -> setSession] ->          *)
(*   copyKey -> readSession(user) -> send -> wait -> done                  *)
(* where "readSession -> send -> wait" is regularCall, for the phase       *)
(* "nonce", "auth" or "user" of the call.                                  *)
(***************************************************************************)
EXTENDS Frames

VARIABLES
  remoteTransportPublicKey,   \* NoKey until the server's answer came
  authProcessing,             \* TRUE while a call is inside auth
  aesKey, sessionId,          \* the session, NoKey and NoSession if none
  sessionNonceCounter,        \* the counter of the next call frame
  nextTransactionId,
  outgoingTransactions,       \* transaction id -> its response, or Pending
  call                        \* the state of each call's goroutine

session == <<aesKey, sessionId>>
clientVars == <<remoteTransportPublicKey, authProcessing, session, sessionNonceCounter,
                nextTransactionId, outgoingTransactions, call>>

NoNonce == [index |-> 0, tag |-> 0]

Pending == [type |-> "pending"]

Places == {"idle", "awaitKey", "gate", "readSession", "send", "wait",
           "setKey", "seal", "setSession", "copyKey", "done"}

(* found: sessionId as Call first read it;  aes: the key the frame goes    *)
(* out under, for an auth frame the key its body is sealed with;  sid: the *)
(* session id the frame carries;  nonce, granted: what the server gave;    *)
(* result: whose callback result the call returned, Nobody for an empty    *)
(* one.                                                                    *)
IdleCall == [pc |-> "idle", phase |-> "user", found |-> NoSession, aes |-> NoKey,
             sid |-> NoSession, tid |-> 0, nonce |-> NoNonce, granted |-> NoSession,
             outcome |-> "none", result |-> Nobody]

CallState == [pc : Places, phase : {"nonce", "auth", "user"}, found : Id, aes : Key,
              sid : Id, tid : Id, nonce : NonceValue, granted : Id,
              outcome : {"none", "ok", "error"}, result : Calls \cup {Nobody}]

ClientTypeOK ==
  /\ remoteTransportPublicKey \in Key
  /\ authProcessing \in BOOLEAN
  /\ aesKey \in Key
  /\ sessionId \in Id
  /\ sessionNonceCounter \in Nat
  /\ nextTransactionId \in Nat
  /\ DOMAIN outgoingTransactions \subseteq Nat
  /\ \A t \in DOMAIN outgoingTransactions :
       outgoingTransactions[t] \in CallResponse \cup {Pending}
  /\ call \in [Calls -> CallState]

ClientInit ==
  /\ remoteTransportPublicKey = NoKey
  /\ authProcessing = FALSE
  /\ aesKey = NoKey
  /\ sessionId = NoSession
  /\ sessionNonceCounter = 0
  /\ nextTransactionId = 1
  /\ outgoingTransactions = <<>>
  /\ call = [c \in Calls |-> IdleCall]

InAuth(c) ==
  \/ call[c].pc \in {"readSession", "send", "wait"} /\ call[c].phase \in {"nonce", "auth"}
  \/ call[c].pc \in {"setKey", "seal", "setSession"}

(* Call c goes on at pc in phase. *)
At(c, pc, phase) == call' = [call EXCEPT ![c] = [@ EXCEPT !.pc = pc, !.phase = phase]]

(* Call c returns; its locals are gone. *)
Return(c, outcome, result) ==
  call' = [call EXCEPT ![c] = [IdleCall EXCEPT !.pc = "done", !.outcome = outcome,
                                               !.result = result]]

Fail(c) == Return(c, "error", Nobody)

(* auth returns an error to Call, which returns it; the deferred function  *)
(* clears authProcessing.                                                  *)
FailAuthHeld(c) == Fail(c) /\ UNCHANGED authProcessing

FailAuth(c) == Fail(c) /\ authProcessing' = FALSE

ResetKeyOnly == aesKey' = NoKey /\ UNCHANGED sessionId

Reset == aesKey' = NoKey /\ sessionId' = NoSession

ForgetNothing(t) == UNCHANGED outgoingTransactions

(* The transaction leaves the map, whether it was answered or not. *)
Forget(t) ==
  outgoingTransactions' = [u \in DOMAIN outgoingTransactions \ {t} |-> outgoingTransactions[u]]

-----------------------------------------------------------------------------
(* Call: look at the session, ask for the server's key if there is none.   *)
StartCall(c) ==
  /\ call[c].pc = "idle"
  /\ call' = [call EXCEPT ![c] =
                [@ EXCEPT !.found = sessionId,
                          !.pc = IF remoteTransportPublicKey = NoKey
                                 THEN "awaitKey" ELSE "gate"]]
  /\ Post(IF remoteTransportPublicKey = NoKey THEN {GetKey} ELSE {})
  /\ UNCHANGED <<remoteTransportPublicKey, authProcessing, session, sessionNonceCounter,
                 nextTransactionId, outgoingTransactions>>

KeyArrived(c) ==
  /\ call[c].pc = "awaitKey"
  /\ remoteTransportPublicKey # NoKey
  /\ At(c, "gate", "user")
  /\ UNCHANGED <<remoteTransportPublicKey, authProcessing, session, sessionNonceCounter,
                 nextTransactionId, outgoingTransactions, net, repeats>>

(* Two seconds without a key. *)
KeyTimeout(c) ==
  /\ call[c].pc = "awaitKey"
  /\ remoteTransportPublicKey = NoKey
  /\ Fail(c)
  /\ UNCHANGED <<remoteTransportPublicKey, authProcessing, session, sessionNonceCounter,
                 nextTransactionId, outgoingTransactions, net, repeats>>

PassGateUnguarded(c) ==
  /\ call[c].pc = "gate"
  /\ At(c, "copyKey", "user")
  /\ UNCHANGED <<remoteTransportPublicKey, authProcessing, session, sessionNonceCounter,
                 nextTransactionId, outgoingTransactions, net, repeats>>

(* A call that found a session goes straight to its user call; one that    *)
(* found none authenticates, unless another call is at it.                 *)
PassGate(c) ==
  /\ call[c].pc = "gate"
  /\ call[c].found # NoSession
  /\ At(c, "copyKey", "user")
  /\ UNCHANGED <<remoteTransportPublicKey, authProcessing, session, sessionNonceCounter,
                 nextTransactionId, outgoingTransactions, net, repeats>>

EnterAuthUnguarded(c) ==
  /\ call[c].pc = "gate"
  /\ call[c].found = NoSession
  /\ authProcessing' = TRUE
  /\ At(c, "readSession", "nonce")
  /\ UNCHANGED <<remoteTransportPublicKey, session, sessionNonceCounter,
                 nextTransactionId, outgoingTransactions, net, repeats>>

EnterAuth(c) ==
  /\ call[c].pc = "gate"
  /\ call[c].found = NoSession
  /\ IF authProcessing
     THEN Fail(c) /\ UNCHANGED authProcessing
     ELSE authProcessing' = TRUE /\ At(c, "readSession", "nonce")
  /\ UNCHANGED <<remoteTransportPublicKey, session, sessionNonceCounter,
                 nextTransactionId, outgoingTransactions, net, repeats>>

(* auth: derive the key into the shared field, then seal the frame with    *)
(* what the field holds by then.                                           *)
SetKey(c) ==
  /\ call[c].pc = "setKey"
  /\ aesKey' = remoteTransportPublicKey
  /\ At(c, "seal", "auth")
  /\ UNCHANGED <<remoteTransportPublicKey, authProcessing, sessionId, sessionNonceCounter,
                 nextTransactionId, outgoingTransactions, net, repeats>>

Seal(c) ==
  /\ call[c].pc = "seal"
  /\ IF aesKey = NoKey
     THEN FailAuth(c)
     ELSE /\ call' = [call EXCEPT ![c] = [@ EXCEPT !.pc = "readSession",
                                                        !.phase = "auth", !.aes = aesKey]]
          /\ UNCHANGED authProcessing
  /\ UNCHANGED <<remoteTransportPublicKey, session, sessionNonceCounter,
                 nextTransactionId, outgoingTransactions, net, repeats>>

(* auth, on its way out. *)
SetSession(c) ==
  /\ call[c].pc = "setSession"
  /\ sessionId' = call[c].granted
  /\ authProcessing' = FALSE
  /\ At(c, "copyKey", "user")
  /\ UNCHANGED <<remoteTransportPublicKey, aesKey, sessionNonceCounter,
                 nextTransactionId, outgoingTransactions, net, repeats>>

CopyKey(c) ==
  /\ call[c].pc = "copyKey"
  /\ call' = [call EXCEPT ![c] = [@ EXCEPT !.pc = "readSession",
                                                     !.phase = "user", !.aes = aesKey]]
  /\ UNCHANGED <<remoteTransportPublicKey, authProcessing, session, sessionNonceCounter,
                 nextTransactionId, outgoingTransactions, net, repeats>>

-----------------------------------------------------------------------------
(* regularCall and executeTransaction. *)
ReadSession(c) ==
  /\ call[c].pc = "readSession"
  /\ call' = [call EXCEPT ![c] = [@ EXCEPT !.pc = "send", !.sid = sessionId]]
  /\ UNCHANGED <<remoteTransportPublicKey, authProcessing, session, sessionNonceCounter,
                 nextTransactionId, outgoingTransactions, net, repeats>>

CallFrame(c) ==
  CASE call[c].phase = "nonce" ->
         [type |-> "getNonce", tid |-> nextTransactionId, sid |-> call[c].sid]
    [] call[c].phase = "auth" ->
         [type |-> "auth", tid |-> nextTransactionId, sid |-> call[c].sid,
          key |-> call[c].aes, nonce |-> call[c].nonce]
    [] OTHER ->
         [type |-> "user", tid |-> nextTransactionId, sid |-> call[c].sid,
          key |-> call[c].aes, counter |-> sessionNonceCounter, call |-> c]

(* The counter and the transaction id are taken, the transaction is        *)
(* registered and its frame posted.  An HTTP error is dropped: a lost frame. *)
Send(c) ==
  /\ call[c].pc = "send"
  /\ sessionNonceCounter' = sessionNonceCounter + 1
  /\ nextTransactionId' = nextTransactionId + 1
  /\ outgoingTransactions' =
       [t \in DOMAIN outgoingTransactions \cup {nextTransactionId} |->
          IF t = nextTransactionId THEN Pending ELSE outgoingTransactions[t]]
  /\ call' = [call EXCEPT ![c] = [@ EXCEPT !.pc = "wait", !.tid = nextTransactionId]]
  /\ Post({CallFrame(c)})
  /\ UNCHANGED <<remoteTransportPublicKey, authProcessing, session>>

Waiting(c, phase) == call[c].pc = "wait" /\ call[c].phase = phase

Reply(c) == outgoingTransactions[call[c].tid]

(* The key a wait phase encrypts its whole frame under: regularCall gets   *)
(* aesKey = nil from auth.                                                 *)
FrameKey(c) == IF call[c].phase = "user" THEN call[c].aes ELSE NoKey

TimeoutIfAnswered(c) ==
  /\ call[c].pc = "wait"
  /\ Reply(c) # Pending
  /\ Forget(call[c].tid)
  /\ Reset
  /\ IF InAuth(c) THEN FailAuth(c) ELSE Fail(c) /\ UNCHANGED authProcessing
  /\ UNCHANGED <<remoteTransportPublicKey, sessionNonceCounter, nextTransactionId,
                 net, repeats>>

(* The wait is over, with or without an answer in the last tick.  The      *)
(* session is dropped unless it is known to have a different key by now.   *)
Timeout(c) ==
  /\ call[c].pc = "wait"
  /\ Forget(call[c].tid)
  /\ IF FrameKey(c) # NoKey /\ aesKey # NoKey /\ FrameKey(c) # aesKey
     THEN UNCHANGED session
     ELSE Reset
  /\ IF InAuth(c) THEN FailAuth(c) ELSE Fail(c) /\ UNCHANGED authProcessing
  /\ UNCHANGED <<remoteTransportPublicKey, sessionNonceCounter, nextTransactionId,
                 net, repeats>>

(* The answer to get-nonce: a nonce, or an error of the server when the    *)
(* frame carried a session id.                                             *)
NonceAnswered(c) ==
  /\ Waiting(c, "nonce")
  /\ Forget(call[c].tid)
  /\ \/ /\ Reply(c).type = "nonce"
        /\ call' = [call EXCEPT ![c] = [@ EXCEPT !.pc = "setKey", !.nonce = Reply(c).nonce]]
        /\ UNCHANGED <<session, authProcessing>>
     \/ /\ Reply(c).type = "plain"
        /\ sessionId' = NoSession
        /\ FailAuth(c)
        /\ UNCHANGED aesKey
  /\ UNCHANGED <<remoteTransportPublicKey, sessionNonceCounter, nextTransactionId,
                 net, repeats>>

(* The answer to auth: the new session id, if the shared key still is the  *)
(* one that decrypts it; or an error of the server.                        *)
AuthAnswered(c) ==
  /\ Waiting(c, "auth")
  /\ Forget(call[c].tid)
  /\ \/ /\ Reply(c).type = "session"
        /\ Reply(c).key = aesKey
        /\ call' = [call EXCEPT ![c] = [@ EXCEPT !.pc = "setSession", !.granted = Reply(c).sid]]
        /\ UNCHANGED <<session, authProcessing>>
     \/ /\ Reply(c).type = "session"
        /\ Reply(c).key # aesKey
        /\ FailAuth(c)
        /\ UNCHANGED session
     \/ /\ Reply(c).type = "plain"
        /\ sessionId' = NoSession
        /\ FailAuth(c)
        /\ UNCHANGED aesKey
  /\ UNCHANGED <<remoteTransportPublicKey, sessionNonceCounter, nextTransactionId,
                 net, repeats>>

Decrypted(c) == Reply(c).type = "result" /\ Reply(c).key = call[c].aes

(* The answer to an encrypted user call must decrypt, or the session is    *)
(* reset.  A server error that reaches the client inside a response makes  *)
(* it drop the session id.                                                 *)
EncryptedAnswered(c) ==
  /\ Waiting(c, "user")
  /\ call[c].aes # NoKey
  /\ Reply(c) # Pending
  /\ Forget(call[c].tid)
  /\ \/ /\ Decrypted(c)
        /\ \/ Reply(c).status = "ok" /\ Return(c, "ok", Reply(c).call) /\ UNCHANGED session
           \/ Reply(c).status = "error" /\ Fail(c) /\ UNCHANGED session
           \/ /\ Reply(c).status = "srv" /\ Fail(c)
              /\ sessionId' = NoSession /\ UNCHANGED aesKey
     \/ /\ ~Decrypted(c)
        /\ Fail(c)
        /\ Reset
  /\ UNCHANGED <<remoteTransportPublicKey, authProcessing, sessionNonceCounter,
                 nextTransactionId, net, repeats>>

(* The answer to a user call that went out in plain. *)
PlainAnswered(c) ==
  /\ Waiting(c, "user")
  /\ call[c].aes = NoKey
  /\ Forget(call[c].tid)
  /\ Reply(c).type = "plain"
  /\ \/ Reply(c).status = "ok" /\ Return(c, "ok", Nobody) /\ UNCHANGED session
     \/ /\ Reply(c).status = "srv" /\ Fail(c)
        /\ sessionId' = NoSession /\ UNCHANGED aesKey
  /\ UNCHANGED <<remoteTransportPublicKey, authProcessing, sessionNonceCounter,
                 nextTransactionId, net, repeats>>

-----------------------------------------------------------------------------
(* setRemoteTransportPublicKey: the last answer to arrive is kept. *)
ReceivePublicKey(m) ==
  /\ m.type = "publicKey"
  /\ Exchange(m, {})
  /\ remoteTransportPublicKey' = m.key
  /\ UNCHANGED <<authProcessing, session, sessionNonceCounter, nextTransactionId,
                 outgoingTransactions, call>>

ReceiveResponseUnmatched(m) ==
  /\ m.type \in {"nonce", "session", "result", "plain"}
  /\ Exchange(m, {})
  /\ \E t \in DOMAIN outgoingTransactions :
       outgoingTransactions' = [outgoingTransactions EXCEPT ![t] = IF @ = Pending THEN m ELSE @]
  /\ UNCHANGED <<remoteTransportPublicKey, authProcessing, session, sessionNonceCounter,
                 nextTransactionId, call>>

(* processFrame11: a response is kept if its transaction is still waited   *)
(* for and had none before.                                                *)
ReceiveResponse(m) ==
  /\ m.type \in {"nonce", "session", "result", "plain"}
  /\ Exchange(m, {})
  /\ outgoingTransactions' =
       IF m.tid \in DOMAIN outgoingTransactions
       THEN [outgoingTransactions EXCEPT ![m.tid] = IF @ = Pending THEN m ELSE @]
       ELSE outgoingTransactions
  /\ UNCHANGED <<remoteTransportPublicKey, authProcessing, session, sessionNonceCounter,
                 nextTransactionId, call>>

CallStep(c) ==
  \/ StartCall(c)
  \/ KeyArrived(c)
  \/ KeyTimeout(c)
  \/ PassGate(c)
  \/ EnterAuth(c)
  \/ SetKey(c)
  \/ Seal(c)
  \/ SetSession(c)
  \/ CopyKey(c)
  \/ ReadSession(c)
  \/ Send(c)
  \/ Timeout(c)
  \/ NonceAnswered(c)
  \/ AuthAnswered(c)
  \/ EncryptedAnswered(c)
  \/ PlainAnswered(c)

ClientReceive(m) == ReceivePublicKey(m) \/ ReceiveResponse(m)
=============================================================================
