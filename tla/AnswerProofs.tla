---------------------------- MODULE AnswerProofs ----------------------------
(***************************************************************************)
(* Proofs that answers reach their own call, that the session a client     *)
(* holds was issued to it, and that the protocol implements RemoteCall;    *)
(* and, in the favourable surroundings of PromptSpec, that a success ran   *)
(* its callback and that a purge costs one call.  For any set of calls and *)
(* any bounds.                                                             *)
(***************************************************************************)
EXTENDS CallProofs, FiniteSetTheorems

(* What a frame that carries the transaction of waiting call c says of c.  *)
FrameOf(c, m) ==
  /\ m.type = "user" => m.call = c
  /\ m.type = "result" => m.call = c /\ executed[c] > 0
  /\ m.type = "getNonce" => m.sid = call[c].sid
  /\ m.type = "nonce" => call[c].sid = NoSession

Tagged(m) == m.type \in {"user", "result", "getNonce", "nonce", "auth", "session"}

(* No frame is ahead of the transaction ids, so a new transaction meets    *)
(* none; from then on, what carries a waiting call's id is about the call. *)
FramesBelong ==
  \A m \in net : Tagged(m) =>
    /\ m.tid < nextTransactionId
    /\ \A c \in Calls : call[c].pc = "wait" /\ call[c].tid = m.tid => FrameOf(c, m)

RepliesBelong == \A c \in Calls : call[c].pc = "wait" => FrameOf(c, Reply(c))

ResultsBelong ==
  \A c \in Calls : call[c].result # Nobody => call[c].result = c /\ executed[c] > 0

BelongInv == FramesBelong /\ RepliesBelong /\ ResultsBelong

(* Call c sends its frame under a new transaction id and waits for it.     *)
Sends(c) ==
  /\ net' = net \cup {CallFrame(c)}
  /\ nextTransactionId' = nextTransactionId + 1
  /\ call[c].pc = "send"
  /\ call'[c].tid = nextTransactionId
  /\ call'[c].sid = call[c].sid
  /\ call'[c].result = call[c].result
  /\ outgoingTransactions'[nextTransactionId] = Pending
  /\ \A t \in DOMAIN outgoingTransactions :
       t # nextTransactionId => outgoingTransactions'[t] = outgoingTransactions[t]

(* A step of call c other than Send: it adds no tagged frame, a call that  *)
(* waits waited before, for the same transaction.                          *)
Keeps(c) ==
  /\ nextTransactionId' = nextTransactionId
  /\ \A m \in net' : Tagged(m) => m \in net
  /\ call'[c].pc # "wait"
  /\ \A d \in Calls : d # c /\ call[d].pc = "wait" =>
       outgoingTransactions'[call[d].tid] = outgoingTransactions[call[d].tid]

LEMMA SendSends ==
  ASSUME ClientTypeOK, NEW c \in Calls, Send(c)
  PROVE  Sends(c)
BY DEF Send, Sends, Post, ClientTypeOK, CallState

LEMMA Returned ==
  ASSUME ClientTypeOK, NEW c \in Calls, NEW outcome, NEW result, Return(c, outcome, result)
  PROVE  call'[c].pc = "done" /\ call'[c].result = result /\ call'[c].outcome = outcome
BY DEF Return, IdleCall, ClientTypeOK

(* Each step of a call is one of three: it begins, it goes on inside, or it *)
(* ends with an answer.                                                    *)
Same(c) == call'[c].outcome = call[c].outcome /\ call'[c].result = call[c].result

Within(c) == call[c].pc \notin {"idle", "done"}

Begins(c) == call[c].pc = "idle" /\ Within(c)' /\ Same(c)

GoesOn(c) == Within(c) /\ Within(c)' /\ Same(c)

Ends(c, outcome, result) ==
  /\ Within(c)
  /\ call'[c].pc = "done" /\ call'[c].outcome = outcome /\ call'[c].result = result

LEMMA LocalSame ==
  ASSUME ClientTypeOK, NEW c \in Calls, NEW pc, NEW phase, StepLocal(c, pc, phase),
         pc \notin {"idle", "done"}
  PROVE  Within(c)' /\ Same(c) /\ call'[c].pc = pc
BY StepLocalMoves DEF Within, Same, Moves

LEMMA FailEnds ==
  ASSUME ClientTypeOK, NEW c \in Calls, Within(c), Fail(c)
  PROVE  Ends(c, "error", Nobody)
BY Returned DEF Fail, Ends

LEMMA StepOfCall ==
  ASSUME ClientInv, NEW c \in Calls, CallStep(c)
  PROVE  \/ Begins(c)
         \/ GoesOn(c)
         \/ Ends(c, "error", Nobody)
         \/ Ends(c, "ok", Nobody)
         \/ /\ call[c].pc = "wait" /\ Reply(c).type = "result"
            /\ Ends(c, "ok", Reply(c).call)
PROOF
<1>1. ClientTypeOK
  BY DEF ClientInv
<1>2. CASE StartCall(c)
  BY <1>1, <1>2, StartCallLocal, LocalSame DEF StartCall, Begins
<1>3. Within(c) \/ StartCall(c)
  BY DEF CallStep, KeyArrived, KeyTimeout, PassGate, EnterAuth, SetKey, Seal, SetSession,
         CopyKey, ReadSession, Send, Timeout, NonceAnswered, AuthAnswered, EncryptedAnswered,
         PlainAnswered, Waiting, Within
<1>4. ASSUME Within(c), NEW pc \in Places \ {"idle", "done"},
             NEW phase \in {"nonce", "auth", "user"}, At(c, pc, phase)
      PROVE  GoesOn(c)
  BY <1>1, <1>4, AtLocal, LocalSame DEF GoesOn
<1>5. ASSUME Within(c), NEW pc, pc \notin {"idle", "done"}, NEW phase, StepLocal(c, pc, phase)
      PROVE  GoesOn(c)
  BY <1>1, <1>5, LocalSame DEF GoesOn
<1>6. ASSUME Within(c), Fail(c) PROVE Ends(c, "error", Nobody)
  BY <1>1, <1>6, FailEnds
<1>7. CASE Within(c) /\ (KeyArrived(c) \/ PassGate(c) \/ SetKey(c) \/ SetSession(c))
  BY <1>4, <1>7 DEF KeyArrived, PassGate, SetKey, SetSession, Places
<1>8. CASE Within(c) /\ (EnterAuth(c) \/ KeyTimeout(c))
  BY <1>4, <1>6, <1>8 DEF EnterAuth, KeyTimeout, Places
<1>9. CASE Within(c) /\ Seal(c)
  <2>1. CASE aesKey = NoKey
    BY <1>6, <1>9, <2>1 DEF Seal, FailAuth
  <2>2. CASE aesKey # NoKey
    BY <1>1, <1>5, <1>9, <2>2, SealLocal
  <2> QED
    BY <2>1, <2>2
<1>10. CASE Within(c) /\ (CopyKey(c) \/ ReadSession(c) \/ Send(c))
  BY <1>1, <1>5, <1>10, CopyKeyLocal, ReadSessionLocal, SendLocal
<1>11. CASE Within(c) /\ Timeout(c)
  BY <1>6, <1>11 DEF Timeout, FailAuth
<1>12. CASE Within(c) /\ NonceAnswered(c)
  BY <1>5, <1>6, <1>12, NonceLocal DEF NonceAnswered, FailAuth
<1>13. CASE Within(c) /\ AuthAnswered(c)
  BY <1>5, <1>6, <1>13, AuthLocal DEF AuthAnswered, FailAuth
<1>14. CASE Within(c) /\ EncryptedAnswered(c)
  BY <1>1, <1>6, <1>14, Returned DEF EncryptedAnswered, Decrypted, Waiting, Ends
<1>15. CASE Within(c) /\ PlainAnswered(c)
  BY <1>1, <1>6, <1>15, Returned DEF PlainAnswered, Ends
<1> QED
  <2>1. CASE StartCall(c)
    BY <1>2, <2>1
  <2>2. CASE ~StartCall(c)
    <3>1. Within(c)
      BY <1>3, <2>2
    <3> QED
      BY <2>2, <3>1, <1>7, <1>8, <1>9, <1>10, <1>11, <1>12, <1>13, <1>14, <1>15 DEF CallStep
  <2> QED
    BY <2>1, <2>2

LEMMA DoesNotWait ==
  ASSUME ClientInv, NEW c \in Calls, CallStep(c), ~Send(c)
  PROVE  call'[c].pc # "wait"
PROOF
<1>1. ClientTypeOK
  BY DEF ClientInv
<1>2. ASSUME NEW pc, pc # "wait", NEW phase, StepLocal(c, pc, phase) PROVE call'[c].pc # "wait"
  BY <1>1, <1>2, StepLocalMoves DEF Moves
<1>3. ASSUME NEW outcome, NEW result, Return(c, outcome, result) PROVE call'[c].pc # "wait"
  BY <1>1, <1>3, Returned
<1>4. ASSUME NEW pc \in Places \ {"wait"}, NEW phase \in {"nonce", "auth", "user"}, At(c, pc, phase)
      PROVE  call'[c].pc # "wait"
  BY <1>1, <1>2, <1>4, AtLocal
<1>5. CASE StartCall(c) \/ CopyKey(c) \/ ReadSession(c)
  BY <1>1, <1>2, <1>5, StartCallLocal, CopyKeyLocal, ReadSessionLocal
<1>6. CASE KeyArrived(c) \/ PassGate(c) \/ SetKey(c) \/ SetSession(c)
  BY <1>4, <1>6 DEF KeyArrived, PassGate, SetKey, SetSession, Places
<1>7. CASE EnterAuth(c) \/ KeyTimeout(c)
  BY <1>3, <1>4, <1>7 DEF EnterAuth, KeyTimeout, Fail, Places
<1>8. CASE Seal(c)
  BY <1>1, <1>2, <1>3, <1>8, SealLocal DEF Seal, FailAuth, Fail
<1>9. CASE Timeout(c) \/ EncryptedAnswered(c) \/ PlainAnswered(c)
  BY <1>3, <1>9 DEF Timeout, EncryptedAnswered, PlainAnswered, FailAuth, Fail
<1>10. CASE NonceAnswered(c)
  BY <1>2, <1>3, <1>10, NonceLocal DEF NonceAnswered, FailAuth, Fail
<1>11. CASE AuthAnswered(c)
  BY <1>2, <1>3, <1>11, AuthLocal DEF AuthAnswered, FailAuth, Fail
<1> QED
  BY <1>5, <1>6, <1>7, <1>8, <1>9, <1>10, <1>11 DEF CallStep

LEMMA OthersKeep ==
  ASSUME ClientInv, NEW c \in Calls, CallStep(c), ~Send(c)
  PROVE  Keeps(c)
PROOF
<1>1. \/ UNCHANGED outgoingTransactions
      \/ call[c].pc = "wait" /\ Forget(call[c].tid)
  BY DEF CallStep, StartCall, KeyArrived, KeyTimeout, PassGate, EnterAuth, SetKey, Seal, SetSession,
         CopyKey, ReadSession, Timeout, NonceAnswered, AuthAnswered, EncryptedAnswered,
         PlainAnswered, Waiting
<1>2. nextTransactionId' = nextTransactionId /\ (\A m \in net' : Tagged(m) => m \in net)
  <2>1. CASE StartCall(c)
    BY <2>1 DEF StartCall, Post, GetKey, Tagged
  <2>2. CASE ~StartCall(c)
    BY <2>2 DEF CallStep, KeyArrived, KeyTimeout, PassGate, EnterAuth, SetKey, Seal, SetSession,
         CopyKey, ReadSession, Timeout, NonceAnswered, AuthAnswered, EncryptedAnswered,
         PlainAnswered
  <2> QED
    BY <2>1, <2>2
<1>3. call'[c].pc # "wait"
  BY DoesNotWait
<1>4. ASSUME NEW d \in Calls, d # c, call[d].pc = "wait"
      PROVE  outgoingTransactions'[call[d].tid] = outgoingTransactions[call[d].tid]
  <2>1. CASE call[c].pc = "wait" /\ Forget(call[c].tid)
    <3>1. call[d].tid # call[c].tid /\ call[d].tid \in DOMAIN outgoingTransactions
      BY <1>4, <2>1 DEF ClientInv, TransactionInv, OutgoingExact
    <3> QED
      BY <2>1, <3>1 DEF Forget
  <2> QED
    BY <1>1, <2>1
<1> QED
  BY <1>2, <1>3, <1>4 DEF Keeps

(* What a call returns is the value of the answer it waited for. *)
LEMMA ResultOfStep ==
  ASSUME ClientInv, NEW c \in Calls, CallStep(c)
  PROVE  \/ call'[c].result = call[c].result
         \/ call'[c].result = Nobody
         \/ /\ call[c].pc = "wait" /\ Reply(c).type = "result"
            /\ call'[c].result = Reply(c).call
BY StepOfCall DEF Begins, GoesOn, Ends, Same

LEMMA CallStepBelong ==
  ASSUME TypeInv, BelongInv, NEW c \in Calls, CallStep(c), UNCHANGED serverVars
  PROVE  BelongInv'
PROOF
<1> USE DEF TypeInv, BelongInv
<1>1. \A d \in Calls : d # c => call'[d] = call[d]
  BY OthersStay DEF ClientInv
<1>2. UNCHANGED executed
  BY DEF serverVars
<1>3. ResultsBelong'
  BY <1>1, <1>2, ResultOfStep DEF ResultsBelong, RepliesBelong, FrameOf
<1>4. CASE Send(c)
  <2>1. Sends(c)
    BY <1>4, SendSends DEF ClientInv
  <2>2. \A d \in Calls : call[d].pc = "wait" =>
          /\ d # c
          /\ call[d].tid < nextTransactionId
          /\ call[d].tid \in Nat
          /\ call[d].tid \in DOMAIN outgoingTransactions
    BY <2>1 DEF Sends, ClientInv, TransactionInv, WaitersOld, OutgoingExact, ClientTypeOK,
                CallState, Id
  <2>3. nextTransactionId \in Nat /\ nextTransactionId' = nextTransactionId + 1
    BY <2>1 DEF Sends, ClientInv, ClientTypeOK
  <2>4. /\ Tagged(CallFrame(c)) => CallFrame(c).tid = nextTransactionId
        /\ CallFrame(c).type = "user" => CallFrame(c).call = c
        /\ CallFrame(c).type = "getNonce" => CallFrame(c).sid = call[c].sid
        /\ CallFrame(c).type \notin {"result", "nonce", "session"}
    BY DEF CallFrame, Tagged, ClientInv, ClientTypeOK, CallState
  <2>5. \A m \in net : Tagged(m) => m.tid \in Nat
    BY FrameShape DEF Tagged, ClientInv, FramesTypeOK, Id
  <2>6. FramesBelong'
    <3> SUFFICES ASSUME NEW m \in net', Tagged(m)
                 PROVE  /\ m.tid < nextTransactionId'
                        /\ \A d \in Calls : call'[d].pc = "wait" /\ call'[d].tid = m.tid =>
                             FrameOf(d, m)'
      BY DEF FramesBelong, Tagged
    <3>1. CASE m \in net
      <4>1. m.tid < nextTransactionId /\ m.tid \in Nat
        BY <2>5, <3>1 DEF FramesBelong
      <4>2. ASSUME NEW d \in Calls, call'[d].pc = "wait", call'[d].tid = m.tid
            PROVE  FrameOf(d, m)'
        <5>1. d # c
          BY <2>1, <2>3, <4>1, <4>2 DEF Sends
        <5>2. call'[d] = call[d]
          BY <1>1, <5>1
        <5>3. FrameOf(d, m)
          BY <3>1, <4>2, <5>2 DEF FramesBelong
        <5> QED
          BY <1>2, <5>2, <5>3 DEF FrameOf
      <4> QED
        BY <2>3, <4>1, <4>2
    <3>2. CASE m = CallFrame(c)
      <4>1. ASSUME NEW d \in Calls, call'[d].pc = "wait", call'[d].tid = m.tid
            PROVE  FrameOf(d, m)'
        <5>1. d = c
          BY <1>1, <2>2, <2>3, <2>4, <3>2, <4>1
        <5> QED
          BY <2>1, <2>4, <3>2, <5>1 DEF FrameOf, Sends
      <4> QED
        BY <2>3, <2>4, <3>2, <4>1
    <3> QED
      BY <2>1, <3>1, <3>2 DEF Sends
  <2>7. RepliesBelong'
    <3> SUFFICES ASSUME NEW d \in Calls, call'[d].pc = "wait"
                 PROVE  FrameOf(d, Reply(d))'
      BY DEF RepliesBelong
    <3>1. CASE d = c
      BY <2>1, <3>1 DEF Sends, Reply, FrameOf, Pending
    <3>2. CASE d # c
      <4>1. call'[d] = call[d]
        BY <1>1, <3>2
      <4>2. Reply(d)' = Reply(d)
        BY <2>1, <2>2, <2>3, <4>1 DEF Sends, Reply
      <4>3. FrameOf(d, Reply(d))
        BY <4>1 DEF RepliesBelong
      <4> QED
        BY <1>2, <4>1, <4>2, <4>3 DEF FrameOf
    <3> QED
      BY <3>1, <3>2
  <2> QED
    BY <1>3, <2>6, <2>7
<1>5. CASE ~Send(c)
  <2>1. Keeps(c)
    BY <1>5, OthersKeep
  <2>2. FramesBelong'
    BY <1>1, <1>2, <2>1 DEF FramesBelong, FrameOf, Keeps, Tagged
  <2>3. ASSUME NEW d \in Calls, call'[d].pc = "wait" PROVE FrameOf(d, Reply(d))'
    <3>1. d # c /\ call'[d] = call[d]
      BY <1>1, <2>1, <2>3 DEF Keeps
    <3>2. Reply(d)' = Reply(d) /\ FrameOf(d, Reply(d))
      BY <2>1, <2>3, <3>1 DEF Keeps, Reply, RepliesBelong
    <3> QED
      BY <1>2, <3>1, <3>2 DEF FrameOf
  <2> QED
    BY <1>3, <2>2, <2>3 DEF RepliesBelong
<1> QED
  BY <1>4, <1>5

(* The server answers a frame under its own transaction. *)
Answers(m, n) ==
  /\ n \in net
  /\ m.tid = n.tid
  /\ \/ /\ m.type = "result" /\ n.type = "user"
        /\ m.call = n.call /\ executed'[m.call] > 0
     \/ m.type = "nonce" /\ n.type = "getNonce" /\ n.sid = NoSession
     \/ m.type = "session" /\ n.type = "auth"

LEMMA ServerBelong ==
  ASSUME TypeInv, BelongInv, UNCHANGED clientVars,
         \A c \in Calls : executed[c] > 0 => executed'[c] > 0,
         \A m \in net' : Tagged(m) => m \in net \/ \E n \in net : Answers(m, n)
  PROVE  BelongInv'
PROOF
<1> USE DEF BelongInv
<1>1. UNCHANGED <<call, nextTransactionId, outgoingTransactions>>
  BY DEF clientVars
<1>2. ResultsBelong'
  BY <1>1 DEF ResultsBelong
<1>3. RepliesBelong'
  BY <1>1 DEF RepliesBelong, FrameOf, Reply
<1>4. ASSUME NEW m \in net', Tagged(m), m \in net
      PROVE  /\ m.tid < nextTransactionId'
             /\ \A c \in Calls : call'[c].pc = "wait" /\ call'[c].tid = m.tid => FrameOf(c, m)'
  BY <1>1, <1>4 DEF FramesBelong, FrameOf
<1>5. ASSUME NEW m \in net', Tagged(m), NEW n \in net, Answers(m, n)
      PROVE  /\ m.tid < nextTransactionId'
             /\ \A c \in Calls : call'[c].pc = "wait" /\ call'[c].tid = m.tid => FrameOf(c, m)'
  BY <1>1, <1>5 DEF FramesBelong, FrameOf, Answers, Tagged
<1>6. FramesBelong'
  BY <1>4, <1>5 DEF FramesBelong, Tagged
<1> QED
  BY <1>2, <1>3, <1>6

LEMMA ServerHandleBelong ==
  ASSUME TypeInv, BelongInv, NEW n \in net, ServerHandle(n), UNCHANGED clientVars
  PROVE  BelongInv'
PROOF
<1>1. ASSUME UNCHANGED executed, \A m \in net' : Tagged(m) => m \in net
      PROVE  BelongInv'
  BY <1>1, ServerBelong
<1>2. CASE SendPublicKey(n)
  BY <1>1, <1>2 DEF SendPublicKey, Exchange, Tagged, serverVars
<1>3. CASE RefuseSession(n) \/ SessionlessUserCall(n)
  BY <1>1, <1>3 DEF RefuseSession, SessionlessUserCall, Plain, Exchange, Tagged, serverVars
<1>4. CASE AuthIgnored(n) \/ AuthRejected(n)
  BY <1>1, <1>4 DEF AuthIgnored, AuthRejected, Exchange, serverVars
<1>5. CASE AuthAccepted(n)
  <2>1. UNCHANGED executed
    BY <1>5 DEF AuthAccepted
  <2>2. \A m \in net' : m \in net \/ Answers(m, n)
    BY <1>5 DEF AuthAccepted, AuthPresented, Exchange, Answers
  <2> QED
    BY <2>1, <2>2, ServerBelong
<1>6. CASE GetNonce(n)
  <2>1. UNCHANGED executed
    BY <1>6 DEF GetNonce
  <2>2. \A m \in net' : m \in net \/ Answers(m, n)
    BY <1>6 DEF GetNonce, Exchange, Answers
  <2> QED
    BY <2>1, <2>2, ServerBelong
<1>7. CASE SessionCall(n)
  <2> DEFINE s == sessionsById[n.sid]
  <2>1. n.call \in Calls /\ n.type = "user" /\ executed \in [Calls -> Nat]
    BY <1>7, FrameShape DEF SessionCall, TypeInv, ClientInv, FramesTypeOK, ServerTypeOK
  <2>2. CASE ~Accepts(s.snakeCounter, n.counter)
    BY <1>1, <1>7, <2>2 DEF SessionCall, Exchange
  <2>3. CASE Accepts(s.snakeCounter, n.counter)
    <3>1. executed' = [executed EXCEPT ![n.call] = executed[n.call] + 1]
      BY <1>7, <2>3 DEF SessionCall
    <3>2. \A c \in Calls : executed[c] > 0 => executed'[c] > 0
      BY <2>1, <3>1
    <3>3. executed'[n.call] > 0
      BY <2>1, <3>1
    <3>4. PICK status \in CallbackResults :
            Exchange(n, {[type |-> "result", tid |-> n.tid, key |-> s.aesKey,
                          status |-> status, call |-> n.call]})
      BY <1>7, <2>3 DEF SessionCall
    <3>5. \A m \in net' : m \in net \/ Answers(m, n)
      BY <2>1, <3>3, <3>4 DEF Exchange, Answers
    <3> QED
      BY <3>2, <3>5, ServerBelong
  <2> QED
    BY <2>2, <2>3
<1> QED
  BY <1>2, <1>3, <1>4, <1>5, <1>6, <1>7 DEF ServerHandle

LEMMA ClientReceiveBelong ==
  ASSUME TypeInv, BelongInv, NEW m \in net, ClientReceive(m), UNCHANGED serverVars
  PROVE  BelongInv'
PROOF
<1> USE DEF BelongInv
<1>1. UNCHANGED <<call, nextTransactionId, executed>> /\ net' \subseteq net
  BY DEF ClientReceive, ReceivePublicKey, ReceiveResponse, Exchange, serverVars
<1>2. FramesBelong' /\ ResultsBelong'
  BY <1>1 DEF FramesBelong, ResultsBelong, FrameOf
<1>3. ASSUME NEW c \in Calls, call[c].pc = "wait" PROVE FrameOf(c, Reply(c))'
  <2>1. call[c].tid \in DOMAIN outgoingTransactions
    BY <1>3 DEF TypeInv, ClientInv, TransactionInv, OutgoingExact
  <2>2. CASE Reply(c)' = Reply(c)
    BY <1>1, <1>3, <2>2 DEF RepliesBelong, FrameOf
  <2>3. CASE Reply(c)' # Reply(c)
    <3>1. Reply(c)' = m /\ m.tid = call[c].tid
      BY <1>1, <2>1, <2>3 DEF ClientReceive, ReceivePublicKey, ReceiveResponse, Reply
    <3>2. Tagged(m) => FrameOf(c, m)
      BY <1>3, <3>1 DEF FramesBelong
    <3>3. FrameOf(c, m)
      BY <3>2 DEF Tagged, FrameOf
    <3> QED
      BY <1>1, <3>1, <3>3 DEF FrameOf
  <2> QED
    BY <2>2, <2>3
<1> QED
  BY <1>1, <1>2, <1>3 DEF RepliesBelong

LEMMA BelongInvStep == TypeInv /\ BelongInv /\ [Next]_vars => BelongInv'
PROOF
<1> SUFFICES ASSUME TypeInv, BelongInv, [Next]_vars PROVE BelongInv'
  OBVIOUS
<1>1. ASSUME NEW sid \in DOMAIN sessionsById, PurgeSession(sid), UNCHANGED clientVars
      PROVE  BelongInv'
  BY <1>1, ServerBelong DEF PurgeSession
<1>2. ASSUME RestartServer, UNCHANGED clientVars PROVE BelongInv'
  BY <1>2, ServerBelong DEF RestartServer
<1>3. CASE UNCHANGED vars
  BY <1>3, ServerBelong DEF vars, serverVars
<1> QED
  BY <1>1, <1>2, <1>3, CallStepBelong, ClientReceiveBelong, ServerHandleBelong
     DEF Next, ServerNext

LEMMA BelongInvInit == Init => BelongInv
PROOF
<1> SUFFICES ASSUME Init PROVE BelongInv
  OBVIOUS
<1>1. net = {} /\ \A c \in Calls : call[c].pc = "idle" /\ call[c].result = Nobody
  BY DEF Init, ClientInit, IdleCall
<1> QED
  BY <1>1 DEF BelongInv, FramesBelong, RepliesBelong, ResultsBelong

(* A result that a call returns is that of its own callback, which ran     *)
(* once (executeTransaction, processFrame11): whatever is late, repeated   *)
(* or answered to a call that gave up reaches no other call.               *)
THEOREM ResultIsOwn == Spec => []OwnResult
PROOF
<1>1. TypeInv /\ BelongInv /\ ExecInv => OwnResult
  <2> SUFFICES ASSUME TypeInv, BelongInv, ExecInv, NEW c \in Calls, call[c].result # Nobody
               PROVE  call[c].result = c /\ executed[c] = 1
    BY DEF OwnResult
  <2>1. executed[c] \in Nat /\ executed[c] > 0 /\ executed[c] <= 1
    BY DEF BelongInv, ResultsBelong, ExecInv, ExecutedAtMostOnce, TypeInv, ServerTypeOK
  <2> QED
    BY <2>1 DEF BelongInv, ResultsBelong
<1>2. Spec => []ExecInv
  BY TypeInvAlways, ExecInvInit, ExecInvStep, PTL DEF Spec
<1>3. Spec => []BelongInv
  BY TypeInvAlways, BelongInvInit, BelongInvStep, PTL DEF Spec
<1> QED
  BY <1>1, <1>2, <1>3, TypeInvAlways, PTL

-----------------------------------------------------------------------------
(* Why key and session id stay together.  From the moment a call inside    *)
(* auth has read that there is no session, to the moment it sets its own,  *)
(* there is none: only the way out of auth sets one, and auth is           *)
(* exclusive.  A nonce is only given to a call that read so, hence SetKey  *)
(* never replaces the key of a session.  When the session id is set, the   *)
(* key is still the one that decrypted it, or none.                        *)
PastNonce(c) ==
  \/ call[c].phase = "nonce" /\ call[c].pc \in {"send", "wait"} /\ call[c].sid = NoSession
  \/ call[c].phase = "auth" /\ call[c].pc \in {"readSession", "send", "wait"}
  \/ call[c].pc \in {"setKey", "seal", "setSession"}

Issued(key, sid) == \E o \in opened : o.key = key /\ o.sid = sid

FramesIssued == \A m \in net : m.type = "session" => Issued(m.key, m.sid)

RepliesIssued ==
  \A c \in Calls : call[c].pc = "wait" /\ Reply(c).type = "session" =>
    Issued(Reply(c).key, Reply(c).sid)

NoSessionInAuth == \A c \in Calls : PastNonce(c) => sessionId = NoSession

GrantedIssued ==
  \A c \in Calls : call[c].pc = "setSession" => aesKey = NoKey \/ Issued(aesKey, call[c].granted)

SessionInv ==
  /\ FramesIssued
  /\ RepliesIssued
  /\ NoSessionInAuth
  /\ GrantedIssued
  /\ SessionMatchesKey

(* What a step of a call does to the session. *)
LeavesSession(c) ==
  /\ UNCHANGED <<aesKey, sessionId>>
  /\ PastNonce(c)' => PastNonce(c) \/ sessionId = NoSession
  /\ call'[c].pc = "setSession" =>
       /\ call[c].pc = "wait" /\ Reply(c).type = "session"
       /\ Reply(c).key = aesKey /\ call'[c].granted = Reply(c).sid

DropsSession(c) ==
  /\ sessionId' = NoSession
  /\ aesKey' \in {aesKey, NoKey}
  /\ call'[c].pc # "setSession"

LEMMA AtSets ==
  ASSUME ClientTypeOK, NEW c \in Calls, NEW pc, NEW phase, At(c, pc, phase)
  PROVE  call'[c].pc = pc /\ call'[c].phase = phase /\ call'[c].sid = call[c].sid
BY DEF At, ClientTypeOK, CallState

LEMMA SessionOfStep ==
  ASSUME ClientInv, BelongInv, NEW c \in Calls, CallStep(c), ~SetKey(c), ~SetSession(c)
  PROVE  LeavesSession(c) \/ DropsSession(c)
PROOF
<1> USE DEF ClientInv, ClientTypeOK, CallState
<1>1. CASE StartCall(c)
  BY <1>1 DEF StartCall, LeavesSession, PastNonce, session
<1>2. CASE KeyArrived(c) \/ PassGate(c)
  BY <1>2, AtSets DEF KeyArrived, PassGate, LeavesSession, PastNonce, session
<1>3. CASE KeyTimeout(c)
  BY <1>3, Returned DEF KeyTimeout, Fail, LeavesSession, PastNonce, session
<1>4. CASE EnterAuth(c)
  <2>1. CASE authProcessing
    BY <1>4, <2>1, Returned DEF EnterAuth, Fail, LeavesSession, PastNonce, session
  <2>2. CASE ~authProcessing
    BY <1>4, <2>2, AtSets DEF EnterAuth, LeavesSession, PastNonce, session
  <2> QED
    BY <2>1, <2>2
<1>5. CASE Seal(c)
  <2>1. CASE aesKey = NoKey
    BY <1>5, <2>1, Returned DEF Seal, FailAuth, Fail, LeavesSession, PastNonce, session
  <2>2. CASE aesKey # NoKey
    BY <1>5, <2>2 DEF Seal, LeavesSession, PastNonce, session
  <2> QED
    BY <2>1, <2>2
<1>6. CASE CopyKey(c) \/ ReadSession(c)
  <2>1. CASE CopyKey(c)
    BY <2>1 DEF CopyKey, LeavesSession, PastNonce, session
  <2>2. CASE ReadSession(c)
    <3>1. /\ call'[c].pc = "send" /\ call'[c].phase = call[c].phase
          /\ call'[c].sid = sessionId /\ call[c].pc = "readSession"
      BY <2>2 DEF ReadSession
    <3> QED
      BY <2>2, <3>1 DEF ReadSession, LeavesSession, PastNonce, session
  <2> QED
    BY <1>6, <2>1, <2>2
<1>7. CASE Send(c)
  BY <1>7 DEF Send, LeavesSession, PastNonce, session
<1>8. CASE Timeout(c)
  <2>1. call'[c].pc = "done"
    BY <1>8, Returned DEF Timeout, FailAuth, Fail
  <2>2. UNCHANGED session \/ Reset
    BY <1>8 DEF Timeout
  <2> QED
    BY <2>1, <2>2 DEF Reset, LeavesSession, DropsSession, PastNonce, session
<1>9. CASE NonceAnswered(c)
  <2>1. CASE FailAuth(c) /\ sessionId' = NoSession /\ UNCHANGED aesKey
    BY <2>1, Returned DEF FailAuth, Fail, DropsSession
  <2>2. CASE /\ Reply(c).type = "nonce" /\ UNCHANGED session
             /\ call' = [call EXCEPT ![c] = [@ EXCEPT !.pc = "setKey", !.nonce = Reply(c).nonce]]
    <3>1. call[c].pc = "wait" /\ call[c].phase = "nonce" /\ call[c].sid = NoSession
      BY <1>9, <2>2 DEF NonceAnswered, Waiting, BelongInv, RepliesBelong, FrameOf
    <3>2. call'[c].pc = "setKey"
      BY <2>2
    <3> QED
      BY <2>2, <3>1, <3>2 DEF LeavesSession, PastNonce, session
  <2> QED
    BY <1>9, <2>1, <2>2 DEF NonceAnswered
<1>10. CASE AuthAnswered(c)
  <2>1. CASE FailAuth(c) /\ UNCHANGED session
    BY <2>1, Returned DEF FailAuth, Fail, LeavesSession, PastNonce, session
  <2>2. CASE FailAuth(c) /\ sessionId' = NoSession /\ UNCHANGED aesKey
    BY <2>2, Returned DEF FailAuth, Fail, DropsSession
  <2>3. CASE /\ Reply(c).type = "session" /\ Reply(c).key = aesKey /\ UNCHANGED session
             /\ call' = [call EXCEPT ![c] = [@ EXCEPT !.pc = "setSession", !.granted = Reply(c).sid]]
    <3>1. call[c].pc = "wait" /\ call[c].phase = "auth"
      BY <1>10 DEF AuthAnswered, Waiting
    <3>2. call'[c].pc = "setSession" /\ call'[c].granted = Reply(c).sid
      BY <2>3
    <3> QED
      BY <2>3, <3>1, <3>2 DEF LeavesSession, PastNonce, session
  <2> QED
    BY <1>10, <2>1, <2>2, <2>3 DEF AuthAnswered
<1>11. CASE EncryptedAnswered(c) \/ PlainAnswered(c)
  <2>1. call'[c].pc = "done"
    BY <1>11, Returned DEF EncryptedAnswered, PlainAnswered, Fail
  <2>2. UNCHANGED session \/ Reset \/ (sessionId' = NoSession /\ UNCHANGED aesKey)
    BY <1>11 DEF EncryptedAnswered, PlainAnswered
  <2> QED
    BY <2>1, <2>2 DEF Reset, LeavesSession, DropsSession, PastNonce, session
<1> QED
  BY <1>1, <1>2, <1>3, <1>4, <1>5, <1>6, <1>7, <1>8, <1>9, <1>10, <1>11 DEF CallStep

LEMMA CallStepSession ==
  ASSUME TypeInv, BelongInv, SessionInv, NEW c \in Calls, CallStep(c), UNCHANGED serverVars
  PROVE  SessionInv'
PROOF
<1> USE DEF TypeInv, SessionInv
<1>1. \A d \in Calls : d # c => call'[d] = call[d]
  BY OthersStay DEF ClientInv
<1>2. UNCHANGED opened
  BY DEF serverVars
<1>3. \A m \in net' : m.type = "session" => m \in net
  <2>1. CallFrame(c).type # "session"
    BY DEF CallFrame, ClientInv, ClientTypeOK, CallState
  <2> QED
    BY <2>1, SendSends, OthersKeep DEF Sends, Keeps, Tagged, ClientInv
<1>4. FramesIssued'
  BY <1>2, <1>3 DEF FramesIssued, Issued
<1>5. ASSUME NEW d \in Calls, call'[d].pc = "wait", Reply(d)'.type = "session"
      PROVE  call[d].pc = "wait" /\ Reply(d)' = Reply(d)
  <2>1. CASE Send(c)
    <3>1. Sends(c)
      BY <2>1, SendSends DEF ClientInv
    <3>2. d # c
      BY <1>5, <3>1 DEF Sends, Reply, Pending
    <3>3. call'[d] = call[d]
      BY <1>1, <3>2
    <3>4. call[d].tid \in DOMAIN outgoingTransactions /\ call[d].tid < nextTransactionId
      BY <1>5, <3>3 DEF ClientInv, TransactionInv, OutgoingExact, WaitersOld
    <3>5. call[d].tid # nextTransactionId
      BY <3>4 DEF ClientInv, ClientTypeOK
    <3> QED
      BY <1>5, <3>1, <3>3, <3>4, <3>5 DEF Sends, Reply
  <2>2. CASE ~Send(c)
    <3>1. Keeps(c)
      BY <2>2, OthersKeep
    <3>2. d # c /\ call'[d] = call[d]
      BY <1>1, <1>5, <3>1 DEF Keeps
    <3> QED
      BY <1>5, <3>1, <3>2 DEF Keeps, Reply
  <2> QED
    BY <2>1, <2>2
<1>6. RepliesIssued'
  BY <1>2, <1>5 DEF RepliesIssued, Issued
<1>7. CASE LeavesSession(c)
  <2>1. NoSessionInAuth'
    BY <1>1, <1>7 DEF LeavesSession, NoSessionInAuth, PastNonce
  <2>2. ASSUME NEW d \in Calls, call'[d].pc = "setSession"
        PROVE  aesKey' = NoKey \/ Issued(aesKey, call[d].granted)'
    <3>1. CASE d = c
      BY <1>2, <1>7, <2>2, <3>1 DEF LeavesSession, RepliesIssued, Issued
    <3>2. CASE d # c
      BY <1>1, <1>2, <1>7, <2>2, <3>2 DEF LeavesSession, GrantedIssued, Issued
    <3> QED
      BY <3>1, <3>2
  <2>3. SessionMatchesKey'
    BY <1>2, <1>7 DEF LeavesSession, SessionMatchesKey
  <2> QED
    BY <1>4, <1>6, <2>1, <2>2, <2>3 DEF GrantedIssued
<1>8. CASE DropsSession(c)
  <2>1. NoSessionInAuth' /\ SessionMatchesKey'
    BY <1>8 DEF DropsSession, NoSessionInAuth, SessionMatchesKey
  <2>2. GrantedIssued'
    BY <1>1, <1>2, <1>8 DEF DropsSession, GrantedIssued, Issued
  <2> QED
    BY <1>4, <1>6, <2>1, <2>2
<1>9. CASE SetKey(c)
  <2>1. sessionId = NoSession /\ sessionId' = sessionId /\ call[c].pc = "setKey"
    BY <1>9 DEF SetKey, NoSessionInAuth, PastNonce
  <2>2. call'[c].pc = "seal"
    BY <1>9 DEF SetKey, At, ClientInv, ClientTypeOK, CallState
  <2>3. \A d \in Calls : call'[d].pc # "setSession"
    BY <1>1, <2>1, <2>2 DEF ClientInv, AuthExclusive, InAuth
  <2>4. NoSessionInAuth' /\ SessionMatchesKey' /\ GrantedIssued'
    BY <2>1, <2>3 DEF NoSessionInAuth, SessionMatchesKey, GrantedIssued
  <2> QED
    BY <1>4, <1>6, <2>4
<1>10. CASE SetSession(c)
  <2>1. call[c].pc = "setSession" /\ sessionId' = call[c].granted /\ aesKey' = aesKey
    BY <1>10 DEF SetSession
  <2>2. call'[c].pc = "copyKey"
    BY <1>10 DEF SetSession, At, ClientInv, ClientTypeOK, CallState
  <2>3. \A d \in Calls : d # c => ~InAuth(d)
    BY <2>1 DEF ClientInv, AuthExclusive, InAuth
  <2>4. \A d \in Calls : ~PastNonce(d)'
    BY <1>1, <2>2, <2>3 DEF PastNonce, InAuth
  <2>5. NoSessionInAuth' /\ GrantedIssued'
    BY <2>4 DEF NoSessionInAuth, GrantedIssued, PastNonce
  <2>6. SessionMatchesKey'
    BY <1>2, <2>1 DEF GrantedIssued, SessionMatchesKey, Issued
  <2> QED
    BY <1>4, <1>6, <2>5, <2>6
<1> QED
  BY <1>7, <1>8, <1>9, <1>10, SessionOfStep

LEMMA SessionStays ==
  ASSUME SessionInv, UNCHANGED <<call, aesKey, sessionId>>, opened \subseteq opened',
         FramesIssued', RepliesIssued'
  PROVE  SessionInv'
BY DEF SessionInv, NoSessionInAuth, PastNonce, GrantedIssued, Issued, SessionMatchesKey

LEMMA ServerSession ==
  ASSUME SessionInv, UNCHANGED clientVars, opened \subseteq opened',
         \A m \in net' : m.type = "session" => m \in net \/ Issued(m.key, m.sid)'
  PROVE  SessionInv'
PROOF
<1>1. UNCHANGED <<call, aesKey, sessionId, outgoingTransactions>>
  BY DEF clientVars, session
<1>2. FramesIssued'
  BY DEF SessionInv, FramesIssued, Issued
<1>3. RepliesIssued'
  BY <1>1 DEF SessionInv, RepliesIssued, Issued, Reply
<1> QED
  BY <1>1, <1>2, <1>3, SessionStays

LEMMA ServerHandleSession ==
  ASSUME SessionInv, NEW n \in net, ServerHandle(n), UNCHANGED clientVars
  PROVE  SessionInv'
PROOF
<1>1. ASSUME UNCHANGED opened, \A m \in net' : m.type = "session" => m \in net
      PROVE  SessionInv'
  BY <1>1, ServerSession
<1>2. CASE SendPublicKey(n)
  BY <1>1, <1>2 DEF SendPublicKey, Exchange, serverVars
<1>3. CASE RefuseSession(n) \/ SessionlessUserCall(n)
  BY <1>1, <1>3 DEF RefuseSession, SessionlessUserCall, Plain, Exchange, serverVars
<1>4. CASE AuthIgnored(n) \/ AuthRejected(n)
  BY <1>1, <1>4 DEF AuthIgnored, AuthRejected, Exchange, serverVars
<1>5. CASE GetNonce(n)
  BY <1>1, <1>5 DEF GetNonce, Exchange
<1>6. CASE SessionCall(n)
  BY <1>1, <1>6 DEF SessionCall, Exchange
<1>7. CASE AuthAccepted(n)
  <2>1. opened' = opened \cup {[key |-> n.key, sid |-> nextSessionId, nonce |-> n.nonce]}
    BY <1>7 DEF AuthAccepted
  <2> DEFINE new == [key |-> n.key, sid |-> nextSessionId, nonce |-> n.nonce]
  <2>a. new \in opened' /\ new.key = n.key /\ new.sid = nextSessionId
    BY <2>1
  <2>2. \E o \in opened' : o.key = n.key /\ o.sid = nextSessionId
    <3> HIDE DEF new
    <3> QED
      BY <2>a
  <2>3. \A m \in net' : m \in net \/ (m.key = n.key /\ m.sid = nextSessionId)
    BY <1>7 DEF AuthAccepted, Exchange
  <2> QED
    BY <2>1, <2>2, <2>3, ServerSession DEF Issued
<1> QED
  BY <1>2, <1>3, <1>4, <1>5, <1>6, <1>7 DEF ServerHandle

LEMMA ClientReceiveSession ==
  ASSUME TypeInv, SessionInv, NEW m \in net, ClientReceive(m), UNCHANGED serverVars
  PROVE  SessionInv'
PROOF
<1>1. UNCHANGED <<call, aesKey, sessionId, opened>> /\ net' \subseteq net
  BY DEF ClientReceive, ReceivePublicKey, ReceiveResponse, Exchange, serverVars, session
<1>2. FramesIssued'
  BY <1>1 DEF SessionInv, FramesIssued, Issued
<1>3. ASSUME NEW c \in Calls, call[c].pc = "wait" PROVE Reply(c)' \in {Reply(c), m}
  <2>1. call[c].tid \in DOMAIN outgoingTransactions
    BY <1>3 DEF TypeInv, ClientInv, TransactionInv, OutgoingExact
  <2> QED
    BY <1>1, <2>1 DEF ClientReceive, ReceivePublicKey, ReceiveResponse, Reply
<1>4. RepliesIssued'
  BY <1>1, <1>3 DEF SessionInv, RepliesIssued, FramesIssued, Issued
<1> QED
  BY <1>1, <1>2, <1>4, SessionStays

LEMMA SessionInvStep == TypeInv /\ BelongInv /\ SessionInv /\ [Next]_vars => SessionInv'
PROOF
<1> SUFFICES ASSUME TypeInv, BelongInv, SessionInv, [Next]_vars PROVE SessionInv'
  OBVIOUS
<1>1. ASSUME NEW sid \in DOMAIN sessionsById, PurgeSession(sid), UNCHANGED clientVars
      PROVE  SessionInv'
  BY <1>1, ServerSession DEF PurgeSession
<1>2. ASSUME RestartServer, UNCHANGED clientVars PROVE SessionInv'
  BY <1>2, ServerSession DEF RestartServer
<1>3. CASE UNCHANGED vars
  BY <1>3, ServerSession DEF vars, serverVars
<1> QED
  BY <1>1, <1>2, <1>3, CallStepSession, ClientReceiveSession, ServerHandleSession
     DEF Next, ServerNext

LEMMA SessionInvInit == Init => SessionInv
PROOF
<1> SUFFICES ASSUME Init PROVE SessionInv
  OBVIOUS
<1>1. net = {} /\ sessionId = NoSession /\ \A c \in Calls : call[c].pc = "idle"
  BY DEF Init, ClientInit, IdleCall
<1> QED
  BY <1>1 DEF SessionInv, FramesIssued, RepliesIssued, NoSessionInAuth, GrantedIssued,
              SessionMatchesKey

(* A key and a session id that the client holds together were issued       *)
(* together (auth, Reset, executeTransaction), although one is written     *)
(* under no lock and both may be reset by any call at any time.            *)
THEOREM SessionAndKeyMatch == Spec => []SessionMatchesKey
PROOF
<1>1. SessionInv => SessionMatchesKey
  BY DEF SessionInv
<1>2. Spec => []BelongInv
  BY TypeInvAlways, BelongInvInit, BelongInvStep, PTL DEF Spec
<1> QED
  BY <1>1, <1>2, TypeInvAlways, SessionInvInit, SessionInvStep, PTL DEF Spec

-----------------------------------------------------------------------------
(* The protocol implements RemoteCall.  The state of RemoteCall that a     *)
(* state of the protocol stands for:                                       *)
PlaceMap == [c \in Calls |-> PlaceOf(call[c].pc)]

AnswerMap == [c \in Calls |-> [outcome |-> call[c].outcome, result |-> call[c].result]]

LEMMA CallStepPromise ==
  ASSUME TypeInv, BelongInv, ExecInv, NEW c \in Calls, CallStep(c), UNCHANGED serverVars
  PROVE  [Promise!CallNext]_(Promise!callVars)
PROOF
<1>1. \A d \in Calls : d # c => call'[d] = call[d]
  BY OthersStay DEF TypeInv, ClientInv
<1>2. executed' = executed
  BY DEF serverVars
<1>3. ASSUME Same(c) PROVE AnswerMap' = AnswerMap
  BY <1>1, <1>3 DEF AnswerMap, Same
<1>4. CASE Begins(c)
  <2>1. PlaceMap[c] = "before" /\ PlaceMap' = [PlaceMap EXCEPT ![c] = "during"]
    BY <1>1, <1>4 DEF Begins, Within, PlaceMap, PlaceOf
  <2>2. Promise!Begin(c)
    BY <1>2, <1>3, <1>4, <2>1 DEF Promise!Begin, Begins, PlaceMap, AnswerMap
  <2> QED
    BY <2>2 DEF Promise!CallNext
<1>5. CASE GoesOn(c)
  <2>1. PlaceMap' = PlaceMap
    BY <1>1, <1>5 DEF GoesOn, Within, PlaceMap, PlaceOf
  <2> QED
    BY <1>2, <1>3, <1>5, <2>1 DEF GoesOn, Promise!callVars, PlaceMap, AnswerMap
<1>6. ASSUME NEW outcome, NEW result, Ends(c, outcome, result)
      PROVE  Promise!End(c, outcome, result)
  <2>1. PlaceMap[c] = "during" /\ PlaceMap' = [PlaceMap EXCEPT ![c] = "after"]
    BY <1>1, <1>6 DEF Ends, Within, PlaceMap, PlaceOf
  <2>2. AnswerMap' = [AnswerMap EXCEPT ![c] = [outcome |-> outcome, result |-> result]]
    BY <1>1, <1>6 DEF Ends, AnswerMap
  <2> QED
    BY <1>2, <2>1, <2>2 DEF Promise!End, PlaceMap, AnswerMap
<1>7. CASE Ends(c, "error", Nobody)
  BY <1>6, <1>7 DEF Promise!EndWithError, Promise!CallNext
<1>8. CASE Ends(c, "ok", Nobody)
  BY <1>6, <1>8 DEF Promise!EndEmpty, Promise!CallNext
<1>9. CASE call[c].pc = "wait" /\ Reply(c).type = "result" /\ Ends(c, "ok", Reply(c).call)
  <2>1. Reply(c).call = c /\ executed[c] > 0
    BY <1>9 DEF BelongInv, RepliesBelong, FrameOf
  <2>2. executed[c] = 1
    BY <2>1 DEF ExecInv, ExecutedAtMostOnce, TypeInv, ServerTypeOK
  <2>3. Promise!EndWithValue(c)
    BY <1>6, <1>9, <2>1, <2>2 DEF Promise!EndWithValue
  <2> QED
    BY <2>3 DEF Promise!CallNext
<1> QED
  BY <1>4, <1>5, <1>7, <1>8, <1>9, StepOfCall DEF TypeInv

LEMMA ServerPromise ==
  ASSUME TypeInv, ExecInv, ExecutedAtMostOnce', ServerNext, UNCHANGED clientVars
  PROVE  [Promise!CallNext]_(Promise!callVars)
PROOF
<1>1. PlaceMap' = PlaceMap /\ AnswerMap' = AnswerMap
  BY DEF clientVars, PlaceMap, AnswerMap
<1>2. CASE executed' = executed
  BY <1>1, <1>2 DEF Promise!callVars, PlaceMap, AnswerMap
<1>3. CASE executed' # executed
  <2>1. PICK m \in net : SessionCall(m)
    BY <1>3 DEF ServerNext, ServerHandle, SendPublicKey, RefuseSession, SessionlessUserCall,
                GetNonce, AuthIgnored, AuthRejected, AuthAccepted, PurgeSession, RestartServer,
                serverVars
  <2>2. m.type = "user" /\ m.call \in Calls /\ executed \in [Calls -> Nat]
    BY <2>1, FrameShape DEF SessionCall, TypeInv, ClientInv, FramesTypeOK, ServerTypeOK
  <2>3. executed' = [executed EXCEPT ![m.call] = executed[m.call] + 1]
    BY <1>3, <2>1 DEF SessionCall
  <2>4. executed[m.call] = 0
    BY <2>2, <2>3 DEF ExecutedAtMostOnce
  <2>5. executed' = [executed EXCEPT ![m.call] = 1]
    BY <2>2, <2>3, <2>4
  <2>6. PlaceMap[m.call] # "before"
    BY <2>1, <2>2 DEF ExecInv, UserFrameOfSent, Sent, PlaceMap, PlaceOf
  <2>7. Promise!Run(m.call)
    BY <1>1, <2>4, <2>5, <2>6 DEF Promise!Run, PlaceMap, AnswerMap
  <2> QED
    BY <2>2, <2>7 DEF Promise!CallNext
<1> QED
  BY <1>2, <1>3

(* A remote call keeps what RemoteCall promises (Call and everything under *)
(* it, onEdgeReceivedCall): it returns once, its callback runs at most     *)
(* once and only after it was made, and what it returns is its own         *)
(* callback's value, an empty success or an error.                         *)
THEOREM CallRefinement == Spec => ImplementsRemoteCall
PROOF
<1>1. Init => Promise!CallInit
  <2> SUFFICES ASSUME Init PROVE Promise!CallInit
    OBVIOUS
  <2>1. call = [c \in Calls |-> IdleCall] /\ executed = [c \in Calls |-> 0]
    BY DEF Init, ClientInit, ServerInit
  <2>2. PlaceMap = [c \in Calls |-> "before"]
    BY <2>1 DEF PlaceMap, PlaceOf, IdleCall
  <2>3. AnswerMap = [c \in Calls |-> Promise!NoAnswer]
    BY <2>1 DEF AnswerMap, Promise!NoAnswer, IdleCall
  <2> QED
    BY <2>1, <2>2, <2>3 DEF Promise!CallInit, PlaceMap, AnswerMap
<1>2. TypeInv /\ BelongInv /\ ExecInv /\ ExecInv' /\ [Next]_vars
        => [Promise!CallNext]_(Promise!callVars)
  <2> SUFFICES ASSUME TypeInv, BelongInv, ExecInv, ExecInv', [Next]_vars
               PROVE  [Promise!CallNext]_(Promise!callVars)
    OBVIOUS
  <2>1. CASE UNCHANGED <<call, executed>>
    BY <2>1 DEF Promise!callVars
  <2>2. ASSUME NEW m \in net, ClientReceive(m), UNCHANGED serverVars
        PROVE  UNCHANGED <<call, executed>>
    BY <2>2 DEF ClientReceive, ReceivePublicKey, ReceiveResponse, serverVars
  <2>3. CASE UNCHANGED vars
    BY <2>1, <2>3 DEF vars, clientVars, serverVars
  <2> QED
    BY <2>1, <2>2, <2>3, CallStepPromise, ServerPromise DEF Next, ExecInv
<1> QED
  BY <1>1, <1>2, TypeInvAlways, BelongInvInit, BelongInvStep, ExecInvInit, ExecInvStep, PTL
     DEF Spec, ImplementsRemoteCall, Promise!CallSpec
-----------------------------------------------------------------------------
(* The favourable surroundings of PromptSpec: they are surroundings of the *)
(* protocol, so all that was proved above of Spec holds in them.           *)
ProtocolInv == TypeInv /\ OpenInv /\ ExecInv /\ BelongInv /\ SessionInv

LEMMA PromptIsNext == [PromptNext]_vars => [Next]_vars
PROOF
<1>1. \A c \in Calls : PromptStep(c) => CallStep(c)
  BY DEF PromptStep, CallStep
<1>2. \A m \in net : PromptHandle(m) => ServerHandle(m)
  BY DEF PromptHandle, ServerHandle
<1>3. PromptNext => Next
  BY <1>1, <1>2 DEF PromptNext, Next, ServerNext
<1> QED
  BY <1>3

LEMMA ProtocolInvInit == Init => ProtocolInv
BY TypeInvInit, OpenInvInit, ExecInvInit, BelongInvInit, SessionInvInit DEF ProtocolInv

LEMMA ProtocolInvStep == ProtocolInv /\ [PromptNext]_vars => ProtocolInv'
PROOF
<1> SUFFICES ASSUME ProtocolInv, [PromptNext]_vars PROVE ProtocolInv'
  OBVIOUS
<1>1. [Next]_vars
  BY PromptIsNext
<1>2. TypeInv'
  BY <1>1, TypeInvStep DEF ProtocolInv
<1>3. OpenInv'
  BY <1>1, <1>2, OpenInvStep DEF ProtocolInv
<1>4. ExecInv' /\ BelongInv'
  BY <1>1, ExecInvStep, BelongInvStep DEF ProtocolInv
<1>5. SessionInv'
  BY <1>1, SessionInvStep DEF ProtocolInv
<1> QED
  BY <1>2, <1>3, <1>4, <1>5 DEF ProtocolInv

LEMMA ProtocolInvAlways == PromptSpec => []ProtocolInv
BY ProtocolInvInit, ProtocolInvStep, PTL DEF PromptSpec

-----------------------------------------------------------------------------
(* The local state of a call after each of its steps, field by field; the  *)
(* other calls stay as they are.                                           *)
Alone(c) == \A d \in Calls : d # c => call'[d] = call[d]

(* Local state t is s but for its place and phase, and the fields named.   *)
SameSession(s, t) == t.aes = s.aes /\ t.sid = s.sid /\ t.nonce = s.nonce

SameGrant(s, t) == t.found = s.found /\ t.tid = s.tid /\ t.granted = s.granted

SameAnswer(s, t) == t.outcome = s.outcome /\ t.result = s.result

LEMMA CallIsState == ASSUME ClientTypeOK, NEW c \in Calls PROVE call[c] \in CallState
BY DEF ClientTypeOK

LEMMA Assigned ==
  ASSUME ClientTypeOK, NEW c \in Calls, NEW t, call' = [call EXCEPT ![c] = t]
  PROVE  call'[c] = t /\ Alone(c)
BY DEF ClientTypeOK, Alone

LEMMA AtFields ==
  ASSUME ClientTypeOK, NEW c \in Calls, NEW pc, NEW phase, At(c, pc, phase)
  PROVE  /\ Alone(c) /\ call'[c].pc = pc /\ call'[c].phase = phase
         /\ SameSession(call[c], call'[c])
         /\ SameGrant(call[c], call'[c])
         /\ SameAnswer(call[c], call'[c])
PROOF
<1> DEFINE t == [call[c] EXCEPT !.pc = pc, !.phase = phase]
<1>1. call' = [call EXCEPT ![c] = t]
  BY DEF At
<1>2. call[c] \in CallState
  BY CallIsState
<1>3. /\ t.pc = pc /\ t.phase = phase /\ SameSession(call[c], t)
      /\ SameGrant(call[c], t) /\ SameAnswer(call[c], t)
  BY <1>2 DEF CallState, SameSession, SameGrant, SameAnswer
<1> HIDE DEF t
<1> QED
  BY <1>1, <1>3, Assigned

LEMMA ReturnFields ==
  ASSUME ClientTypeOK, NEW c \in Calls, NEW outcome, NEW result, Return(c, outcome, result)
  PROVE  /\ Alone(c) /\ call'[c].pc = "done" /\ call'[c].phase = "user"
         /\ call'[c].outcome = outcome /\ call'[c].result = result
PROOF
<1> DEFINE t == [IdleCall EXCEPT !.pc = "done", !.outcome = outcome, !.result = result]
<1>1. call' = [call EXCEPT ![c] = t]
  BY DEF Return
<1>2. t.pc = "done" /\ t.phase = "user" /\ t.outcome = outcome /\ t.result = result
  BY DEF IdleCall
<1> HIDE DEF t
<1> QED
  BY <1>1, <1>2, Assigned

LEMMA StartCallFields ==
  ASSUME ClientTypeOK, NEW c \in Calls, StartCall(c)
  PROVE  /\ Alone(c) /\ call'[c].found = sessionId
         /\ call'[c].pc = IF remoteTransportPublicKey = NoKey THEN "awaitKey" ELSE "gate"
         /\ call'[c].phase = call[c].phase
         /\ SameAnswer(call[c], call'[c])
PROOF
<1> DEFINE pc == IF remoteTransportPublicKey = NoKey THEN "awaitKey" ELSE "gate"
<1> DEFINE t == [call[c] EXCEPT !.found = sessionId, !.pc = pc]
<1>1. call' = [call EXCEPT ![c] = t]
  BY DEF StartCall
<1>2. call[c] \in CallState
  BY CallIsState
<1> HIDE DEF pc
<1>3. /\ t.pc = pc /\ t.phase = call[c].phase /\ t.found = sessionId
      /\ SameAnswer(call[c], t)
  BY <1>2 DEF CallState, SameAnswer
<1> HIDE DEF t
<1> QED
  BY <1>1, <1>3, Assigned DEF pc

LEMMA SealFields ==
  ASSUME ClientTypeOK, NEW c \in Calls, Seal(c), aesKey # NoKey
  PROVE  /\ Alone(c) /\ call'[c].pc = "readSession" /\ call'[c].phase = "auth"
         /\ call'[c].aes = aesKey /\ call'[c].nonce = call[c].nonce
         /\ SameAnswer(call[c], call'[c])
PROOF
<1> DEFINE t == [call[c] EXCEPT !.pc = "readSession", !.phase = "auth", !.aes = aesKey]
<1>1. call' = [call EXCEPT ![c] = t]
  BY DEF Seal
<1>2. call[c] \in CallState
  BY CallIsState
<1>3. /\ t.pc = "readSession" /\ t.phase = "auth" /\ t.aes = aesKey
      /\ t.nonce = call[c].nonce /\ SameAnswer(call[c], t)
  BY <1>2 DEF CallState, SameAnswer
<1> HIDE DEF t
<1> QED
  BY <1>1, <1>3, Assigned

LEMMA CopyKeyFields ==
  ASSUME ClientTypeOK, NEW c \in Calls, CopyKey(c)
  PROVE  /\ Alone(c) /\ call'[c].pc = "readSession" /\ call'[c].phase = "user"
         /\ call'[c].aes = aesKey /\ SameAnswer(call[c], call'[c])
PROOF
<1> DEFINE t == [call[c] EXCEPT !.pc = "readSession", !.phase = "user", !.aes = aesKey]
<1>1. call' = [call EXCEPT ![c] = t]
  BY DEF CopyKey
<1>2. call[c] \in CallState
  BY CallIsState
<1>3. /\ t.pc = "readSession" /\ t.phase = "user" /\ t.aes = aesKey /\ SameAnswer(call[c], t)
  BY <1>2 DEF CallState, SameAnswer
<1> HIDE DEF t
<1> QED
  BY <1>1, <1>3, Assigned

LEMMA ReadSessionFields ==
  ASSUME ClientTypeOK, NEW c \in Calls, ReadSession(c)
  PROVE  /\ Alone(c) /\ call'[c].pc = "send" /\ call'[c].phase = call[c].phase
         /\ call'[c].sid = sessionId /\ call'[c].aes = call[c].aes
         /\ call'[c].nonce = call[c].nonce
         /\ SameAnswer(call[c], call'[c])
PROOF
<1> DEFINE t == [call[c] EXCEPT !.pc = "send", !.sid = sessionId]
<1>1. call' = [call EXCEPT ![c] = t]
  BY DEF ReadSession
<1>2. call[c] \in CallState
  BY CallIsState
<1>3. /\ t.pc = "send" /\ t.phase = call[c].phase /\ t.sid = sessionId /\ t.aes = call[c].aes
      /\ t.nonce = call[c].nonce /\ SameAnswer(call[c], t)
  BY <1>2 DEF CallState, SameAnswer
<1> HIDE DEF t
<1> QED
  BY <1>1, <1>3, Assigned

LEMMA SendFields ==
  ASSUME ClientTypeOK, NEW c \in Calls, Send(c)
  PROVE  /\ Alone(c) /\ call'[c].pc = "wait" /\ call'[c].phase = call[c].phase
         /\ call'[c].tid = nextTransactionId
         /\ SameSession(call[c], call'[c])
         /\ SameAnswer(call[c], call'[c])
PROOF
<1> DEFINE t == [call[c] EXCEPT !.pc = "wait", !.tid = nextTransactionId]
<1>1. call' = [call EXCEPT ![c] = t]
  BY DEF Send
<1>2. call[c] \in CallState
  BY CallIsState
<1>3. /\ t.pc = "wait" /\ t.phase = call[c].phase /\ t.tid = nextTransactionId
      /\ SameSession(call[c], t) /\ SameAnswer(call[c], t)
  BY <1>2 DEF CallState, SameSession, SameAnswer
<1> HIDE DEF t
<1> QED
  BY <1>1, <1>3, Assigned

LEMMA NonceFields ==
  ASSUME ClientTypeOK, NEW c \in Calls, NonceAnswered(c), Reply(c).type = "nonce"
  PROVE  /\ Alone(c) /\ call'[c].pc = "setKey" /\ call'[c].phase = call[c].phase
         /\ call'[c].nonce = Reply(c).nonce
         /\ SameAnswer(call[c], call'[c])
PROOF
<1> DEFINE t == [call[c] EXCEPT !.pc = "setKey", !.nonce = Reply(c).nonce]
<1>1. call' = [call EXCEPT ![c] = t]
  BY DEF NonceAnswered
<1>2. call[c] \in CallState
  BY CallIsState
<1>3. /\ t.pc = "setKey" /\ t.phase = call[c].phase /\ t.nonce = Reply(c).nonce
      /\ SameAnswer(call[c], t)
  BY <1>2 DEF CallState, SameAnswer
<1> HIDE DEF t
<1> QED
  BY <1>1, <1>3, Assigned

LEMMA AuthFields ==
  ASSUME ClientTypeOK, NEW c \in Calls, AuthAnswered(c),
         Reply(c).type = "session", Reply(c).key = aesKey
  PROVE  /\ Alone(c) /\ call'[c].pc = "setSession" /\ call'[c].phase = call[c].phase
         /\ call'[c].granted = Reply(c).sid
         /\ SameAnswer(call[c], call'[c])
PROOF
<1> DEFINE t == [call[c] EXCEPT !.pc = "setSession", !.granted = Reply(c).sid]
<1>1. call' = [call EXCEPT ![c] = t]
  BY DEF AuthAnswered
<1>2. call[c] \in CallState
  BY CallIsState
<1>3. /\ t.pc = "setSession" /\ t.phase = call[c].phase /\ t.granted = Reply(c).sid
      /\ SameAnswer(call[c], t)
  BY <1>2 DEF CallState, SameAnswer
<1> HIDE DEF t
<1> QED
  BY <1>1, <1>3, Assigned

-----------------------------------------------------------------------------
(* Why a success was executed when the calls are made one by one.  A call  *)
(* finds the session that it will use, or gets one by auth, so its user    *)
(* frame names a session; and a frame that names one is answered under its *)
(* key after the callback ran, or with an error: never with the empty      *)
(* success of a call without session.                                      *)
OneUnderway == \A c, d \in Calls : Underway(c) /\ Underway(d) => c = d

CallNamed(c) ==
  /\ call[c].pc \in {"awaitKey", "gate"} => call[c].found = sessionId
  /\ call[c].pc = "setSession" => call[c].granted # NoSession
  /\ call[c].pc = "copyKey" => sessionId # NoSession
  /\ call[c].pc = "readSession" /\ call[c].phase = "user" => sessionId # NoSession
  /\ call[c].pc = "send" /\ call[c].phase = "user" => call[c].sid # NoSession

Named(m) ==
  /\ m.type \in {"user", "session"} => m.sid # NoSession
  /\ m.type = "plain" => m.status = "srv"

FramesNamed == \A m \in net : Named(m)

RepliesNamed == \A t \in DOMAIN outgoingTransactions : Named(outgoingTransactions[t])

SuccessExecuted == \A c \in Calls : call[c].outcome = "ok" => executed[c] > 0

NamedInv ==
  /\ OneUnderway
  /\ \A c \in Calls : CallNamed(c)
  /\ FramesNamed
  /\ RepliesNamed
  /\ nextSessionId # NoSession
  /\ SuccessExecuted

(* Call c makes a step, and no other call is underway.                     *)
Calm(c) == c \in Calls /\ \A d \in Calls : Underway(d) => d = c

LEMMA CallStaysNamed ==
  ASSUME NamedInv, NEW c, Calm(c), Alone(c), CallNamed(c)', FramesNamed', RepliesNamed',
         SameAnswer(call[c], call'[c]) \/ call'[c].outcome # "ok" \/ executed[c] > 0,
         UNCHANGED serverVars
  PROVE  NamedInv'
PROOF
<1>1. \A d \in Calls : d # c => ~Underway(d) /\ call'[d] = call[d]
  BY DEF Calm, Alone
<1>2. OneUnderway'
  BY <1>1 DEF OneUnderway, Underway
<1>3. \A d \in Calls : CallNamed(d)'
  BY <1>1 DEF CallNamed, Underway
<1>4. executed' = executed /\ nextSessionId' = nextSessionId
  BY DEF serverVars, serverState
<1>5. SuccessExecuted'
  BY <1>1, <1>4 DEF NamedInv, SuccessExecuted, SameAnswer, Calm
<1> QED
  BY <1>2, <1>3, <1>4, <1>5 DEF NamedInv

(* The steps of a call that neither post nor wait. *)
LEMMA LocalStepNamed ==
  ASSUME ProtocolInv, NamedInv, NEW c, Calm(c), UNCHANGED serverVars,
         KeyArrived(c) \/ KeyTimeout(c) \/ PassGate(c) \/ EnterAuth(c) \/ SetKey(c)
           \/ Seal(c) \/ SetSession(c) \/ CopyKey(c) \/ ReadSession(c)
  PROVE  NamedInv'
PROOF
<1>1. ClientTypeOK /\ c \in Calls
  BY DEF ProtocolInv, TypeInv, ClientInv, Calm
<1>2. UNCHANGED <<net, outgoingTransactions>>
  BY DEF KeyArrived, KeyTimeout, PassGate, EnterAuth, SetKey, Seal, SetSession, CopyKey, ReadSession
<1>3. FramesNamed' /\ RepliesNamed'
  BY <1>2 DEF NamedInv, FramesNamed, RepliesNamed
<1>4. CallNamed(c)
  BY <1>1 DEF NamedInv
<1>5. ASSUME Fail(c) PROVE NamedInv'
  <2>1. Alone(c) /\ call'[c].pc = "done" /\ call'[c].outcome = "error"
    BY <1>1, <1>5, ReturnFields DEF Fail
  <2>2. CallNamed(c)'
    BY <2>1 DEF CallNamed
  <2> QED
    BY <1>3, <2>1, <2>2, CallStaysNamed
<1>6. CASE KeyTimeout(c)
  BY <1>5, <1>6 DEF KeyTimeout
<1>7. CASE KeyArrived(c)
  <2>1. At(c, "gate", "user") /\ sessionId' = sessionId /\ call[c].pc = "awaitKey"
    BY <1>7 DEF KeyArrived, session
  <2>2. /\ Alone(c) /\ call'[c].pc = "gate" /\ call'[c].found = call[c].found
        /\ SameAnswer(call[c], call'[c])
    BY <1>1, <2>1, AtFields DEF SameGrant
  <2>3. CallNamed(c)'
    BY <1>4, <2>1, <2>2 DEF CallNamed
  <2> QED
    BY <1>3, <2>2, <2>3, CallStaysNamed
<1>8. CASE PassGate(c)
  <2>1. /\ At(c, "copyKey", "user") /\ sessionId' = sessionId /\ call[c].pc = "gate"
        /\ call[c].found # NoSession
    BY <1>8 DEF PassGate, session
  <2>2. Alone(c) /\ call'[c].pc = "copyKey" /\ SameAnswer(call[c], call'[c])
    BY <1>1, <2>1, AtFields
  <2>3. CallNamed(c)'
    BY <1>4, <2>1, <2>2 DEF CallNamed
  <2> QED
    BY <1>3, <2>2, <2>3, CallStaysNamed
<1>9. CASE EnterAuth(c)
  <2>1. CASE authProcessing
    BY <1>5, <1>9, <2>1 DEF EnterAuth
  <2>2. CASE ~authProcessing
    <3>1. At(c, "readSession", "nonce")
      BY <1>9, <2>2 DEF EnterAuth
    <3>2. /\ Alone(c) /\ call'[c].pc = "readSession" /\ call'[c].phase = "nonce"
          /\ SameAnswer(call[c], call'[c])
      BY <1>1, <3>1, AtFields
    <3>3. CallNamed(c)'
      BY <3>2 DEF CallNamed
    <3> QED
      BY <1>3, <3>2, <3>3, CallStaysNamed
  <2> QED
    BY <2>1, <2>2
<1>10. CASE SetKey(c)
  <2>1. Alone(c) /\ call'[c].pc = "seal" /\ SameAnswer(call[c], call'[c])
    BY <1>1, <1>10, AtFields DEF SetKey
  <2>2. CallNamed(c)'
    BY <2>1 DEF CallNamed
  <2> QED
    BY <1>3, <2>1, <2>2, CallStaysNamed
<1>11. CASE Seal(c)
  <2>1. CASE aesKey = NoKey
    BY <1>5, <1>11, <2>1 DEF Seal, FailAuth
  <2>2. CASE aesKey # NoKey
    <3>1. /\ Alone(c) /\ call'[c].pc = "readSession" /\ call'[c].phase = "auth"
          /\ SameAnswer(call[c], call'[c])
      BY <1>1, <1>11, <2>2, SealFields
    <3>2. CallNamed(c)'
      BY <3>1 DEF CallNamed
    <3> QED
      BY <1>3, <3>1, <3>2, CallStaysNamed
  <2> QED
    BY <2>1, <2>2
<1>12. CASE SetSession(c)
  <2>1. /\ At(c, "copyKey", "user") /\ call[c].pc = "setSession"
        /\ sessionId' = call[c].granted
    BY <1>12 DEF SetSession
  <2>2. Alone(c) /\ call'[c].pc = "copyKey" /\ SameAnswer(call[c], call'[c])
    BY <1>1, <2>1, AtFields
  <2>3. CallNamed(c)'
    BY <1>4, <2>1, <2>2 DEF CallNamed
  <2> QED
    BY <1>3, <2>2, <2>3, CallStaysNamed
<1>13. CASE CopyKey(c)
  <2>1. call[c].pc = "copyKey" /\ sessionId' = sessionId
    BY <1>13 DEF CopyKey, session
  <2>2. Alone(c) /\ call'[c].pc = "readSession" /\ SameAnswer(call[c], call'[c])
    BY <1>1, <1>13, CopyKeyFields
  <2>3. CallNamed(c)'
    BY <1>4, <2>1, <2>2 DEF CallNamed
  <2> QED
    BY <1>3, <2>2, <2>3, CallStaysNamed
<1>14. CASE ReadSession(c)
  <2>1. call[c].pc = "readSession" /\ sessionId' = sessionId
    BY <1>14 DEF ReadSession, session
  <2>2. /\ Alone(c) /\ call'[c].pc = "send" /\ call'[c].phase = call[c].phase
        /\ call'[c].sid = sessionId /\ SameAnswer(call[c], call'[c])
    BY <1>1, <1>14, ReadSessionFields
  <2>3. CallNamed(c)'
    BY <1>4, <2>1, <2>2 DEF CallNamed
  <2> QED
    BY <1>3, <2>2, <2>3, CallStaysNamed
<1> QED
  BY <1>6, <1>7, <1>8, <1>9, <1>10, <1>11, <1>12, <1>13, <1>14

(* Its beginning and the frame it posts. *)
LEMMA PostingNamed ==
  ASSUME ProtocolInv, NamedInv, NEW c, Calm(c), UNCHANGED serverVars,
         StartCall(c) \/ Send(c)
  PROVE  NamedInv'
PROOF
<1>1. ClientTypeOK /\ c \in Calls
  BY DEF ProtocolInv, TypeInv, ClientInv, Calm
<1>2. CASE StartCall(c)
  <2>1. outgoingTransactions' = outgoingTransactions /\ sessionId' = sessionId
    BY <1>2 DEF StartCall, session
  <2>2. \A m \in net' : m \in net \/ m = GetKey
    BY <1>2 DEF StartCall, Post
  <2>3. /\ Alone(c) /\ call'[c].pc \in {"awaitKey", "gate"} /\ call'[c].found = sessionId
        /\ SameAnswer(call[c], call'[c])
    BY <1>1, <1>2, StartCallFields
  <2>4. FramesNamed' /\ RepliesNamed'
    BY <2>1, <2>2 DEF NamedInv, FramesNamed, RepliesNamed, Named, GetKey
  <2>5. CallNamed(c)'
    BY <2>1, <2>3 DEF CallNamed
  <2> QED
    BY <2>3, <2>4, <2>5, CallStaysNamed
<1>3. CASE Send(c)
  <2>1. call[c].pc = "send" /\ net' = net \cup {CallFrame(c)}
    BY <1>3 DEF Send, Post
  <2>2. \A t \in DOMAIN outgoingTransactions' :
          \/ outgoingTransactions'[t] = Pending
          \/ /\ t \in DOMAIN outgoingTransactions
             /\ outgoingTransactions'[t] = outgoingTransactions[t]
    BY <1>3 DEF Send
  <2>3. Alone(c) /\ call'[c].pc = "wait" /\ SameAnswer(call[c], call'[c])
    BY <1>1, <1>3, SendFields
  <2>4. call[c].phase \in {"nonce", "auth", "user"}
    BY <1>1, CallIsState DEF CallState
  <2>5. call[c].phase = "user" => call[c].sid # NoSession
    BY <1>1, <2>1 DEF NamedInv, CallNamed
  <2>6. Named(CallFrame(c))
    BY <2>4, <2>5 DEF Named, CallFrame
  <2>7. FramesNamed' /\ RepliesNamed'
    BY <2>1, <2>2, <2>6 DEF NamedInv, FramesNamed, RepliesNamed, Named, Pending
  <2>8. CallNamed(c)'
    BY <2>3 DEF CallNamed
  <2> QED
    BY <2>3, <2>7, <2>8, CallStaysNamed
<1> QED
  BY <1>2, <1>3

(* The end of a wait. *)
LEMMA WaitEndsNamed ==
  ASSUME ProtocolInv, NamedInv, NEW c, Calm(c), UNCHANGED serverVars,
         Timeout(c) \/ NonceAnswered(c) \/ AuthAnswered(c) \/ EncryptedAnswered(c)
           \/ PlainAnswered(c)
  PROVE  NamedInv'
PROOF
<1>1. ClientTypeOK /\ c \in Calls
  BY DEF ProtocolInv, TypeInv, ClientInv, Calm
<1>2. call[c].pc = "wait" /\ Forget(call[c].tid) /\ net' = net
  BY DEF Timeout, NonceAnswered, AuthAnswered, EncryptedAnswered, PlainAnswered, Waiting
<1>3. FramesNamed' /\ RepliesNamed'
  BY <1>2 DEF NamedInv, FramesNamed, RepliesNamed, Forget
<1>4. Named(Reply(c))
  <2>1. call[c].tid \in DOMAIN outgoingTransactions
    BY <1>1, <1>2 DEF ProtocolInv, TypeInv, ClientInv, TransactionInv, OutgoingExact
  <2> QED
    BY <2>1 DEF NamedInv, RepliesNamed, Reply
<1>5. ASSUME NEW outcome, NEW result, Return(c, outcome, result),
             outcome # "ok" \/ executed[c] > 0
      PROVE  NamedInv'
  <2>1. Alone(c) /\ call'[c].pc = "done" /\ call'[c].outcome = outcome
    BY <1>1, <1>5, ReturnFields
  <2>2. CallNamed(c)'
    BY <2>1 DEF CallNamed
  <2> QED
    BY <1>3, <1>5, <2>1, <2>2, CallStaysNamed
<1>6. ASSUME Fail(c) PROVE NamedInv'
  BY <1>5, <1>6 DEF Fail
<1>7. CASE Timeout(c)
  BY <1>6, <1>7 DEF Timeout, FailAuth
<1>8. CASE NonceAnswered(c)
  <2>1. CASE Reply(c).type = "nonce"
    <3>1. Alone(c) /\ call'[c].pc = "setKey" /\ SameAnswer(call[c], call'[c])
      BY <1>1, <1>8, <2>1, NonceFields
    <3>2. CallNamed(c)'
      BY <3>1 DEF CallNamed
    <3> QED
      BY <1>3, <3>1, <3>2, CallStaysNamed
  <2> QED
    BY <1>6, <1>8, <2>1 DEF NonceAnswered, FailAuth
<1>9. CASE AuthAnswered(c)
  <2>1. CASE Reply(c).type = "session" /\ Reply(c).key = aesKey
    <3>1. /\ Alone(c) /\ call'[c].pc = "setSession" /\ call'[c].granted = Reply(c).sid
          /\ SameAnswer(call[c], call'[c])
      BY <1>1, <1>9, <2>1, AuthFields
    <3>2. CallNamed(c)'
      BY <1>4, <2>1, <3>1 DEF CallNamed, Named
    <3> QED
      BY <1>3, <3>1, <3>2, CallStaysNamed
  <2> QED
    BY <1>6, <1>9, <2>1 DEF AuthAnswered, FailAuth
<1>10. CASE EncryptedAnswered(c)
  <2>1. CASE Decrypted(c)
    <3>1. executed[c] > 0
      BY <1>1, <1>2, <2>1 DEF ProtocolInv, BelongInv, RepliesBelong, FrameOf, Decrypted
    <3> QED
      BY <1>5, <1>6, <1>10, <2>1, <3>1 DEF EncryptedAnswered
  <2> QED
    BY <1>6, <1>10, <2>1 DEF EncryptedAnswered
<1>11. CASE PlainAnswered(c)
  BY <1>4, <1>6, <1>11 DEF PlainAnswered, Named
<1> QED
  BY <1>7, <1>8, <1>9, <1>10, <1>11

(* A response takes its place in the map. *)
LEMMA ReceiveNamed ==
  ASSUME ProtocolInv, NamedInv, NEW m \in net, ClientReceive(m), UNCHANGED serverVars
  PROVE  NamedInv'
PROOF
<1>1. call' = call /\ sessionId' = sessionId
  BY DEF ClientReceive, ReceivePublicKey, ReceiveResponse, session
<1>2. net' \subseteq net
  BY DEF ClientReceive, ReceivePublicKey, ReceiveResponse, Exchange
<1>3. \A t \in DOMAIN outgoingTransactions' :
        /\ t \in DOMAIN outgoingTransactions
        /\ outgoingTransactions'[t] \in {outgoingTransactions[t], m}
  <2>1. CASE ReceivePublicKey(m)
    BY <2>1 DEF ReceivePublicKey
  <2>2. CASE ReceiveResponse(m) /\ m.tid \in DOMAIN outgoingTransactions
    BY <2>2 DEF ReceiveResponse
  <2>3. CASE ReceiveResponse(m) /\ m.tid \notin DOMAIN outgoingTransactions
    BY <2>3 DEF ReceiveResponse
  <2> QED
    BY <2>1, <2>2, <2>3 DEF ClientReceive
<1>4. FramesNamed' /\ RepliesNamed'
  BY <1>2, <1>3 DEF NamedInv, FramesNamed, RepliesNamed
<1>5. executed' = executed /\ nextSessionId' = nextSessionId
  BY DEF serverVars, serverState
<1>6. OneUnderway' /\ SuccessExecuted' /\ \A c \in Calls : CallNamed(c)'
  BY <1>1, <1>5 DEF NamedInv, OneUnderway, Underway, SuccessExecuted, CallNamed
<1> QED
  BY <1>4, <1>5, <1>6 DEF NamedInv

(* A step of the server: what it posts is named if what it takes is. *)
LEMMA ServerNamed ==
  ASSUME ProtocolInv, NamedInv, UNCHANGED clientVars,
         \A r \in net' : r \in net \/ Named(r),
         nextSessionId' # NoSession,
         \A c \in Calls : executed[c] > 0 => executed'[c] > 0
  PROVE  NamedInv'
PROOF
<1>1. UNCHANGED <<call, sessionId, outgoingTransactions>>
  BY DEF clientVars, session
<1>2. FramesNamed' /\ RepliesNamed'
  BY <1>1 DEF NamedInv, FramesNamed, RepliesNamed
<1>3. OneUnderway' /\ SuccessExecuted' /\ \A c \in Calls : CallNamed(c)'
  BY <1>1 DEF NamedInv, OneUnderway, Underway, SuccessExecuted, CallNamed
<1> QED
  BY <1>2, <1>3 DEF NamedInv

LEMMA ServerHandleNamed ==
  ASSUME ProtocolInv, NamedInv, NEW m \in net, ServerHandle(m), UNCHANGED clientVars
  PROVE  NamedInv'
PROOF
<1>1. ServerTypeOK /\ nextSessionId \in Nat /\ Named(m)
  BY DEF ProtocolInv, TypeInv, ServerTypeOK, NamedInv, FramesNamed
<1>2. ASSUME NEW frames, Exchange(m, frames), \A r \in frames : Named(r)
      PROVE  \A r \in net' : r \in net \/ Named(r)
  BY <1>2 DEF Exchange
<1>3. ASSUME UNCHANGED serverVars
      PROVE  /\ nextSessionId' # NoSession
             /\ \A c \in Calls : executed[c] > 0 => executed'[c] > 0
  BY <1>3 DEF serverVars, serverState, NamedInv
<1>4. CASE SendPublicKey(m)
  <2>1. Named([type |-> "publicKey", key |-> TransportPublicKey])
    BY DEF Named
  <2>2. \A r \in net' : r \in net \/ Named(r)
    BY <1>2, <1>4, <2>1 DEF SendPublicKey
  <2> QED
    BY <1>3, <1>4, <2>2, ServerNamed DEF SendPublicKey
<1>5. CASE RefuseSession(m)
  <2>1. Named(Plain(m, "srv"))
    BY DEF Named, Plain
  <2>2. \A r \in net' : r \in net \/ Named(r)
    BY <1>2, <1>5, <2>1 DEF RefuseSession
  <2> QED
    BY <1>3, <1>5, <2>2, ServerNamed DEF RefuseSession
<1>6. CASE SessionCall(m)
  <2>1. \A key, status, c :
          Named([type |-> "result", tid |-> m.tid, key |-> key, status |-> status, call |-> c])
    BY DEF Named
  <2>2. \A r \in net' : r \in net \/ Named(r)
    <3>1. CASE Accepts(sessionsById[m.sid].snakeCounter, m.counter)
      <4>1. PICK status \in CallbackResults :
              Exchange(m, {[type |-> "result", tid |-> m.tid, key |-> sessionsById[m.sid].aesKey,
                            status |-> status, call |-> m.call]})
        BY <1>6, <3>1 DEF SessionCall
      <4> QED
        BY <1>2, <2>1, <4>1
    <3>2. CASE ~Accepts(sessionsById[m.sid].snakeCounter, m.counter)
      BY <1>2, <1>6, <3>2 DEF SessionCall
    <3> QED
      BY <3>1, <3>2
  <2>3. nextSessionId' # NoSession
    BY <1>6 DEF SessionCall, NamedInv
  <2>4. executed' = executed \/ executed' = [executed EXCEPT ![m.call] = @ + 1]
    BY <1>6 DEF SessionCall
  <2>5. executed \in [Calls -> Nat]
    BY <1>1 DEF ServerTypeOK
  <2>6. \A c \in Calls : executed[c] > 0 => executed'[c] > 0
    BY <2>4, <2>5
  <2> QED
    BY <2>2, <2>3, <2>6, ServerNamed
<1>7. ~SessionlessUserCall(m)
  BY <1>1 DEF SessionlessUserCall, Named
<1>8. CASE GetNonce(m)
  <2>1. Named([type |-> "nonce", tid |-> m.tid, nonce |-> NextNonce(authNonces, drawn + 1)])
    BY DEF Named
  <2>2. \A r \in net' : r \in net \/ Named(r)
    BY <1>2, <1>8, <2>1 DEF GetNonce
  <2>3. nextSessionId' # NoSession /\ executed' = executed
    BY <1>8 DEF GetNonce, NamedInv
  <2> QED
    BY <2>2, <2>3, ServerNamed
<1>9. CASE AuthIgnored(m)
  <2>1. \A r \in net' : r \in net \/ Named(r)
    BY <1>2, <1>9 DEF AuthIgnored
  <2> QED
    BY <1>3, <1>9, <2>1, ServerNamed DEF AuthIgnored
<1>10. CASE AuthRejected(m)
  <2>1. \A r \in net' : r \in net \/ Named(r)
    BY <1>2, <1>10 DEF AuthRejected
  <2>2. nextSessionId' # NoSession /\ executed' = executed
    BY <1>10 DEF AuthRejected, NamedInv
  <2> QED
    BY <2>1, <2>2, ServerNamed
<1>11. CASE AuthAccepted(m)
  <2>1. Named([type |-> "session", tid |-> m.tid, key |-> m.key, sid |-> nextSessionId])
    BY DEF Named, NamedInv
  <2>2. \A r \in net' : r \in net \/ Named(r)
    BY <1>2, <1>11, <2>1 DEF AuthAccepted
  <2>3. nextSessionId' = nextSessionId + 1 /\ executed' = executed
    BY <1>11 DEF AuthAccepted
  <2>4. nextSessionId' # NoSession
    BY <1>1, <2>3 DEF NoSession
  <2> QED
    BY <2>2, <2>3, <2>4, ServerNamed
<1> QED
  BY <1>4, <1>5, <1>6, <1>7, <1>8, <1>9, <1>10, <1>11 DEF ServerHandle

LEMMA NamedInvStep == ProtocolInv /\ NamedInv /\ [PromptNext]_vars => NamedInv'
PROOF
<1> SUFFICES ASSUME ProtocolInv, NamedInv, [PromptNext]_vars PROVE NamedInv'
  OBVIOUS
<1>1. CASE UNCHANGED vars
  BY <1>1 DEF vars, clientVars, serverVars, serverState, session, NamedInv, OneUnderway, Underway,
              CallNamed, FramesNamed, RepliesNamed, SuccessExecuted
<1>2. ASSUME NEW c \in Calls, \A d \in Calls \ {c} : ~Underway(d), PromptStep(c),
             UNCHANGED serverVars
      PROVE  NamedInv'
  <2>1. Calm(c)
    BY <1>2 DEF Calm
  <2>2. CallStep(c)
    BY <1>2 DEF PromptStep, CallStep
  <2> QED
    BY <1>2, <2>1, <2>2, LocalStepNamed, PostingNamed, WaitEndsNamed DEF CallStep
<1>3. ASSUME NEW m \in net, ClientReceive(m), UNCHANGED serverVars PROVE NamedInv'
  BY <1>3, ReceiveNamed
<1>4. ASSUME NEW m \in net, PromptHandle(m), UNCHANGED clientVars PROVE NamedInv'
  BY <1>4, ServerHandleNamed DEF PromptHandle, ServerHandle
<1>5. ASSUME RestartServer \/ \E sid \in DOMAIN sessionsById : PurgeSession(sid),
             UNCHANGED clientVars
      PROVE  NamedInv'
  <2>1. net' = net /\ executed' = executed /\ nextSessionId' \in {nextSessionId, 1}
    BY <1>5 DEF RestartServer, PurgeSession
  <2>2. nextSessionId' # NoSession
    BY <2>1 DEF NamedInv, NoSession
  <2> QED
    BY <1>5, <2>1, <2>2, ServerNamed
<1> QED
  BY <1>1, <1>2, <1>3, <1>4, <1>5 DEF PromptNext

LEMMA NamedInvInit == Init => NamedInv
BY DEF Init, ClientInit, ServerInit, IdleCall, NamedInv, OneUnderway, Underway, CallNamed,
       FramesNamed, RepliesNamed, SuccessExecuted, NoSession

(* A call that returns without an error was executed, when the calls are   *)
(* made one after another and everything posted arrives; restarts and      *)
(* purges between the calls do not matter (RemotePeer.Call).               *)
THEOREM SuccessWasExecuted == PromptSpec => []SuccessMeansExecuted
PROOF
<1>1. ProtocolInv /\ NamedInv => SuccessMeansExecuted
  <2> SUFFICES ASSUME ProtocolInv, NamedInv, NEW c \in Calls, call[c].outcome = "ok"
               PROVE  executed[c] = 1
    BY DEF SuccessMeansExecuted
  <2>1. executed[c] > 0 /\ executed[c] <= 1 /\ executed[c] \in Nat
    BY DEF ProtocolInv, TypeInv, ServerTypeOK, ExecInv, ExecutedAtMostOnce, NamedInv,
           SuccessExecuted
  <2> QED
    BY <2>1
<1> QED
  BY <1>1, ProtocolInvAlways, ProtocolInvStep, ProtocolInvInit, NamedInvInit, NamedInvStep,
     PTL DEF PromptSpec

-----------------------------------------------------------------------------
(* Why only a lost session costs a call, for as long as the first server   *)
(* process lives.  Between two calls nothing is under way.  During a call  *)
(* there is one frame, the one whose answer the call waits for or that     *)
(* answer, and the call holds what makes the server accept it: a nonce     *)
(* that stands, the server's key, a counter above all that were used.      *)
(* Hence a call fails only if the session it found is gone, and it drops   *)
(* that session; a call that finds none opens one.  So the failures are    *)
(* paid by sessions that were opened and that neither side counts on any   *)
(* more (Budget).                                                          *)
FirstKey == 1

Stands(nonce) == Check(authNonces, nonce)

KeyComes ==
  \/ net = {} /\ remoteTransportPublicKey = FirstKey
  \/ /\ net = {GetKey} \/ net = {[type |-> "publicKey", key |-> FirstKey]}
     /\ remoteTransportPublicKey = NoKey

CountersBelow(counter) ==
  \A sid \in DOMAIN sessionsById : sessionsById[sid].snakeCounter.lastProcessed < counter

AskedBy(c, m) ==
  /\ m.tid = call[c].tid
  /\ \/ /\ call[c].phase = "nonce"
        /\ m.type = "getNonce" /\ m.sid = NoSession
     \/ /\ call[c].phase = "auth"
        /\ m.type = "auth" /\ m.sid = NoSession /\ m.key = FirstKey /\ Stands(m.nonce)
     \/ /\ call[c].phase = "user"
        /\ m.type = "user" /\ m.sid = sessionId /\ m.key = FirstKey
        /\ CountersBelow(m.counter) /\ m.counter < sessionNonceCounter

AnswerTo(c, m) ==
  /\ m.tid = call[c].tid
  /\ \/ /\ call[c].phase = "nonce"
        /\ m.type = "nonce" /\ Stands(m.nonce)
     \/ /\ call[c].phase = "auth"
        /\ m.type = "session" /\ m.key = FirstKey /\ LiveSession(m.sid)
     \/ /\ call[c].phase = "user"
        /\ m.type = "result" /\ m.key = FirstKey /\ m.status = "ok"
     \/ /\ call[c].phase = "user"
        /\ m.type = "plain" /\ m.status = "srv" /\ ~LiveSession(sessionId)

AnswerComes(c) ==
  \/ Reply(c) = Pending /\ \E m \in net : net = {m} /\ (AskedBy(c, m) \/ AnswerTo(c, m))
  \/ net = {} /\ AnswerTo(c, Reply(c))

(* Where the frames of call c are. *)
Expects(c) ==
  /\ call[c].pc = "awaitKey" => KeyComes
  /\ call[c].pc = "wait" => AnswerComes(c)
  /\ call[c].pc \notin {"awaitKey", "wait"} => net = {}
  /\ call[c].pc # "awaitKey" => remoteTransportPublicKey = FirstKey

(* What call c holds. *)
Holds(c) ==
  /\ InAuth(c) => sessionId = NoSession
  /\ call[c].pc \in {"send", "wait"} => call[c].sid = sessionId
  /\ call[c].pc \in {"setKey", "seal"} => Stands(call[c].nonce)
  /\ call[c].pc \in {"readSession", "send"} /\ call[c].phase = "auth" => Stands(call[c].nonce)
  /\ call[c].pc \in {"seal", "setSession"} => aesKey = FirstKey
  /\ call[c].pc \in {"readSession", "send", "wait"} /\ call[c].phase = "auth" =>
       aesKey = FirstKey
  /\ call[c].phase \in {"auth", "user"} /\ call[c].pc \in {"readSession", "send", "wait"} =>
       call[c].aes = FirstKey
  /\ call[c].pc = "setSession" => LiveSession(call[c].granted)
  /\ call[c].pc = "wait" => sessionNonceCounter > 0
  /\ call[c].pc = "wait" /\ call[c].phase = "user" => sessionId # NoSession

(* The sessions that the server or the client counts on. *)
Standing == DOMAIN sessionsById \cup ({sessionId} \ {NoSession})

Failures == {c \in Calls : call[c].outcome = "error"}

Budget ==
  /\ IsFiniteSet(Failures) /\ IsFiniteSet(Standing) /\ IsFiniteSet(opened)
  /\ Cardinality(Failures) + Cardinality(Standing) <= Cardinality(opened)

Undisturbed ==
  /\ \A c \in Calls : Underway(c) => Expects(c) /\ Holds(c)
  /\ (\A c \in Calls : ~Underway(c)) => net = {}
  /\ remoteTransportPublicKey \in {NoKey, FirstKey}
  /\ sessionId # NoSession => aesKey = FirstKey
  /\ CountersBelow(sessionNonceCounter)
  /\ Budget

FirstInv == TransportPublicKey = FirstKey => Undisturbed

(* Counting: one more element at most, or one that is gone. *)
LEMMA OneMore ==
  ASSUME NEW S, IsFiniteSet(S), NEW x, NEW T, T \subseteq S \cup {x}
  PROVE  IsFiniteSet(T) /\ Cardinality(T) \in Nat /\ Cardinality(T) <= Cardinality(S) + 1
PROOF
<1>1. IsFiniteSet(S \cup {x}) /\ Cardinality(S \cup {x}) <= Cardinality(S) + 1
  <2>1. Cardinality(S) \in Nat
    BY FS_CardinalityType
  <2> QED
    BY <2>1, FS_AddElement
<1>2. IsFiniteSet(T) /\ Cardinality(T) <= Cardinality(S \cup {x})
  BY <1>1, FS_Subset
<1>3. Cardinality(T) \in Nat /\ Cardinality(S) \in Nat /\ Cardinality(S \cup {x}) \in Nat
  BY <1>1, <1>2, FS_CardinalityType
<1> QED
  BY <1>1, <1>2, <1>3

LEMMA OneLess ==
  ASSUME NEW S, IsFiniteSet(S), NEW x \in S, NEW T, T \subseteq S \ {x}
  PROVE  IsFiniteSet(T) /\ Cardinality(T) \in Nat /\ Cardinality(T) + 1 <= Cardinality(S)
PROOF
<1>1. IsFiniteSet(S \ {x}) /\ Cardinality(S \ {x}) = Cardinality(S) - 1
  BY FS_RemoveElement
<1>2. IsFiniteSet(T) /\ Cardinality(T) <= Cardinality(S \ {x})
  BY <1>1, FS_Subset
<1>3. Cardinality(T) \in Nat /\ Cardinality(S) \in Nat
  BY <1>2, FS_CardinalityType
<1> QED
  BY <1>1, <1>2, <1>3

LEMMA BudgetStays ==
  ASSUME Budget, Failures' \subseteq Failures, Standing' \subseteq Standing, opened' = opened
  PROVE  Budget'
PROOF
<1>1. /\ IsFiniteSet(Failures) /\ IsFiniteSet(Standing) /\ IsFiniteSet(opened)
      /\ Cardinality(Failures) + Cardinality(Standing) <= Cardinality(opened)
  BY DEF Budget
<1>2. IsFiniteSet(Standing') /\ Cardinality(Standing') <= Cardinality(Standing)
  BY <1>1, FS_Subset
<1>3. IsFiniteSet(Failures') /\ Cardinality(Failures') <= Cardinality(Failures)
  BY <1>1, FS_Subset
<1>4. /\ Cardinality(Failures) \in Nat /\ Cardinality(Standing) \in Nat
      /\ Cardinality(Failures') \in Nat /\ Cardinality(Standing') \in Nat
      /\ Cardinality(opened) \in Nat
  BY <1>1, <1>2, <1>3, FS_CardinalityType
<1>5. Cardinality(Failures') + Cardinality(Standing') <= Cardinality(opened)
  BY <1>1, <1>2, <1>3, <1>4
<1>6. IsFiniteSet(opened') /\ Cardinality(opened') = Cardinality(opened)
  BY <1>1
<1> QED
  BY <1>2, <1>3, <1>5, <1>6 DEF Budget

(* A call fails, and the session it found, which was gone, is dropped. *)
LEMMA BudgetSpent ==
  ASSUME Budget, NEW c, Failures' \subseteq Failures \cup {c},
         sessionId # NoSession, ~LiveSession(sessionId), sessionId' = NoSession,
         UNCHANGED <<sessionsById, opened>>
  PROVE  Budget'
PROOF
<1>1. Standing' \subseteq Standing \ {sessionId} /\ sessionId \in Standing
  BY DEF Standing, LiveSession
<1>2. /\ IsFiniteSet(Failures) /\ IsFiniteSet(Standing) /\ IsFiniteSet(opened)
      /\ Cardinality(Failures) + Cardinality(Standing) <= Cardinality(opened)
  BY DEF Budget
<1>3. IsFiniteSet(Failures') /\ Cardinality(Failures') <= Cardinality(Failures) + 1
  BY <1>2, OneMore
<1>4. IsFiniteSet(Standing') /\ Cardinality(Standing') + 1 <= Cardinality(Standing)
  BY <1>1, <1>2, OneLess
<1>5. /\ Cardinality(Failures) \in Nat /\ Cardinality(Standing) \in Nat
      /\ Cardinality(Failures') \in Nat /\ Cardinality(Standing') \in Nat
      /\ Cardinality(opened) \in Nat
  BY <1>2, <1>3, <1>4, FS_CardinalityType
<1>6. Cardinality(Failures') + Cardinality(Standing') <= Cardinality(opened)
  BY <1>2, <1>3, <1>4, <1>5
<1>7. IsFiniteSet(opened') /\ Cardinality(opened') = Cardinality(opened)
  BY <1>2
<1> QED
  BY <1>3, <1>4, <1>6, <1>7 DEF Budget

(* A session is opened. *)
LEMMA BudgetRaised ==
  ASSUME Budget, Failures' = Failures, NEW sid, Standing' \subseteq Standing \cup {sid},
         NEW o, o \notin opened, opened' = opened \cup {o}
  PROVE  Budget'
PROOF
<1>1. /\ IsFiniteSet(Failures) /\ IsFiniteSet(Standing) /\ IsFiniteSet(opened)
      /\ Cardinality(Failures) + Cardinality(Standing) <= Cardinality(opened)
  BY DEF Budget
<1>2. IsFiniteSet(Standing') /\ Cardinality(Standing') <= Cardinality(Standing) + 1
  BY <1>1, OneMore
<1>3. IsFiniteSet(opened') /\ Cardinality(opened') = Cardinality(opened) + 1
  BY <1>1, FS_AddElement
<1>4. /\ Cardinality(Failures) \in Nat /\ Cardinality(Standing) \in Nat
      /\ Cardinality(Standing') \in Nat /\ Cardinality(opened) \in Nat
  BY <1>1, <1>2, FS_CardinalityType
<1>5. Cardinality(Failures) + Cardinality(Standing') <= Cardinality(opened')
  BY <1>1, <1>2, <1>3, <1>4
<1>6. IsFiniteSet(Failures') /\ Cardinality(Failures') = Cardinality(Failures)
  BY <1>1
<1> QED
  BY <1>2, <1>3, <1>5, <1>6 DEF Budget

(* What a step of call c has to show when no other call is underway. *)
Calling(c) ==
  /\ c \in Calls
  /\ \A d \in Calls : Underway(d) => d = c
  /\ ProtocolInv /\ NamedInv /\ Undisturbed
  /\ TransportPublicKey = FirstKey
  /\ UNCHANGED serverVars

LEMMA CountersStayBelow ==
  ASSUME TypeInv, Undisturbed, UNCHANGED sessionsById,
         sessionNonceCounter' \in {sessionNonceCounter, sessionNonceCounter + 1}
  PROVE  CountersBelow(sessionNonceCounter)'
PROOF
<1>1. sessionNonceCounter \in Nat
  BY DEF TypeInv, ClientInv, ClientTypeOK
<1>2. \A sid \in DOMAIN sessionsById :
        sessionsById[sid].snakeCounter.lastProcessed \in Int
  BY DEF TypeInv, ServerTypeOK, SnakeCounters
<1>3. \A sid \in DOMAIN sessionsById :
        sessionsById[sid].snakeCounter.lastProcessed < sessionNonceCounter
  BY DEF Undisturbed, CountersBelow
<1>4. \A sid \in DOMAIN sessionsById :
        sessionsById[sid].snakeCounter.lastProcessed < sessionNonceCounter'
  BY <1>1, <1>2, <1>3
<1> QED
  BY <1>4 DEF CountersBelow

LEMMA CallStaysUndisturbed ==
  ASSUME NEW c, Calling(c), Alone(c), Budget',
         Underway(c)' => Expects(c)' /\ Holds(c)',
         ~Underway(c)' => net' = {},
         remoteTransportPublicKey' = remoteTransportPublicKey,
         sessionId' # NoSession => aesKey' = FirstKey,
         sessionNonceCounter' \in {sessionNonceCounter, sessionNonceCounter + 1}
  PROVE  Undisturbed'
PROOF
<1>1. \A d \in Calls : d # c => ~Underway(d)'
  BY DEF Calling, Alone, Underway
<1>2. c \in Calls /\ TypeInv /\ Undisturbed /\ sessionsById' = sessionsById
  BY DEF Calling, ProtocolInv, serverVars, serverState
<1>3. CountersBelow(sessionNonceCounter)'
  BY <1>2, CountersStayBelow
<1>4. remoteTransportPublicKey' \in {NoKey, FirstKey}
  BY <1>2 DEF Undisturbed
<1> QED
  BY <1>1, <1>2, <1>3, <1>4 DEF Undisturbed

(* A step in which the call goes on and the session ids stay. *)
LEMMA CallGoesOn ==
  ASSUME NEW c, Calling(c), Alone(c), SameAnswer(call[c], call'[c]),
         Expects(c)', Holds(c)', Underway(c)', sessionId' = sessionId,
         aesKey' \in {aesKey, FirstKey},
         remoteTransportPublicKey' = remoteTransportPublicKey,
         sessionNonceCounter' \in {sessionNonceCounter, sessionNonceCounter + 1}
  PROVE  Undisturbed'
PROOF
<1>1. \A d \in Calls : call'[d].outcome = call[d].outcome
  BY DEF Calling, Alone, SameAnswer
<1>2. Failures' = Failures
  BY <1>1 DEF Failures
<1>3. sessionsById' = sessionsById /\ opened' = opened
  BY DEF Calling, serverVars, serverState
<1>4. Standing' = Standing
  BY <1>3 DEF Standing
<1>5. Budget'
  BY <1>2, <1>3, <1>4, BudgetStays DEF Calling, Undisturbed
<1>6. sessionId' # NoSession => aesKey' = FirstKey
  BY DEF Calling, Undisturbed
<1> QED
  BY <1>5, <1>6, CallStaysUndisturbed

(* The steps of a call that neither post nor wait. *)
LEMMA LocalStepUndisturbed ==
  ASSUME NEW c, Calling(c),
         PassGate(c) \/ EnterAuth(c) \/ SetKey(c) \/ Seal(c) \/ SetSession(c) \/ CopyKey(c)
           \/ ReadSession(c)
  PROVE  Undisturbed'
PROOF
<1>1. c \in Calls /\ ClientTypeOK
  BY DEF Calling, ProtocolInv, TypeInv, ClientInv
<1>2. call[c].pc \in {"gate", "setKey", "seal", "setSession", "copyKey", "readSession"}
  BY DEF PassGate, EnterAuth, SetKey, Seal, SetSession, CopyKey, ReadSession
<1>3. /\ net' = net /\ remoteTransportPublicKey' = remoteTransportPublicKey
      /\ sessionNonceCounter' = sessionNonceCounter
  BY DEF PassGate, EnterAuth, SetKey, Seal, SetSession, CopyKey, ReadSession
<1>4. Expects(c) /\ Holds(c) /\ CallNamed(c)
  BY <1>1, <1>2 DEF Calling, Undisturbed, Underway, NamedInv
<1>5. net = {} /\ remoteTransportPublicKey = FirstKey
  BY <1>2, <1>4 DEF Expects
<1>6. authNonces' = authNonces /\ sessionsById' = sessionsById
  BY DEF Calling, serverVars, serverState
<1>7. ASSUME call'[c].pc \in {"copyKey", "readSession", "seal", "send"}
      PROVE  Expects(c)' /\ Underway(c)'
  BY <1>3, <1>5, <1>7 DEF Expects, Underway
<1>8. CASE PassGate(c)
  <2>1. At(c, "copyKey", "user") /\ sessionId' = sessionId /\ aesKey' = aesKey
    BY <1>8 DEF PassGate, session
  <2>2. /\ Alone(c) /\ call'[c].pc = "copyKey" /\ call'[c].phase = "user"
        /\ SameAnswer(call[c], call'[c])
    BY <1>1, <2>1, AtFields
  <2>3. Holds(c)'
    BY <2>2 DEF Holds, InAuth
  <2> QED
    BY <1>3, <1>7, <2>1, <2>2, <2>3, CallGoesOn
<1>9. CASE EnterAuth(c)
  <2>1. ~authProcessing
    BY <1>2, <1>9 DEF EnterAuth, Calling, ProtocolInv, TypeInv, ClientInv, AuthExclusive,
                      InAuth, Underway
  <2>2. /\ At(c, "readSession", "nonce") /\ sessionId' = sessionId /\ aesKey' = aesKey
        /\ call[c].pc = "gate" /\ call[c].found = NoSession
    BY <1>9, <2>1 DEF EnterAuth, session
  <2>3. /\ Alone(c) /\ call'[c].pc = "readSession" /\ call'[c].phase = "nonce"
        /\ SameAnswer(call[c], call'[c])
    BY <1>1, <2>2, AtFields
  <2>4. sessionId' = NoSession
    BY <1>4, <2>2 DEF CallNamed
  <2>5. Holds(c)'
    BY <2>3, <2>4 DEF Holds
  <2> QED
    BY <1>3, <1>7, <2>2, <2>3, <2>5, CallGoesOn
<1>10. CASE SetKey(c)
  <2>1. /\ At(c, "seal", "auth") /\ sessionId' = sessionId /\ aesKey' = FirstKey
        /\ call[c].pc = "setKey"
    BY <1>5, <1>10 DEF SetKey
  <2>2. /\ Alone(c) /\ call'[c].pc = "seal" /\ call'[c].phase = "auth"
        /\ call'[c].nonce = call[c].nonce
        /\ SameAnswer(call[c], call'[c])
    BY <1>1, <2>1, AtFields DEF SameSession
  <2>3. sessionId = NoSession /\ Stands(call[c].nonce)
    BY <1>4, <2>1 DEF Holds, InAuth
  <2>4. Holds(c)'
    BY <1>6, <2>1, <2>2, <2>3 DEF Holds, Stands
  <2> QED
    BY <1>3, <1>7, <2>1, <2>2, <2>4, CallGoesOn
<1>11. CASE Seal(c)
  <2>1. call[c].pc = "seal" /\ sessionId' = sessionId /\ aesKey' = aesKey
    BY <1>11 DEF Seal, session
  <2>2. sessionId = NoSession /\ Stands(call[c].nonce) /\ aesKey = FirstKey
    BY <1>4, <2>1 DEF Holds, InAuth
  <2>3. /\ Alone(c) /\ call'[c].pc = "readSession" /\ call'[c].phase = "auth"
        /\ call'[c].aes = aesKey /\ call'[c].nonce = call[c].nonce
        /\ SameAnswer(call[c], call'[c])
    BY <1>1, <1>11, <2>2, SealFields DEF FirstKey, NoKey
  <2>4. Holds(c)'
    BY <1>6, <2>1, <2>2, <2>3 DEF Holds, Stands
  <2> QED
    BY <1>3, <1>7, <2>1, <2>3, <2>4, CallGoesOn
<1>12. CASE SetSession(c)
  <2>1. /\ At(c, "copyKey", "user") /\ call[c].pc = "setSession"
        /\ sessionId' = call[c].granted /\ aesKey' = aesKey
    BY <1>12 DEF SetSession
  <2>2. /\ Alone(c) /\ call'[c].pc = "copyKey" /\ call'[c].phase = "user"
        /\ SameAnswer(call[c], call'[c])
    BY <1>1, <2>1, AtFields
  <2>3. Holds(c)'
    BY <2>2 DEF Holds, InAuth
  <2>4. aesKey' = FirstKey /\ LiveSession(call[c].granted)
    BY <1>4, <2>1 DEF Holds
  <2>5. \A d \in Calls : call'[d].outcome = call[d].outcome
    BY <1>1, <2>2 DEF Alone, SameAnswer
  <2>6. Failures' = Failures
    BY <2>5 DEF Failures
  <2>7. Standing' \subseteq Standing
    BY <1>6, <2>1, <2>4 DEF Standing, LiveSession
  <2>8. opened' = opened
    BY DEF Calling, serverVars
  <2>9. Budget'
    BY <2>6, <2>7, <2>8, BudgetStays DEF Calling, Undisturbed
  <2> QED
    BY <1>3, <1>7, <2>2, <2>3, <2>4, <2>9, CallStaysUndisturbed
<1>13. CASE CopyKey(c)
  <2>1. call[c].pc = "copyKey" /\ sessionId' = sessionId /\ aesKey' = aesKey
    BY <1>13 DEF CopyKey, session
  <2>2. sessionId # NoSession
    BY <1>4, <2>1 DEF CallNamed
  <2>3. aesKey = FirstKey
    BY <2>2 DEF Calling, Undisturbed
  <2>4. /\ Alone(c) /\ call'[c].pc = "readSession" /\ call'[c].phase = "user"
        /\ call'[c].aes = aesKey /\ SameAnswer(call[c], call'[c])
    BY <1>1, <1>13, CopyKeyFields
  <2>5. Holds(c)'
    BY <2>3, <2>4 DEF Holds, InAuth
  <2> QED
    BY <1>3, <1>7, <2>1, <2>4, <2>5, CallGoesOn
<1>14. CASE ReadSession(c)
  <2>1. call[c].pc = "readSession" /\ sessionId' = sessionId /\ aesKey' = aesKey
    BY <1>14 DEF ReadSession, session
  <2>2. /\ Alone(c) /\ call'[c].pc = "send" /\ call'[c].phase = call[c].phase
        /\ call'[c].sid = sessionId /\ call'[c].aes = call[c].aes
        /\ call'[c].nonce = call[c].nonce /\ SameAnswer(call[c], call'[c])
    BY <1>1, <1>14, ReadSessionFields
  <2>3. Holds(c)'
    BY <1>4, <1>6, <2>1, <2>2 DEF Holds, InAuth, Stands
  <2> QED
    BY <1>3, <1>7, <2>1, <2>2, <2>3, CallGoesOn
<1> QED
  BY <1>8, <1>9, <1>10, <1>11, <1>12, <1>13, <1>14

(* Asking for the key. *)
LEMMA KeyStepUndisturbed ==
  ASSUME NEW c, Calling(c),
         StartCall(c) \/ KeyArrived(c) \/ (net = {} /\ KeyTimeout(c))
  PROVE  Undisturbed'
PROOF
<1>1. c \in Calls /\ ClientTypeOK
  BY DEF Calling, ProtocolInv, TypeInv, ClientInv
<1>2. /\ remoteTransportPublicKey' = remoteTransportPublicKey
      /\ sessionNonceCounter' = sessionNonceCounter
      /\ sessionId' = sessionId /\ aesKey' = aesKey
  BY DEF StartCall, KeyArrived, KeyTimeout, session
<1>3. ASSUME call[c].pc = "awaitKey" PROVE KeyComes
  BY <1>1, <1>3 DEF Calling, Undisturbed, Underway, Expects
<1>4. CASE StartCall(c)
  <2>1. call[c].pc = "idle"
    BY <1>4 DEF StartCall
  <2>2. net = {}
    BY <2>1 DEF Calling, Undisturbed, Underway
  <2>4. /\ Alone(c) /\ call'[c].found = sessionId
        /\ call'[c].pc = (IF remoteTransportPublicKey = NoKey THEN "awaitKey" ELSE "gate")
        /\ SameAnswer(call[c], call'[c])
    BY <1>1, <1>4, StartCallFields
  <2>5. Holds(c)' /\ Underway(c)'
    BY <2>4 DEF Holds, InAuth, Underway
  <2>6. Expects(c)'
    <3>1. CASE remoteTransportPublicKey = NoKey
      <4>1. net' = {GetKey}
        BY <1>4, <2>2, <3>1 DEF StartCall, Post
      <4> QED
        BY <1>2, <2>4, <3>1, <4>1 DEF Expects, KeyComes
    <3>2. CASE remoteTransportPublicKey # NoKey
      <4>1. net' = {}
        BY <1>4, <2>2, <3>2 DEF StartCall, Post
      <4>2. remoteTransportPublicKey = FirstKey
        BY <3>2 DEF Calling, Undisturbed
      <4> QED
        BY <1>2, <2>4, <3>2, <4>1, <4>2 DEF Expects
    <3> QED
      BY <3>1, <3>2
  <2> QED
    BY <1>2, <2>4, <2>5, <2>6, CallGoesOn
<1>5. CASE KeyArrived(c)
  <2>1. /\ At(c, "gate", "user") /\ call[c].pc = "awaitKey" /\ net' = net
        /\ remoteTransportPublicKey # NoKey
    BY <1>5 DEF KeyArrived
  <2>2. net = {} /\ remoteTransportPublicKey = FirstKey
    BY <1>3, <2>1 DEF KeyComes
  <2>3. /\ Alone(c) /\ call'[c].pc = "gate" /\ call'[c].phase = "user"
        /\ SameAnswer(call[c], call'[c])
    BY <1>1, <2>1, AtFields
  <2>4. Holds(c)' /\ Expects(c)' /\ Underway(c)'
    BY <1>2, <2>1, <2>2, <2>3 DEF Holds, InAuth, Expects, Underway
  <2> QED
    BY <1>2, <2>3, <2>4, CallGoesOn
<1>6. CASE net = {} /\ KeyTimeout(c)
  <2>1. call[c].pc = "awaitKey" /\ remoteTransportPublicKey = NoKey
    BY <1>6 DEF KeyTimeout
  <2>2. KeyComes
    BY <1>3, <2>1
  <2>3. remoteTransportPublicKey # FirstKey
    BY <2>1 DEF NoKey, FirstKey
  <2>4. net # {}
    BY <2>2, <2>3 DEF KeyComes
  <2> QED
    BY <1>6, <2>4
<1> QED
  BY <1>4, <1>5, <1>6

(* The frame that call c posts is one the server will accept. *)
LEMMA SendUndisturbed ==
  ASSUME NEW c, Calling(c), Send(c)
  PROVE  Undisturbed'
PROOF
<1>1. c \in Calls /\ ClientTypeOK
  BY DEF Calling, ProtocolInv, TypeInv, ClientInv
<1>2. call[c].pc = "send" /\ Underway(c)
  BY DEF Send, Underway
<1>3. Expects(c) /\ Holds(c) /\ CallNamed(c)
  BY <1>1, <1>2 DEF Calling, Undisturbed, NamedInv
<1>4. net = {} /\ remoteTransportPublicKey = FirstKey
  BY <1>2, <1>3 DEF Expects
<1>5. /\ sessionId' = sessionId /\ aesKey' = aesKey
      /\ remoteTransportPublicKey' = remoteTransportPublicKey
      /\ sessionNonceCounter' = sessionNonceCounter + 1
      /\ net' = {CallFrame(c)}
  BY <1>4 DEF Send, Post, session
<1>6. sessionNonceCounter \in Nat /\ call[c].phase \in {"nonce", "auth", "user"}
  BY <1>1, CallIsState DEF ClientTypeOK, CallState
<1>7. authNonces' = authNonces /\ sessionsById' = sessionsById
  BY DEF Calling, serverVars, serverState
<1>8. /\ Alone(c) /\ call'[c].pc = "wait" /\ call'[c].phase = call[c].phase
      /\ call'[c].tid = nextTransactionId
      /\ call'[c].sid = call[c].sid /\ call'[c].aes = call[c].aes
      /\ SameAnswer(call[c], call'[c])
  BY <1>1, SendFields DEF SameSession
<1>9. Reply(c)' = Pending
  BY <1>8 DEF Send, Reply
<1>10. call[c].sid = sessionId
  BY <1>2, <1>3 DEF Holds
<1>11. Holds(c)'
  <2>1. sessionNonceCounter' > 0
    BY <1>5, <1>6
  <2>2. call[c].phase = "user" => sessionId # NoSession
    BY <1>2, <1>3, <1>10 DEF CallNamed
  <2>3. InAuth(c)' => InAuth(c)
    BY <1>2, <1>8 DEF InAuth
  <2> QED
    BY <1>2, <1>3, <1>5, <1>8, <1>10, <2>1, <2>2, <2>3 DEF Holds
<1>12. PICK m : m = CallFrame(c)
  OBVIOUS
<1>13. AskedBy(c, m)'
  <2>1. CASE call[c].phase = "nonce"
    <3>1. sessionId = NoSession
      BY <1>2, <1>3, <2>1 DEF Holds, InAuth
    <3>2. m = [type |-> "getNonce", tid |-> nextTransactionId, sid |-> NoSession]
      BY <1>10, <1>12, <2>1, <3>1 DEF CallFrame
    <3> QED
      BY <1>8, <2>1, <3>2 DEF AskedBy
  <2>2. CASE call[c].phase = "auth"
    <3>1. sessionId = NoSession /\ Stands(call[c].nonce) /\ call[c].aes = FirstKey
      BY <1>2, <1>3, <2>2 DEF Holds, InAuth
    <3>2. m = [type |-> "auth", tid |-> nextTransactionId, sid |-> NoSession,
               key |-> FirstKey, nonce |-> call[c].nonce]
      BY <1>10, <1>12, <2>2, <3>1 DEF CallFrame
    <3> QED
      BY <1>7, <1>8, <2>2, <3>1, <3>2 DEF AskedBy, Stands
  <2>3. CASE call[c].phase = "user"
    <3>1. call[c].aes = FirstKey
      BY <1>2, <1>3, <2>3 DEF Holds
    <3>2. m = [type |-> "user", tid |-> nextTransactionId, sid |-> sessionId,
               key |-> FirstKey, counter |-> sessionNonceCounter, call |-> c]
      BY <1>10, <1>12, <2>3, <3>1 DEF CallFrame
    <3>3. CountersBelow(sessionNonceCounter)
      BY DEF Calling, Undisturbed
    <3>4. sessionNonceCounter < sessionNonceCounter'
      BY <1>5, <1>6
    <3> QED
      BY <1>5, <1>7, <1>8, <2>3, <3>2, <3>3, <3>4 DEF AskedBy, CountersBelow
  <2> QED
    BY <1>6, <2>1, <2>2, <2>3
<1>14. AnswerComes(c)'
  BY <1>5, <1>9, <1>12, <1>13 DEF AnswerComes
<1>15. Expects(c)' /\ Underway(c)'
  BY <1>4, <1>5, <1>8, <1>14 DEF Expects, Underway
<1> QED
  BY <1>5, <1>8, <1>11, <1>15, CallGoesOn

(* The end of a wait: always with the answer, and only an answer that says *)
(* the session is gone makes the call fail.                                *)
LEMMA WaitEndsUndisturbed ==
  ASSUME NEW c, Calling(c),
         \/ net = {} /\ call[c].pc = "wait" /\ Reply(c) = Pending /\ Timeout(c)
         \/ NonceAnswered(c) \/ AuthAnswered(c) \/ EncryptedAnswered(c) \/ PlainAnswered(c)
  PROVE  Undisturbed'
PROOF
<1>1. c \in Calls /\ ClientTypeOK
  BY DEF Calling, ProtocolInv, TypeInv, ClientInv
<1>2. call[c].pc = "wait" /\ Underway(c)
  BY DEF NonceAnswered, AuthAnswered, EncryptedAnswered, PlainAnswered, Waiting, Underway
<1>3. Expects(c) /\ Holds(c)
  BY <1>1, <1>2 DEF Calling, Undisturbed
<1>4. AnswerComes(c) /\ remoteTransportPublicKey = FirstKey
  BY <1>2, <1>3 DEF Expects
<1>5. /\ net' = net /\ remoteTransportPublicKey' = remoteTransportPublicKey
      /\ sessionNonceCounter' = sessionNonceCounter
  BY DEF Timeout, NonceAnswered, AuthAnswered, EncryptedAnswered, PlainAnswered
<1>6. /\ authNonces' = authNonces /\ sessionsById' = sessionsById
      /\ opened' = opened
  BY DEF Calling, serverVars, serverState
<1>7. Pending.type = "pending"
  BY DEF Pending
<1>8. ~(net = {} /\ Reply(c) = Pending)
  BY <1>4, <1>7 DEF AnswerComes, AnswerTo
<1>9. Reply(c) # Pending
  BY <1>7, <1>8 DEF NonceAnswered, AuthAnswered, EncryptedAnswered, PlainAnswered
<1>10. net = {} /\ AnswerTo(c, Reply(c))
  BY <1>4, <1>9 DEF AnswerComes
<1>11. ASSUME Underway(c)', call'[c].pc # "wait", call'[c].pc # "awaitKey" PROVE Expects(c)'
  BY <1>4, <1>5, <1>10, <1>11 DEF Expects
<1>12. CASE NonceAnswered(c)
  <2>1. call[c].phase = "nonce" /\ sessionId = NoSession
    BY <1>3, <1>12 DEF NonceAnswered, Waiting, Holds, InAuth
  <2>2. Reply(c).type = "nonce" /\ Stands(Reply(c).nonce)
    BY <1>10, <2>1 DEF AnswerTo
  <2>3. sessionId' = sessionId /\ aesKey' = aesKey
    BY <1>12, <2>2 DEF NonceAnswered, session
  <2>4. /\ Alone(c) /\ call'[c].pc = "setKey" /\ call'[c].nonce = Reply(c).nonce
        /\ SameAnswer(call[c], call'[c])
    BY <1>1, <1>12, <2>2, NonceFields
  <2>5. Holds(c)' /\ Underway(c)'
    BY <1>6, <2>1, <2>2, <2>3, <2>4 DEF Holds, Stands, Underway
  <2> QED
    BY <1>5, <1>11, <2>3, <2>4, <2>5, CallGoesOn
<1>13. CASE AuthAnswered(c)
  <2>1. call[c].phase = "auth" /\ sessionId = NoSession /\ aesKey = FirstKey
    BY <1>3, <1>13 DEF AuthAnswered, Waiting, Holds, InAuth
  <2>2. Reply(c).type = "session" /\ Reply(c).key = aesKey /\ LiveSession(Reply(c).sid)
    BY <1>10, <2>1 DEF AnswerTo
  <2>3. sessionId' = sessionId /\ aesKey' = aesKey
    BY <1>13, <2>2 DEF AuthAnswered, session
  <2>4. /\ Alone(c) /\ call'[c].pc = "setSession" /\ call'[c].granted = Reply(c).sid
        /\ SameAnswer(call[c], call'[c])
    BY <1>1, <1>13, <2>2, AuthFields
  <2>5. Holds(c)' /\ Underway(c)'
    BY <1>6, <2>1, <2>2, <2>3, <2>4 DEF Holds, LiveSession, Underway
  <2> QED
    BY <1>5, <1>11, <2>3, <2>4, <2>5, CallGoesOn
<1>14. ASSUME call[c].phase = "user" PROVE call[c].aes = FirstKey /\ sessionId # NoSession
  BY <1>2, <1>3, <1>14 DEF Holds
<1>15. CASE EncryptedAnswered(c)
  <2>1. call[c].phase = "user"
    BY <1>15 DEF EncryptedAnswered, Waiting
  <2>2. CASE Reply(c).type = "result"
    <3>1. Decrypted(c) /\ Reply(c).status = "ok"
      BY <1>10, <1>14, <2>1, <2>2 DEF AnswerTo, Decrypted
    <3>2. Return(c, "ok", Reply(c).call) /\ sessionId' = sessionId /\ aesKey' = aesKey
      BY <1>15, <3>1 DEF EncryptedAnswered, session
    <3>3. Alone(c) /\ call'[c].pc = "done" /\ call'[c].outcome = "ok"
      BY <1>1, <3>2, ReturnFields
    <3>5. Failures' \subseteq Failures
      BY <3>3 DEF Failures, Alone
    <3>6. Standing' = Standing
      BY <1>6, <3>2 DEF Standing
    <3>7. Budget'
      BY <1>6, <3>5, <3>6, BudgetStays DEF Calling, Undisturbed
    <3>8. sessionId' # NoSession => aesKey' = FirstKey
      BY <3>2 DEF Calling, Undisturbed
    <3> QED
      BY <1>5, <1>10, <3>3, <3>7, <3>8, CallStaysUndisturbed DEF Underway
  <2>3. CASE Reply(c).type # "result"
    <3>1. ~LiveSession(sessionId)
      BY <1>10, <2>1, <2>3 DEF AnswerTo
    <3>2. Fail(c) /\ Reset
      BY <1>15, <2>3 DEF EncryptedAnswered, Decrypted
    <3>3. Alone(c) /\ call'[c].pc = "done"
      BY <1>1, <3>2, ReturnFields DEF Fail
    <3>4. Failures' \subseteq Failures \cup {c}
      BY <3>3 DEF Failures, Alone
    <3>5. sessionId # NoSession /\ sessionId' = NoSession
      BY <1>14, <2>1, <3>2 DEF Reset
    <3>6. Budget'
      BY <1>6, <3>1, <3>4, <3>5, BudgetSpent DEF Calling, Undisturbed
    <3> QED
      BY <1>5, <1>10, <3>3, <3>5, <3>6, CallStaysUndisturbed DEF Underway
  <2> QED
    BY <2>2, <2>3
<1>16. ~PlainAnswered(c)
  BY <1>14 DEF PlainAnswered, Waiting, FirstKey, NoKey
<1> QED
  BY <1>8, <1>12, <1>13, <1>15, <1>16

-----------------------------------------------------------------------------
(* The nonce that is handed out stands. *)
LEMMA NextStands ==
  ASSUME NEW ring \in Rings, NEW tag \in Nat
  PROVE  Check(AfterNext(ring, tag), NextNonce(ring, tag))
PROOF
<1> DEFINE i == ring.currentIndex
<1> DEFINE filled == fillNonce(ring, i, tag)
<1> DEFINE next == IF filled.currentIndex + 1 >= NonceCount THEN 0 ELSE filled.currentIndex + 1
<1>1. i \in Indexes
  BY DEF Rings
<1>2. filled.nonces[i] = [index |-> i, tag |-> tag] /\ filled \in Rings
  <2> DEFINE cells == [ring.nonces EXCEPT ![i] = [index |-> i, tag |-> tag]]
  <2>1. filled = [ring EXCEPT !.nonces = cells]
    BY DEF fillNonce
  <2>2. cells[i] = [index |-> i, tag |-> tag]
    BY <1>1 DEF Rings
  <2> HIDE DEF cells
  <2>3. [ring EXCEPT !.nonces = cells].nonces = cells
    BY DEF Rings
  <2>4. filled \in Rings
    BY <1>1, FillType
  <2> HIDE DEF filled
  <2> QED
    BY <2>1, <2>2, <2>3, <2>4
<1>3. AfterNext(ring, tag) = [filled EXCEPT !.currentIndex = next]
  BY DEF AfterNext
<1> HIDE DEF filled, next
<1>4. AfterNext(ring, tag).nonces = filled.nonces
  BY <1>2, <1>3 DEF Rings
<1> QED
  BY <1>1, <1>2, <1>4 DEF NextNonce, Check

(* What a step at one frame has to show.  The frame that is taken is the   *)
(* only one; whose it is depends on where the call is that is underway.    *)
Serving(m) ==
  /\ m \in net
  /\ ProtocolInv /\ NamedInv /\ Undisturbed
  /\ TransportPublicKey = FirstKey
  /\ UNCHANGED repeats

AtKey(c, m) ==
  /\ c \in Calls /\ call[c].pc = "awaitKey"
  /\ remoteTransportPublicKey = NoKey /\ net = {m}
  /\ m \in {GetKey, [type |-> "publicKey", key |-> FirstKey]}

AtAnswer(c, m) ==
  /\ c \in Calls /\ call[c].pc = "wait"
  /\ Reply(c) = Pending /\ net = {m}
  /\ AskedBy(c, m) \/ AnswerTo(c, m)

LEMMA OneFrame ==
  ASSUME NEW m, Serving(m)
  PROVE  \E c \in Calls : AtKey(c, m) \/ AtAnswer(c, m)
PROOF
<1>1. PICK c \in Calls : Underway(c)
  BY DEF Serving, Undisturbed
<1>2. Expects(c) /\ m \in net
  BY <1>1 DEF Serving, Undisturbed
<1>3. CASE call[c].pc = "awaitKey"
  <2>1. KeyComes
    BY <1>2, <1>3 DEF Expects
  <2>2. AtKey(c, m)
    BY <1>2, <1>3, <2>1 DEF KeyComes, AtKey
  <2> QED
    BY <2>2
<1>4. CASE call[c].pc = "wait"
  <2>1. AnswerComes(c)
    BY <1>2, <1>4 DEF Expects
  <2>2. AtAnswer(c, m)
    BY <1>2, <1>4, <2>1 DEF AnswerComes, AtAnswer
  <2> QED
    BY <2>2
<1> QED
  BY <1>2, <1>3, <1>4 DEF Expects

LEMMA OneTaken ==
  ASSUME NEW m, Serving(m), net = {m}, NEW frames, Exchange(m, frames)
  PROVE  net' = frames
PROOF
<1>1. repeats \in Nat
  BY MaxRepeatsAssumption DEF Serving, ProtocolInv, TypeInv, ClientInv, FramesTypeOK
<1>2. repeats' # repeats + 1
  BY <1>1 DEF Serving
<1>3. net' = (net \ {m}) \cup frames
  BY <1>2 DEF Exchange
<1> QED
  BY <1>3

LEMMA FrameStaysUndisturbed ==
  ASSUME NEW m, Serving(m), NEW c \in Calls, Underway(c), call[c].pc \in {"awaitKey", "wait"},
         UNCHANGED <<call, session, sessionNonceCounter>>,
         remoteTransportPublicKey' \in {NoKey, FirstKey},
         Expects(c)', Budget', CountersBelow(sessionNonceCounter)'
  PROVE  Undisturbed'
PROOF
<1>1. \A d \in Calls : Underway(d)' => d = c
  BY DEF Serving, NamedInv, OneUnderway, Underway
<1>2. sessionId' = sessionId /\ aesKey' = aesKey
  BY DEF session
<1>3. Holds(c)
  BY DEF Serving, Undisturbed
<1>4. Holds(c)'
  BY <1>2, <1>3 DEF Holds, InAuth
<1>5. Underway(c)'
  BY DEF Underway
<1> QED
  BY <1>1, <1>2, <1>4, <1>5 DEF Serving, Undisturbed

(* A step at a frame that leaves the sessions as they are.                 *)
LEMMA FrameLeavesSessions ==
  ASSUME NEW m, Serving(m), NEW c \in Calls, call[c].pc \in {"awaitKey", "wait"},
         UNCHANGED <<call, session, sessionNonceCounter, sessionsById, opened>>,
         remoteTransportPublicKey' \in {NoKey, FirstKey}, Expects(c)'
  PROVE  Undisturbed'
PROOF
<1>1. Failures' = Failures
  BY DEF Failures
<1>2. Standing' = Standing
  BY DEF Standing, session
<1>3. Budget'
  BY <1>1, <1>2, BudgetStays DEF Serving, Undisturbed
<1>4. CountersBelow(sessionNonceCounter)'
  BY DEF Serving, Undisturbed, CountersBelow
<1>5. Underway(c)
  BY DEF Underway
<1> QED
  BY <1>3, <1>4, <1>5, FrameStaysUndisturbed

LEMMA ReceiveUndisturbed ==
  ASSUME NEW m, Serving(m), ClientReceive(m), UNCHANGED serverVars
  PROVE  Undisturbed'
PROOF
<1>1. PICK c \in Calls : AtKey(c, m) \/ AtAnswer(c, m)
  BY OneFrame
<1>2. UNCHANGED <<call, session, sessionNonceCounter, sessionsById, opened, authNonces>>
  BY DEF ClientReceive, ReceivePublicKey, ReceiveResponse, serverVars, serverState
<1>3. net = {m} /\ Exchange(m, {})
  BY <1>1 DEF ClientReceive, ReceivePublicKey, ReceiveResponse, AtKey, AtAnswer
<1>4. net' = {}
  BY <1>3, OneTaken
<1>5. CASE AtKey(c, m)
  <2>1. m = [type |-> "publicKey", key |-> FirstKey]
    BY <1>5 DEF AtKey, GetKey, ClientReceive, ReceivePublicKey, ReceiveResponse
  <2>2. remoteTransportPublicKey' = FirstKey
    BY <2>1 DEF ClientReceive, ReceivePublicKey, ReceiveResponse
  <2>3. call[c].pc = "awaitKey" /\ call'[c].pc = "awaitKey"
    BY <1>2, <1>5 DEF AtKey
  <2>4. Expects(c)'
    BY <1>4, <2>2, <2>3 DEF Expects, KeyComes
  <2> QED
    BY <1>2, <2>2, <2>3, <2>4, FrameLeavesSessions
<1>6. CASE AtAnswer(c, m)
  <2>1. call[c].pc = "wait" /\ AnswerTo(c, m) /\ m.tid = call[c].tid
    <3>1. ~AskedBy(c, m)
      BY DEF AskedBy, ClientReceive, ReceivePublicKey, ReceiveResponse
    <3> QED
      BY <1>6, <3>1 DEF AtAnswer, AnswerTo
  <2>2. ReceiveResponse(m)
    BY <2>1 DEF AnswerTo, ClientReceive, ReceivePublicKey
  <2>3. m.tid \in DOMAIN outgoingTransactions
    BY <2>1 DEF Serving, ProtocolInv, TypeInv, ClientInv, TransactionInv, OutgoingExact
  <2>4. outgoingTransactions[m.tid] = Pending
    BY <1>6, <2>1 DEF AtAnswer, Reply
  <2>5. outgoingTransactions'[m.tid] = m
    BY <2>2, <2>3, <2>4 DEF ReceiveResponse
  <2>6. Reply(c)' = m /\ call'[c].pc = "wait"
    BY <1>2, <2>1, <2>5 DEF Reply
  <2>7. AnswerTo(c, m)'
    BY <1>2, <2>1 DEF AnswerTo, Stands, LiveSession, session
  <2>8. AnswerComes(c)'
    BY <1>4, <2>6, <2>7 DEF AnswerComes
  <2>9. remoteTransportPublicKey = FirstKey
    BY <1>1, <2>1 DEF Serving, Undisturbed, Underway, Expects
  <2>10. remoteTransportPublicKey' = FirstKey
    BY <2>2, <2>9 DEF ReceiveResponse
  <2>11. Expects(c)'
    BY <2>6, <2>8, <2>10 DEF Expects
  <2> QED
    BY <1>2, <2>1, <2>10, <2>11, FrameLeavesSessions
<1> QED
  BY <1>1, <1>5, <1>6

(* The key, and a nonce. *)
LEMMA SendKeyUndisturbed ==
  ASSUME NEW m, Serving(m), SendPublicKey(m), UNCHANGED clientVars
  PROVE  Undisturbed'
PROOF
<1>1. PICK c \in Calls : AtKey(c, m) \/ AtAnswer(c, m)
  BY OneFrame
<1>2. /\ UNCHANGED <<call, session, sessionNonceCounter, sessionsById, opened>>
      /\ remoteTransportPublicKey' = remoteTransportPublicKey
  BY DEF SendPublicKey, clientVars, serverVars, serverState
<1>3. AtKey(c, m)
  BY <1>1 DEF SendPublicKey, AtAnswer, AskedBy, AnswerTo
<1>4. net' = {[type |-> "publicKey", key |-> FirstKey]}
  BY <1>3, OneTaken DEF SendPublicKey, Serving, AtKey
<1>5. call'[c].pc = "awaitKey" /\ remoteTransportPublicKey' = NoKey
  BY <1>2, <1>3 DEF AtKey
<1>6. Expects(c)'
  BY <1>4, <1>5 DEF Expects, KeyComes
<1> QED
  BY <1>2, <1>3, <1>5, <1>6, FrameLeavesSessions DEF AtKey

(* Where the call is whose request is handled. *)
LEMMA OneRequest ==
  ASSUME NEW m, Serving(m), m.type \in {"getNonce", "auth", "user"}
  PROVE  \E c \in Calls : AtAnswer(c, m) /\ AskedBy(c, m)
PROOF
<1>1. PICK c \in Calls : AtKey(c, m) \/ AtAnswer(c, m)
  BY OneFrame
<1>2. ~AtKey(c, m) /\ ~AnswerTo(c, m)
  BY DEF AtKey, AnswerTo, GetKey
<1> QED
  BY <1>1, <1>2 DEF AtAnswer

(* The answer is under way. *)
LEMMA AnswerExpected ==
  ASSUME NEW m, Serving(m), NEW c, AtAnswer(c, m), UNCHANGED clientVars,
         NEW r, Exchange(m, {r}), AnswerTo(c, r)'
  PROVE  Expects(c)' /\ remoteTransportPublicKey' \in {NoKey, FirstKey}
PROOF
<1>1. net' = {r}
  BY OneTaken DEF AtAnswer
<1>2. call' = call /\ Reply(c)' = Pending /\ remoteTransportPublicKey' = remoteTransportPublicKey
  BY DEF clientVars, AtAnswer, Reply
<1>3. remoteTransportPublicKey = FirstKey
  BY DEF AtAnswer, Serving, Undisturbed, Underway, Expects
<1>4. AnswerComes(c)'
  BY <1>1, <1>2 DEF AnswerComes
<1> QED
  BY <1>2, <1>3, <1>4 DEF AtAnswer, Expects

LEMMA GetNonceUndisturbed ==
  ASSUME NEW m, Serving(m), GetNonce(m), UNCHANGED clientVars
  PROVE  Undisturbed'
PROOF
<1>1. PICK c \in Calls : AtAnswer(c, m) /\ AskedBy(c, m)
  BY OneRequest DEF GetNonce
<1>2. UNCHANGED <<call, session, sessionNonceCounter, sessionsById, opened>>
  BY DEF GetNonce, clientVars
<1>3. PICK r : r = [type |-> "nonce", tid |-> m.tid, nonce |-> NextNonce(authNonces, drawn + 1)]
  OBVIOUS
<1>4. authNonces \in Rings /\ drawn + 1 \in Nat
  BY DEF Serving, ProtocolInv, TypeInv, ServerTypeOK, Rings
<1>5. Check(AfterNext(authNonces, drawn + 1), NextNonce(authNonces, drawn + 1))
  BY <1>4, NextStands
<1>6. authNonces' = AfterNext(authNonces, drawn + 1) /\ Exchange(m, {r})
  BY <1>3 DEF GetNonce
<1>7. r.type = "nonce" /\ r.tid = m.tid /\ r.nonce = NextNonce(authNonces, drawn + 1)
  BY <1>3
<1>8. call[c].phase = "nonce" /\ m.tid = call[c].tid
  BY <1>1 DEF AskedBy, GetNonce
<1>9. Stands(r.nonce)'
  BY <1>5, <1>6, <1>7 DEF Stands
<1>10. AnswerTo(c, r)'
  BY <1>2, <1>7, <1>8, <1>9 DEF AnswerTo
<1>11. Expects(c)' /\ remoteTransportPublicKey' \in {NoKey, FirstKey}
  BY <1>1, <1>6, <1>10, AnswerExpected
<1> QED
  BY <1>1, <1>2, <1>11, FrameLeavesSessions DEF AtAnswer

(* A call is refused only if its session is gone. *)
LEMMA RefuseUndisturbed ==
  ASSUME NEW m, Serving(m), RefuseSession(m), UNCHANGED clientVars
  PROVE  Undisturbed'
PROOF
<1>1. PICK c \in Calls : AtAnswer(c, m) /\ AskedBy(c, m)
  BY OneRequest DEF RefuseSession
<1>2. UNCHANGED <<call, session, sessionNonceCounter, sessionsById, opened>>
  BY DEF RefuseSession, clientVars, serverVars, serverState
<1>3. /\ call[c].phase = "user" /\ m.type = "user" /\ m.sid = sessionId
      /\ m.key = FirstKey /\ m.tid = call[c].tid
  BY <1>1 DEF AskedBy, RefuseSession
<1>4. ~LiveSession(sessionId)
  BY <1>3 DEF RefuseSession, Decrypts, LiveSession, Serving, ProtocolInv, ExecInv, SessionsCurrent
<1>5. PICK r : r = Plain(m, "srv")
  OBVIOUS
<1>6. r.type = "plain" /\ r.tid = m.tid /\ r.status = "srv" /\ Exchange(m, {r})
  BY <1>5 DEF RefuseSession, Plain
<1>7. AnswerTo(c, r)'
  BY <1>2, <1>3, <1>4, <1>6 DEF AnswerTo, LiveSession, session
<1>8. Expects(c)' /\ remoteTransportPublicKey' \in {NoKey, FirstKey}
  BY <1>1, <1>6, <1>7, AnswerExpected
<1> QED
  BY <1>1, <1>2, <1>8, FrameLeavesSessions DEF AtAnswer

(* A session is opened; the nonce shows that it was not opened before.     *)
LEMMA AuthUndisturbed ==
  ASSUME NEW m, Serving(m), AuthAccepted(m), UNCHANGED clientVars
  PROVE  Undisturbed'
PROOF
<1>1. PICK c \in Calls : AtAnswer(c, m) /\ AskedBy(c, m)
  BY OneRequest DEF AuthAccepted, AuthPresented
<1>2. UNCHANGED <<call, session, sessionNonceCounter>>
  BY DEF clientVars
<1>3. call[c].phase = "auth" /\ m.tid = call[c].tid /\ m.key = FirstKey
  BY <1>1 DEF AskedBy, AuthAccepted, AuthPresented
<1>4. /\ DOMAIN sessionsById' = DOMAIN sessionsById \cup {nextSessionId}
      /\ sessionsById'[nextSessionId] = NewSession(m.key)
      /\ \A sid \in DOMAIN sessionsById :
           sid # nextSessionId => sessionsById'[sid] = sessionsById[sid]
  BY DEF AuthAccepted
<1>5. PICK r : r = [type |-> "session", tid |-> m.tid, key |-> m.key, sid |-> nextSessionId]
  OBVIOUS
<1>6. /\ r.type = "session" /\ r.tid = m.tid /\ r.key = FirstKey /\ r.sid = nextSessionId
      /\ Exchange(m, {r})
  BY <1>3, <1>5 DEF AuthAccepted
<1>7. AnswerTo(c, r)'
  BY <1>2, <1>3, <1>4, <1>6 DEF AnswerTo, LiveSession
<1>8. Expects(c)' /\ remoteTransportPublicKey' \in {NoKey, FirstKey}
  BY <1>1, <1>6, <1>7, AnswerExpected
<1>9. CountersBelow(sessionNonceCounter)'
  <2>1. NewSession(m.key).snakeCounter.lastProcessed = 0
    BY NewSnakeCounterType DEF NewSession
  <2>2. 0 < sessionNonceCounter
    BY <1>1 DEF AtAnswer, Serving, Undisturbed, Underway, Holds
  <2> QED
    BY <1>2, <1>4, <2>1, <2>2 DEF Serving, Undisturbed, CountersBelow
<1>10. Budget'
  <2>1. Failures' = Failures
    BY <1>2 DEF Failures
  <2>2. Standing' \subseteq Standing \cup {nextSessionId}
    BY <1>2, <1>4 DEF Standing, session
  <2>3. PICK o : o = [key |-> m.key, sid |-> nextSessionId, nonce |-> m.nonce]
    OBVIOUS
  <2>4. opened' = opened \cup {o} /\ o.nonce = m.nonce
    BY <2>3 DEF AuthAccepted
  <2>5. o \notin opened
    BY <2>4 DEF AuthAccepted, AuthPresented, Serving, ProtocolInv, OpenInv, OpenedSpent
  <2> QED
    BY <2>1, <2>2, <2>4, <2>5, BudgetRaised DEF Serving, Undisturbed
<1>11. Underway(c)
  BY <1>1 DEF AtAnswer, Underway
<1> QED
  BY <1>1, <1>2, <1>8, <1>9, <1>10, <1>11, FrameStaysUndisturbed DEF AtAnswer

(* A call of a live session is executed, because its counter is ahead of   *)
(* all that the session has seen.                                          *)
LEMMA SessionCallUndisturbed ==
  ASSUME CallbackResults \subseteq {"ok"},
         NEW m, Serving(m), SessionCall(m), UNCHANGED clientVars
  PROVE  Undisturbed'
PROOF
<1> DEFINE s == sessionsById[m.sid]
<1>1. PICK c \in Calls : AtAnswer(c, m) /\ AskedBy(c, m)
  BY OneRequest DEF SessionCall
<1>2. UNCHANGED <<call, session, sessionNonceCounter, opened>>
  BY DEF SessionCall, clientVars
<1>3. /\ call[c].phase = "user" /\ m.tid = call[c].tid
      /\ CountersBelow(m.counter) /\ m.counter < sessionNonceCounter
  BY <1>1 DEF AskedBy, SessionCall
<1>4. /\ m.sid \in DOMAIN sessionsById /\ s.snakeCounter.lastProcessed < m.counter
      /\ s.aesKey = FirstKey
  BY <1>3 DEF SessionCall, LiveSession, CountersBelow, Serving, ProtocolInv, ExecInv,
              SessionsCurrent
<1>5. s \in Sessions /\ s.snakeCounter \in SnakeCounters /\ m.counter \in Nat
  BY <1>4, FrameShape DEF Serving, ProtocolInv, TypeInv, ServerTypeOK, Sessions, ClientInv,
                          FramesTypeOK, SessionCall
<1>6. Ahead(s.snakeCounter, m.counter) /\ Accepts(s.snakeCounter, m.counter)
  <2>1. s.snakeCounter.lastProcessed \in Int
    BY <1>5 DEF SnakeCounters
  <2> HIDE DEF s
  <2>2. Ahead(s.snakeCounter, m.counter)
    BY <1>4, <1>5, <2>1 DEF Ahead
  <2>3. ~TooLess(s.snakeCounter, m.counter)
    BY <1>4, <1>5, <2>1, SizeAssumption DEF TooLess
  <2> QED
    BY <2>2, <2>3 DEF Accepts, Verdict
<1>7. PICK status \in CallbackResults :
        Exchange(m, {[type |-> "result", tid |-> m.tid, key |-> s.aesKey,
                      status |-> status, call |-> m.call]})
  BY <1>6 DEF SessionCall
<1>8. PICK r : r = [type |-> "result", tid |-> m.tid, key |-> s.aesKey,
                    status |-> status, call |-> m.call]
  OBVIOUS
<1>9. /\ r.type = "result" /\ r.tid = m.tid /\ r.key = FirstKey /\ r.status = "ok"
      /\ Exchange(m, {r})
  BY <1>4, <1>7, <1>8
<1>10. AnswerTo(c, r)'
  BY <1>2, <1>3, <1>9 DEF AnswerTo
<1>11. Expects(c)' /\ remoteTransportPublicKey' \in {NoKey, FirstKey}
  BY <1>1, <1>9, <1>10, AnswerExpected
<1>12. /\ DOMAIN sessionsById' = DOMAIN sessionsById
       /\ sessionsById'[m.sid].snakeCounter.lastProcessed = m.counter
       /\ \A t \in DOMAIN sessionsById : t # m.sid => sessionsById'[t] = sessionsById[t]
  <2> DEFINE declared == Declare(s.snakeCounter, m.counter)
  <2>1. sessionsById' = [sessionsById EXCEPT ![m.sid] = [s EXCEPT !.snakeCounter = declared]]
    BY <1>6 DEF SessionCall
  <2>2. declared.lastProcessed = m.counter
    BY <1>6 DEF Declare
  <2> HIDE DEF declared
  <2>3. [s EXCEPT !.snakeCounter = declared].snakeCounter = declared
    BY <1>5 DEF Sessions
  <2> HIDE DEF s
  <2> QED
    BY <1>4, <2>1, <2>2, <2>3
<1>13. CountersBelow(sessionNonceCounter)'
  <2>1. \A t \in DOMAIN sessionsById' :
          sessionsById'[t].snakeCounter.lastProcessed < sessionNonceCounter
    BY <1>3, <1>12 DEF Serving, Undisturbed, CountersBelow
  <2> QED
    BY <1>2, <2>1 DEF CountersBelow
<1>14. Budget'
  <2>1. Failures' = Failures
    BY <1>2 DEF Failures
  <2>2. Standing' = Standing
    BY <1>2, <1>12 DEF Standing, session
  <2> QED
    BY <1>2, <2>1, <2>2, BudgetStays DEF Serving, Undisturbed
<1>15. Underway(c)
  BY <1>1 DEF AtAnswer, Underway
<1> QED
  BY <1>1, <1>2, <1>11, <1>13, <1>14, <1>15, FrameStaysUndisturbed DEF AtAnswer

LEMMA HandleUndisturbed ==
  ASSUME CallbackResults \subseteq {"ok"},
         NEW m, Serving(m), PromptHandle(m), UNCHANGED clientVars
  PROVE  Undisturbed'
PROOF
<1>1. ~SessionlessUserCall(m)
  BY DEF SessionlessUserCall, Serving, NamedInv, FramesNamed, Named
<1>2. ~AuthIgnored(m)
  <2> SUFFICES ASSUME AuthIgnored(m) PROVE FALSE
    OBVIOUS
  <2>1. PICK c \in Calls : AskedBy(c, m)
    BY OneRequest DEF AuthIgnored
  <2>2. m.key = FirstKey /\ Stands(m.nonce)
    BY <2>1 DEF AskedBy, AuthIgnored
  <2> QED
    BY <2>2 DEF AuthIgnored, AuthPresented, Stands, Serving
<1> QED
  BY <1>1, <1>2, SendKeyUndisturbed, RefuseUndisturbed, SessionCallUndisturbed,
     GetNonceUndisturbed, AuthUndisturbed DEF PromptHandle

(* Between two calls a session is purged: the client may still count on it. *)
LEMMA PurgeUndisturbed ==
  ASSUME ProtocolInv, Undisturbed, \A c \in Calls : ~Underway(c), UNCHANGED clientVars,
         NEW sid \in DOMAIN sessionsById, PurgeSession(sid)
  PROVE  Undisturbed'
PROOF
<1>1. /\ UNCHANGED <<call, sessionId, aesKey, sessionNonceCounter, net, opened>>
      /\ remoteTransportPublicKey' = remoteTransportPublicKey
  BY DEF PurgeSession, clientVars, session
<1>2. /\ DOMAIN sessionsById' \subseteq DOMAIN sessionsById
      /\ \A t \in DOMAIN sessionsById' : sessionsById'[t] = sessionsById[t]
  BY DEF PurgeSession
<1>3. Failures' = Failures
  BY <1>1 DEF Failures
<1>4. Standing' \subseteq Standing
  BY <1>1, <1>2 DEF Standing
<1>5. Budget'
  BY <1>1, <1>3, <1>4, BudgetStays DEF Undisturbed
<1>6. CountersBelow(sessionNonceCounter)'
  BY <1>1, <1>2 DEF Undisturbed, CountersBelow
<1>7. \A c \in Calls : ~Underway(c)'
  BY <1>1 DEF Underway
<1> QED
  BY <1>1, <1>5, <1>6, <1>7 DEF Undisturbed

LEMMA PromptStepUndisturbed ==
  ASSUME ProtocolInv, NamedInv, Undisturbed, TransportPublicKey = FirstKey,
         NEW c \in Calls, \A d \in Calls \ {c} : ~Underway(d), PromptStep(c),
         UNCHANGED serverVars
  PROVE  Undisturbed'
PROOF
<1>1. Calling(c)
  BY DEF Calling
<1>2. CASE StartCall(c) \/ KeyArrived(c) \/ (net = {} /\ KeyTimeout(c))
  BY <1>1, <1>2, KeyStepUndisturbed
<1>3. CASE PassGate(c) \/ EnterAuth(c) \/ SetKey(c) \/ Seal(c) \/ SetSession(c) \/ CopyKey(c)
             \/ ReadSession(c)
  BY <1>1, <1>3, LocalStepUndisturbed
<1>4. CASE Send(c)
  BY <1>1, <1>4, SendUndisturbed
<1>5. CASE \/ net = {} /\ call[c].pc = "wait" /\ Reply(c) = Pending /\ Timeout(c)
           \/ NonceAnswered(c) \/ AuthAnswered(c) \/ EncryptedAnswered(c) \/ PlainAnswered(c)
  BY <1>1, <1>5, WaitEndsUndisturbed
<1>6. KeyTimeout(c) => call[c].pc = "awaitKey"
  BY DEF KeyTimeout
<1>7. Timeout(c) => call[c].pc = "wait"
  BY DEF Timeout
<1> QED
  BY <1>2, <1>3, <1>4, <1>5, <1>6, <1>7 DEF PromptStep, CallStep

LEMMA FirstInvStep ==
  ASSUME CallbackResults \subseteq {"ok"}
  PROVE  ProtocolInv /\ NamedInv /\ FirstInv /\ [PromptNext]_vars => FirstInv'
PROOF
<1> SUFFICES ASSUME ProtocolInv, NamedInv, FirstInv, [PromptNext]_vars,
                    TransportPublicKey' = FirstKey
             PROVE  Undisturbed'
  BY DEF FirstInv
<1>1. TransportPublicKey \in Nat \ {0}
  BY DEF ProtocolInv, TypeInv, ServerTypeOK, Key, NoKey
<1>2. ~RestartServer
  BY <1>1 DEF RestartServer, FirstKey
<1>3. CASE UNCHANGED vars
  <2>1. Undisturbed /\ UNCHANGED <<net, clientVars, serverVars>>
    BY <1>3 DEF FirstInv, vars, serverVars, serverState
  <2>2. UNCHANGED <<net, remoteTransportPublicKey, authProcessing, aesKey, sessionId,
                    sessionNonceCounter, outgoingTransactions, call, sessionsById, authNonces,
                    opened>>
    BY <2>1 DEF clientVars, session, serverVars, serverState
  <2>3. Failures' = Failures /\ Standing' = Standing
    BY <2>2 DEF Failures, Standing
  <2>4. Budget'
    BY <2>1, <2>2, <2>3, BudgetStays DEF Undisturbed
  <2>5. \A c \in Calls : (Underway(c)' <=> Underway(c)) /\ (Holds(c) => Holds(c)')
    BY <2>2 DEF Underway, Holds, InAuth, Stands, LiveSession
  <2>6. \A c, m : (AskedBy(c, m) => AskedBy(c, m)') /\ (AnswerTo(c, m) => AnswerTo(c, m)')
    BY <2>2 DEF AskedBy, AnswerTo, Stands, CountersBelow, LiveSession
  <2>7. \A c \in Calls : Reply(c)' = Reply(c)
    BY <2>2 DEF Reply
  <2>8. \A c \in Calls : AnswerComes(c) => AnswerComes(c)'
    BY <2>2, <2>6, <2>7 DEF AnswerComes
  <2>9. \A c \in Calls : Expects(c) => Expects(c)'
    BY <2>2, <2>8 DEF Expects, KeyComes
  <2>10. CountersBelow(sessionNonceCounter)'
    BY <2>1, <2>2 DEF Undisturbed, CountersBelow
  <2> QED
    BY <2>1, <2>2, <2>4, <2>5, <2>9, <2>10 DEF Undisturbed
<1>4. CASE PromptNext
  <2>1. TransportPublicKey = FirstKey /\ Undisturbed /\ UNCHANGED repeats
    <3>1. TransportPublicKey' = TransportPublicKey
      BY <1>2, <1>4 DEF PromptNext, PromptHandle, serverVars, serverState, PurgeSession,
                        SendPublicKey, RefuseSession, SessionCall, SessionlessUserCall,
                        GetNonce, AuthIgnored, AuthAccepted
    <3> QED
      BY <1>4, <3>1 DEF FirstInv, PromptNext
  <2>2. ASSUME NEW c \in Calls, \A d \in Calls \ {c} : ~Underway(d), PromptStep(c),
               UNCHANGED serverVars
        PROVE  Undisturbed'
    BY <2>1, <2>2, PromptStepUndisturbed
  <2>3. ASSUME NEW m \in net PROVE Serving(m)
    BY <2>1, <2>3 DEF Serving
  <2>4. ASSUME NEW m \in net, ClientReceive(m), UNCHANGED serverVars PROVE Undisturbed'
    BY <2>3, <2>4, ReceiveUndisturbed
  <2>5. ASSUME NEW m \in net, PromptHandle(m), UNCHANGED clientVars PROVE Undisturbed'
    BY <2>3, <2>5, HandleUndisturbed
  <2>6. ASSUME \A c \in Calls : ~Underway(c), UNCHANGED clientVars,
               NEW sid \in DOMAIN sessionsById, PurgeSession(sid)
        PROVE  Undisturbed'
    BY <2>1, <2>6, PurgeUndisturbed
  <2> QED
    BY <1>2, <1>4, <2>2, <2>4, <2>5, <2>6 DEF PromptNext
<1> QED
  BY <1>3, <1>4

LEMMA FirstInvInit == Init => FirstInv
PROOF
<1> SUFFICES ASSUME Init PROVE Undisturbed
  BY DEF FirstInv
<1>1. /\ net = {} /\ remoteTransportPublicKey = NoKey /\ sessionId = NoSession
      /\ call = [c \in Calls |-> IdleCall] /\ sessionsById = <<>> /\ opened = {}
  BY DEF Init, ClientInit, ServerInit
<1>2. \A c \in Calls : ~Underway(c) /\ call[c].outcome = "none"
  BY <1>1 DEF Underway, IdleCall
<1>3. DOMAIN sessionsById = {}
  BY <1>1
<1>4. Failures = {} /\ Standing = {}
  BY <1>1, <1>2, <1>3 DEF Failures, Standing
<1>5. Budget
  BY <1>1, <1>4, FS_EmptySet DEF Budget
<1>6. CountersBelow(sessionNonceCounter)
  BY <1>3 DEF CountersBelow
<1> QED
  BY <1>1, <1>2, <1>5, <1>6 DEF Undisturbed

(* When callbacks do not fail, a call made in these surroundings fails     *)
(* only for a session that was purged, and a purged session costs no more  *)
(* than one call: the client drops it and opens another (regularCall,      *)
(* purgeSessions).                                                         *)
THEOREM PurgeLosesOneCall ==
  ASSUME CallbackResults \subseteq {"ok"}
  PROVE  PromptSpec => []PurgeCostsOneCall
PROOF
<1>1. ProtocolInv /\ NamedInv /\ FirstInv /\ [PromptNext]_vars => FirstInv'
  BY FirstInvStep
<1>2. FirstInv => PurgeCostsOneCall
  <2> SUFFICES ASSUME Undisturbed PROVE LostSessionCostsOneCall
    BY DEF FirstInv, FirstKey, PurgeCostsOneCall
  <2>1. /\ IsFiniteSet(Failures) /\ IsFiniteSet(Standing) /\ IsFiniteSet(opened)
        /\ Cardinality(Failures) + Cardinality(Standing) <= Cardinality(opened)
    BY DEF Undisturbed, Budget
  <2>2. DOMAIN sessionsById \subseteq Standing
    BY DEF Standing
  <2>3. /\ IsFiniteSet(DOMAIN sessionsById)
        /\ Cardinality(DOMAIN sessionsById) <= Cardinality(Standing)
    BY <2>1, <2>2, FS_Subset
  <2>4. /\ Cardinality(Failures) \in Nat /\ Cardinality(Standing) \in Nat
        /\ Cardinality(DOMAIN sessionsById) \in Nat /\ Cardinality(opened) \in Nat
    BY <2>1, <2>3, FS_CardinalityType
  <2>5. Cardinality(Failures) <= Cardinality(opened) - Cardinality(DOMAIN sessionsById)
    BY <2>1, <2>3, <2>4
  <2> QED
    BY <2>5 DEF LostSessionCostsOneCall, Failures
<1> QED
  BY <1>1, <1>2, ProtocolInvInit, ProtocolInvStep, NamedInvInit, NamedInvStep, FirstInvInit,
     PTL DEF PromptSpec
=============================================================================
