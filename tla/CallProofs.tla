----------------------------- MODULE CallProofs -----------------------------
(***************************************************************************)
(* Proofs about the composed protocol, for any set of concurrent calls,    *)
(* any number of server incarnations, repeated frames and sizes of the     *)
(* nonce ring and the replay window.  First the state of the RemotePeer:   *)
(* its types, the bookkeeping of its transactions and the exclusion of     *)
(* auth.  The type of what a call reads from its transaction follows only  *)
(* once the transactions in the map are known to be exactly those of the   *)
(* waiting calls, so the three are proved together (ClientInv).            *)
(***************************************************************************)
EXTENDS CallProtocol, SnakeCounterLemmas, TLAPS

WaitersOld == \A c \in Calls : call[c].pc = "wait" => call[c].tid < nextTransactionId

TransactionInv == OutgoingExact /\ WaitersOld

ClientInv == FramesTypeOK /\ ClientTypeOK /\ TransactionInv /\ AuthExclusive

(* A step of call c that leads to pc in phase and leaves the other calls   *)
(* alone.                                                                  *)
Moves(c, pc, phase) ==
  /\ call' \in [Calls -> CallState]
  /\ \A d \in Calls : d # c => call'[d] = call[d]
  /\ call'[c].pc = pc
  /\ call'[c].phase = phase

-----------------------------------------------------------------------------
(* The network keeps its type. *)
LEMMA PostType ==
  ASSUME FramesTypeOK, NEW frames, frames \subseteq Frame, Post(frames)
  PROVE  FramesTypeOK'
BY DEF FramesTypeOK, Post

LEMMA ExchangeType ==
  ASSUME FramesTypeOK, NEW m, NEW frames, frames \subseteq Frame, Exchange(m, frames)
  PROVE  FramesTypeOK'
BY MaxRepeatsAssumption DEF FramesTypeOK, Exchange

(* The type field of a frame tells what else it carries. *)
LEMMA FrameShape ==
  ASSUME NEW m \in Frame
  PROVE  /\ m.type = "publicKey" => m.key \in Key
         /\ m.type = "getNonce" => m.tid \in Id
         /\ m.type = "auth" => m.tid \in Id /\ m.key \in Key /\ m.nonce \in NonceValue
         /\ m.type = "user" => /\ m.tid \in Id /\ m.sid \in Id /\ m.key \in Key
                               /\ m.counter \in Nat /\ m.call \in Calls
         /\ m.type \in {"nonce", "session", "result", "plain"} =>
              m \in CallResponse /\ m.tid \in Id
BY DEF Frame, Request, GetKeyFrame, GetNonceFrame, AuthFrame, UserFrame, PublicKeyFrame,
       CallResponse, NonceFrame, SessionFrame, ResultFrame, PlainFrame

LEMMA ReplyShape ==
  ASSUME NEW r \in CallResponse \cup {Pending}
  PROVE  /\ r.type = "nonce" => r.nonce \in NonceValue
         /\ r.type = "session" => r.sid \in Id /\ r.key \in Key
         /\ r.type = "result" => r.call \in Calls
BY DEF CallResponse, NonceFrame, SessionFrame, ResultFrame, PlainFrame, Pending

(* The local state of a call that goes on: it may change its place, its    *)
(* phase and one field that the answer does not show.                      *)
GoesOnAs(s, pc, phase, t) ==
  t \in CallState /\ t.pc = pc /\ t.phase = phase /\ t.outcome = s.outcome /\ t.result = s.result

LEMMA LocalAt ==
  ASSUME NEW s \in CallState, NEW pc \in Places, NEW phase \in {"nonce", "auth", "user"}, NEW t,
         t = [s EXCEPT !.pc = pc, !.phase = phase]
  PROVE  GoesOnAs(s, pc, phase, t)
BY DEF GoesOnAs, CallState

LEMMA LocalKey ==
  ASSUME NEW s \in CallState, NEW pc \in Places, NEW phase \in {"nonce", "auth", "user"}, NEW t,
         NEW key \in Key, t = [s EXCEPT !.pc = pc, !.phase = phase, !.aes = key]
  PROVE  GoesOnAs(s, pc, phase, t)
BY DEF GoesOnAs, CallState

LEMMA LocalId ==
  ASSUME NEW s \in CallState, NEW pc \in Places, NEW id \in Id, NEW t,
         \/ t = [s EXCEPT !.found = id, !.pc = pc]
         \/ t = [s EXCEPT !.pc = pc, !.sid = id]
         \/ t = [s EXCEPT !.pc = pc, !.tid = id]
         \/ t = [s EXCEPT !.pc = pc, !.granted = id]
  PROVE  GoesOnAs(s, pc, s.phase, t)
PROOF
<1>1. CASE t = [s EXCEPT !.found = id, !.pc = pc]
  BY <1>1 DEF GoesOnAs, CallState
<1>2. CASE t = [s EXCEPT !.pc = pc, !.sid = id]
  BY <1>2 DEF GoesOnAs, CallState
<1>3. CASE t = [s EXCEPT !.pc = pc, !.tid = id]
  BY <1>3 DEF GoesOnAs, CallState
<1>4. CASE t = [s EXCEPT !.pc = pc, !.granted = id]
  BY <1>4 DEF GoesOnAs, CallState
<1> QED
  BY <1>1, <1>2, <1>3, <1>4

LEMMA LocalNonce ==
  ASSUME NEW s \in CallState, NEW pc \in Places, NEW nonce \in NonceValue, NEW t,
         t = [s EXCEPT !.pc = pc, !.nonce = nonce]
  PROVE  GoesOnAs(s, pc, s.phase, t)
BY DEF GoesOnAs, CallState

LEMMA LocalMoves ==
  ASSUME ClientTypeOK, NEW c \in Calls, NEW pc, NEW phase, NEW local,
         GoesOnAs(call[c], pc, phase, local), call' = [call EXCEPT ![c] = local]
  PROVE  Moves(c, pc, phase) /\ call'[c] = local
BY DEF ClientTypeOK, Moves, GoesOnAs

(* What the steps of a call that goes on make of its local state.          *)
StepLocal(c, pc, phase) ==
  \E local : GoesOnAs(call[c], pc, phase, local) /\ call' = [call EXCEPT ![c] = local]

LEMMA StepLocalMoves ==
  ASSUME ClientTypeOK, NEW c \in Calls, NEW pc, NEW phase, StepLocal(c, pc, phase)
  PROVE  /\ Moves(c, pc, phase)
         /\ call'[c].outcome = call[c].outcome /\ call'[c].result = call[c].result
PROOF
<1>1. PICK local : GoesOnAs(call[c], pc, phase, local) /\ call' = [call EXCEPT ![c] = local]
  BY DEF StepLocal
<1>2. Moves(c, pc, phase) /\ call'[c] = local
  BY <1>1, LocalMoves
<1> QED
  BY <1>1, <1>2 DEF GoesOnAs

LEMMA AtLocal ==
  ASSUME ClientTypeOK, NEW c \in Calls, NEW pc \in Places,
         NEW phase \in {"nonce", "auth", "user"}, At(c, pc, phase)
  PROVE  StepLocal(c, pc, phase)
PROOF
<1> DEFINE local == [call[c] EXCEPT !.pc = pc, !.phase = phase]
<1>1. call[c] \in CallState
  BY DEF ClientTypeOK
<1>2. GoesOnAs(call[c], pc, phase, local)
  BY <1>1, LocalAt
<1>3. call' = [call EXCEPT ![c] = local]
  BY DEF At
<1> HIDE DEF local
<1> QED
  BY <1>2, <1>3 DEF StepLocal

LEMMA AtMoves ==
  ASSUME ClientTypeOK, NEW c \in Calls, NEW pc \in Places,
         NEW phase \in {"nonce", "auth", "user"}, At(c, pc, phase)
  PROVE  Moves(c, pc, phase)
BY AtLocal, StepLocalMoves

LEMMA StartCallLocal ==
  ASSUME ClientTypeOK, NEW c \in Calls, StartCall(c)
  PROVE  \E pc \in {"awaitKey", "gate"} : StepLocal(c, pc, call[c].phase)
PROOF
<1> DEFINE pc == IF remoteTransportPublicKey = NoKey THEN "awaitKey" ELSE "gate"
<1> DEFINE local == [call[c] EXCEPT !.found = sessionId, !.pc = pc]
<1>1. call[c] \in CallState /\ sessionId \in Id /\ pc \in {"awaitKey", "gate"}
  BY DEF ClientTypeOK
<1>2. pc \in Places
  BY DEF Places
<1>3. call' = [call EXCEPT ![c] = local]
  BY DEF StartCall
<1> HIDE DEF pc
<1>4. GoesOnAs(call[c], pc, call[c].phase, local)
  BY <1>1, <1>2, LocalId
<1> HIDE DEF local
<1> QED
  BY <1>1, <1>3, <1>4 DEF StepLocal

LEMMA SealLocal ==
  ASSUME ClientTypeOK, NEW c \in Calls, Seal(c), aesKey # NoKey
  PROVE  StepLocal(c, "readSession", "auth")
PROOF
<1> DEFINE local == [call[c] EXCEPT !.pc = "readSession", !.phase = "auth", !.aes = aesKey]
<1>1. call[c] \in CallState /\ aesKey \in Key /\ "readSession" \in Places
  BY DEF ClientTypeOK, Places
<1>2. GoesOnAs(call[c], "readSession", "auth", local)
  BY <1>1, LocalKey
<1>3. call' = [call EXCEPT ![c] = local]
  BY DEF Seal
<1> HIDE DEF local
<1> QED
  BY <1>2, <1>3 DEF StepLocal

LEMMA CopyKeyLocal ==
  ASSUME ClientTypeOK, NEW c \in Calls, CopyKey(c)
  PROVE  StepLocal(c, "readSession", "user")
PROOF
<1> DEFINE local == [call[c] EXCEPT !.pc = "readSession", !.phase = "user", !.aes = aesKey]
<1>1. call[c] \in CallState /\ aesKey \in Key /\ "readSession" \in Places
  BY DEF ClientTypeOK, Places
<1>2. GoesOnAs(call[c], "readSession", "user", local)
  BY <1>1, LocalKey
<1>3. call' = [call EXCEPT ![c] = local]
  BY DEF CopyKey
<1> HIDE DEF local
<1> QED
  BY <1>2, <1>3 DEF StepLocal

LEMMA ReadSessionLocal ==
  ASSUME ClientTypeOK, NEW c \in Calls, ReadSession(c)
  PROVE  StepLocal(c, "send", call[c].phase)
PROOF
<1> DEFINE local == [call[c] EXCEPT !.pc = "send", !.sid = sessionId]
<1>1. call[c] \in CallState /\ sessionId \in Id /\ "send" \in Places
  BY DEF ClientTypeOK, Places
<1>2. GoesOnAs(call[c], "send", call[c].phase, local)
  BY <1>1, LocalId
<1>3. call' = [call EXCEPT ![c] = local]
  BY DEF ReadSession
<1> HIDE DEF local
<1> QED
  BY <1>2, <1>3 DEF StepLocal

LEMMA SendLocal ==
  ASSUME ClientTypeOK, NEW c \in Calls, Send(c)
  PROVE  StepLocal(c, "wait", call[c].phase)
PROOF
<1> DEFINE local == [call[c] EXCEPT !.pc = "wait", !.tid = nextTransactionId]
<1>1. call[c] \in CallState /\ nextTransactionId \in Id /\ "wait" \in Places
  BY DEF ClientTypeOK, Places, Id
<1>2. GoesOnAs(call[c], "wait", call[c].phase, local)
  BY <1>1, LocalId
<1>3. call' = [call EXCEPT ![c] = local]
  BY DEF Send
<1> HIDE DEF local
<1> QED
  BY <1>2, <1>3 DEF StepLocal

LEMMA ReturnMoves ==
  ASSUME ClientTypeOK, NEW c \in Calls, NEW outcome \in {"none", "ok", "error"},
         NEW result \in Calls \cup {Nobody}, Return(c, outcome, result)
  PROVE  Moves(c, "done", "user")
BY DEF ClientTypeOK, CallState, Return, Moves, IdleCall, Places, NoNonce, NonceValue,
       NoSession, NoKey, Id, Key

LEMMA FailMoves ==
  ASSUME ClientTypeOK, NEW c \in Calls, Fail(c)
  PROVE  Moves(c, "done", "user")
BY ReturnMoves DEF Fail

-----------------------------------------------------------------------------
(* The bookkeeping survives a step of a call that does not wait, ... *)
LEMMA TransactionsStay ==
  ASSUME ClientInv, NEW c \in Calls, call[c].pc # "wait",
         NEW pc, pc # "wait", NEW phase, Moves(c, pc, phase),
         UNCHANGED <<outgoingTransactions, nextTransactionId>>
  PROVE  TransactionInv'
PROOF
<1>1. \A d \in Calls : call'[d].pc = "wait" <=> call[d].pc = "wait"
  BY DEF Moves
<1>2. \A d \in Calls : call'[d].pc = "wait" => call'[d].tid = call[d].tid
  BY DEF Moves
<1>3. {call'[d].tid : d \in {e \in Calls : call'[e].pc = "wait"}}
        = {call[d].tid : d \in {e \in Calls : call[e].pc = "wait"}}
  BY <1>1, <1>2
<1>4. OutgoingExact'
  BY <1>1, <1>2, <1>3 DEF ClientInv, TransactionInv, OutgoingExact
<1>5. WaitersOld'
  BY <1>1, <1>2 DEF ClientInv, TransactionInv, WaitersOld
<1> QED
  BY <1>4, <1>5 DEF TransactionInv

(* ... the end of a wait, ... *)
LEMMA TransactionsLeave ==
  ASSUME ClientInv, NEW c \in Calls, call[c].pc = "wait",
         NEW pc, pc # "wait", NEW phase, Moves(c, pc, phase),
         Forget(call[c].tid), UNCHANGED nextTransactionId
  PROVE  TransactionInv'
PROOF
<1>1. \A d \in Calls : call'[d].pc = "wait" <=> call[d].pc = "wait" /\ d # c
  BY DEF Moves
<1>2. \A d \in Calls : d # c => call'[d] = call[d]
  BY DEF Moves
<1>3. DOMAIN outgoingTransactions' = DOMAIN outgoingTransactions \ {call[c].tid}
  BY DEF Forget
<1> QED
  BY <1>1, <1>2, <1>3 DEF ClientInv, TransactionInv, OutgoingExact, WaitersOld

(* ... and a new transaction, because its id is above all others. *)
LEMMA TransactionsEnter ==
  ASSUME ClientInv, NEW c \in Calls, Send(c), NEW phase, Moves(c, "wait", phase)
  PROVE  TransactionInv'
PROOF
<1>1. nextTransactionId \in Nat /\ nextTransactionId' = nextTransactionId + 1
  BY DEF Send, ClientInv, ClientTypeOK
<1>2. DOMAIN outgoingTransactions' = DOMAIN outgoingTransactions \cup {nextTransactionId}
  BY DEF Send
<1>3. call'[c].tid = nextTransactionId /\ call[c].pc # "wait"
  BY DEF Send, ClientInv, ClientTypeOK, CallState
<1>4. \A d \in Calls : d # c => call'[d] = call[d]
  BY DEF Moves
<1>5. \A d \in Calls : call'[d].pc = "wait" <=> call[d].pc = "wait" \/ d = c
  BY <1>4 DEF Moves
<1>6. \A d \in Calls : call[d].pc = "wait" => call[d].tid < nextTransactionId
                                               /\ call[d].tid \in Nat
  BY DEF ClientInv, TransactionInv, WaitersOld, ClientTypeOK, CallState, Id
<1>7. WaitersOld'
  BY <1>1, <1>3, <1>4, <1>5, <1>6 DEF WaitersOld
<1>8. \A d, e \in Calls : call'[d].pc = "wait" /\ call'[e].pc = "wait" /\ d # e =>
                            call'[d].tid # call'[e].tid
  BY <1>1, <1>3, <1>4, <1>5, <1>6 DEF ClientInv, TransactionInv, OutgoingExact
<1>9. DOMAIN outgoingTransactions' =
        {call'[d].tid : d \in {e \in Calls : call'[e].pc = "wait"}}
  BY <1>2, <1>3, <1>4, <1>5 DEF ClientInv, TransactionInv, OutgoingExact
<1> QED
  BY <1>7, <1>8, <1>9 DEF TransactionInv, OutgoingExact

(* What a waiting call reads from its transaction. *)
LEMMA WaitingReply ==
  ASSUME ClientInv, NEW c \in Calls, call[c].pc = "wait"
  PROVE  Reply(c) \in CallResponse \cup {Pending}
BY DEF ClientInv, TransactionInv, OutgoingExact, ClientTypeOK, Reply

LEMMA NonceLocal ==
  ASSUME ClientInv, NEW c \in Calls, NonceAnswered(c), Reply(c).type = "nonce"
  PROVE  StepLocal(c, "setKey", call[c].phase)
PROOF
<1> DEFINE local == [call[c] EXCEPT !.pc = "setKey", !.nonce = Reply(c).nonce]
<1>1. call[c] \in CallState /\ "setKey" \in Places
  BY DEF ClientInv, ClientTypeOK, Places
<1>2. Reply(c).nonce \in NonceValue
  BY WaitingReply, ReplyShape DEF NonceAnswered, Waiting
<1>3. GoesOnAs(call[c], "setKey", call[c].phase, local)
  BY <1>1, <1>2, LocalNonce
<1>4. call' = [call EXCEPT ![c] = local]
  BY DEF NonceAnswered
<1> HIDE DEF local
<1> QED
  BY <1>3, <1>4 DEF StepLocal

LEMMA AuthLocal ==
  ASSUME ClientInv, NEW c \in Calls, AuthAnswered(c),
         Reply(c).type = "session", Reply(c).key = aesKey
  PROVE  StepLocal(c, "setSession", call[c].phase)
PROOF
<1> DEFINE local == [call[c] EXCEPT !.pc = "setSession", !.granted = Reply(c).sid]
<1>1. call[c] \in CallState /\ "setSession" \in Places
  BY DEF ClientInv, ClientTypeOK, Places
<1>2. Reply(c).sid \in Id
  BY WaitingReply, ReplyShape DEF AuthAnswered, Waiting
<1>3. GoesOnAs(call[c], "setSession", call[c].phase, local)
  BY <1>1, <1>2, LocalId
<1>4. call' = [call EXCEPT ![c] = local]
  BY DEF AuthAnswered
<1> HIDE DEF local
<1> QED
  BY <1>3, <1>4 DEF StepLocal

LEMMA ForgetType ==
  ASSUME ClientTypeOK, NEW t, Forget(t)
  PROVE  /\ (DOMAIN outgoingTransactions)' \subseteq Nat
         /\ \A u \in (DOMAIN outgoingTransactions)' :
              outgoingTransactions'[u] \in CallResponse \cup {Pending}
BY DEF ClientTypeOK, Forget

-----------------------------------------------------------------------------
(* Exclusion survives a step that neither enters nor leaves auth, ... *)
LEMMA AuthStays ==
  ASSUME AuthExclusive, NEW c \in Calls, NEW pc, NEW phase, Moves(c, pc, phase),
         InAuth(c)' <=> InAuth(c), authProcessing' = authProcessing
  PROVE  AuthExclusive'
BY DEF AuthExclusive, Moves, InAuth

(* ... one that leaves it and clears the flag, ... *)
LEMMA AuthLeaves ==
  ASSUME AuthExclusive, NEW c \in Calls, NEW pc, NEW phase, Moves(c, pc, phase),
         InAuth(c), ~InAuth(c)', authProcessing' = FALSE
  PROVE  AuthExclusive'
BY DEF AuthExclusive, Moves, InAuth

(* ... and one that enters it when the flag is clear. *)
LEMMA AuthEnters ==
  ASSUME AuthExclusive, NEW c \in Calls, NEW pc, NEW phase, Moves(c, pc, phase),
         InAuth(c)', ~authProcessing, authProcessing' = TRUE
  PROVE  AuthExclusive'
BY DEF AuthExclusive, Moves, InAuth

-----------------------------------------------------------------------------
(* The call's goroutine outside a wait. *)
LEMMA StartCallInv == ASSUME ClientInv, NEW c \in Calls, StartCall(c) PROVE ClientInv'
PROOF
<1> USE DEF ClientInv
<1>1. PICK pc \in {"awaitKey", "gate"} : Moves(c, pc, call[c].phase)
  BY StartCallLocal, StepLocalMoves
<1>2. pc # "wait" /\ call[c].pc = "idle"
  BY DEF StartCall
<1>3. FramesTypeOK'
  <2>1. {GetKey} \subseteq Frame
    BY DEF GetKey, Frame, Request, GetKeyFrame
  <2>2. PICK frames : frames \subseteq Frame /\ Post(frames)
    BY <2>1 DEF StartCall
  <2> QED
    BY <2>2, PostType
<1>4. ClientTypeOK'
  BY <1>1 DEF StartCall, ClientTypeOK, Moves, session
<1>5. TransactionInv'
  BY <1>1, <1>2, TransactionsStay DEF StartCall
<1>6. AuthExclusive'
  BY <1>1, <1>2, AuthStays DEF StartCall, InAuth, Moves
<1> QED
  BY <1>3, <1>4, <1>5, <1>6

LEMMA KeyArrivedInv == ASSUME ClientInv, NEW c \in Calls, KeyArrived(c) PROVE ClientInv'
PROOF
<1> USE DEF ClientInv
<1>1. Moves(c, "gate", "user") /\ call[c].pc = "awaitKey"
  BY AtMoves DEF KeyArrived, Places
<1>2. FramesTypeOK' /\ ClientTypeOK'
  BY <1>1 DEF KeyArrived, FramesTypeOK, ClientTypeOK, Moves, session
<1>3. TransactionInv'
  BY <1>1, TransactionsStay DEF KeyArrived
<1>4. AuthExclusive'
  BY <1>1, AuthStays DEF KeyArrived, InAuth, Moves
<1> QED
  BY <1>2, <1>3, <1>4

LEMMA KeyTimeoutInv == ASSUME ClientInv, NEW c \in Calls, KeyTimeout(c) PROVE ClientInv'
PROOF
<1> USE DEF ClientInv
<1>1. Moves(c, "done", "user") /\ call[c].pc = "awaitKey"
  BY FailMoves DEF KeyTimeout
<1>2. FramesTypeOK' /\ ClientTypeOK'
  BY <1>1 DEF KeyTimeout, FramesTypeOK, ClientTypeOK, Moves, session
<1>3. TransactionInv'
  BY <1>1, TransactionsStay DEF KeyTimeout
<1>4. AuthExclusive'
  BY <1>1, AuthStays DEF KeyTimeout, InAuth, Moves
<1> QED
  BY <1>2, <1>3, <1>4

LEMMA PassGateInv == ASSUME ClientInv, NEW c \in Calls, PassGate(c) PROVE ClientInv'
PROOF
<1> USE DEF ClientInv
<1>1. Moves(c, "copyKey", "user") /\ call[c].pc = "gate"
  BY AtMoves DEF PassGate, Places
<1>2. FramesTypeOK' /\ ClientTypeOK'
  BY <1>1 DEF PassGate, FramesTypeOK, ClientTypeOK, Moves, session
<1>3. TransactionInv'
  BY <1>1, TransactionsStay DEF PassGate
<1>4. AuthExclusive'
  BY <1>1, AuthStays DEF PassGate, InAuth, Moves
<1> QED
  BY <1>2, <1>3, <1>4

(* The gate: the flag is tested and set in one critical section. *)
LEMMA EnterAuthInv == ASSUME ClientInv, NEW c \in Calls, EnterAuth(c) PROVE ClientInv'
PROOF
<1> USE DEF ClientInv
<1>1. FramesTypeOK'
  BY DEF EnterAuth, FramesTypeOK
<1>2. CASE authProcessing
  <2>1. Moves(c, "done", "user") /\ call[c].pc = "gate"
    BY <1>2, FailMoves DEF EnterAuth
  <2>2. ClientTypeOK'
    BY <1>2, <2>1 DEF EnterAuth, ClientTypeOK, Moves, session
  <2>3. TransactionInv'
    BY <2>1, TransactionsStay DEF EnterAuth
  <2>4. AuthExclusive'
    BY <1>2, <2>1, AuthStays DEF EnterAuth, InAuth, Moves
  <2> QED
    BY <1>1, <2>2, <2>3, <2>4
<1>3. CASE ~authProcessing
  <2>1. Moves(c, "readSession", "nonce") /\ call[c].pc = "gate"
    BY <1>3, AtMoves DEF EnterAuth, Places
  <2>2. ClientTypeOK'
    BY <1>3, <2>1 DEF EnterAuth, ClientTypeOK, Moves, session
  <2>3. TransactionInv'
    BY <2>1, TransactionsStay DEF EnterAuth
  <2>4. AuthExclusive'
    BY <1>3, <2>1, AuthEnters DEF EnterAuth, InAuth, Moves
  <2> QED
    BY <1>1, <2>2, <2>3, <2>4
<1> QED
  BY <1>2, <1>3

LEMMA SetKeyInv == ASSUME ClientInv, NEW c \in Calls, SetKey(c) PROVE ClientInv'
PROOF
<1> USE DEF ClientInv
<1>1. Moves(c, "seal", "auth") /\ call[c].pc = "setKey"
  BY AtMoves DEF SetKey, Places
<1>2. FramesTypeOK' /\ ClientTypeOK'
  BY <1>1 DEF SetKey, FramesTypeOK, ClientTypeOK, Moves
<1>3. TransactionInv'
  BY <1>1, TransactionsStay DEF SetKey
<1>4. AuthExclusive'
  BY <1>1, AuthStays DEF SetKey, InAuth, Moves
<1> QED
  BY <1>2, <1>3, <1>4

LEMMA SealInv == ASSUME ClientInv, NEW c \in Calls, Seal(c) PROVE ClientInv'
PROOF
<1> USE DEF ClientInv
<1>1. FramesTypeOK'
  BY DEF Seal, FramesTypeOK
<1>2. CASE aesKey = NoKey
  <2>1. Moves(c, "done", "user") /\ call[c].pc = "seal" /\ authProcessing' = FALSE
    BY <1>2, FailMoves DEF Seal, FailAuth
  <2>2. ClientTypeOK'
    BY <2>1 DEF Seal, ClientTypeOK, Moves, session
  <2>3. TransactionInv'
    BY <2>1, TransactionsStay DEF Seal
  <2>4. AuthExclusive'
    BY <2>1, AuthLeaves DEF InAuth, Moves
  <2> QED
    BY <1>1, <2>2, <2>3, <2>4
<1>3. CASE aesKey # NoKey
  <2>1. Moves(c, "readSession", "auth") /\ call[c].pc = "seal"
    BY <1>3, SealLocal, StepLocalMoves DEF Seal
  <2>2. ClientTypeOK'
    BY <1>3, <2>1 DEF Seal, ClientTypeOK, Moves, session
  <2>3. TransactionInv'
    BY <2>1, TransactionsStay DEF Seal
  <2>4. AuthExclusive'
    BY <1>3, <2>1, AuthStays DEF Seal, InAuth, Moves
  <2> QED
    BY <1>1, <2>2, <2>3, <2>4
<1> QED
  BY <1>2, <1>3

LEMMA SetSessionInv == ASSUME ClientInv, NEW c \in Calls, SetSession(c) PROVE ClientInv'
PROOF
<1> USE DEF ClientInv
<1>1. Moves(c, "copyKey", "user") /\ call[c].pc = "setSession"
  BY AtMoves DEF SetSession, Places
<1>2. FramesTypeOK' /\ ClientTypeOK'
  BY <1>1 DEF SetSession, FramesTypeOK, ClientTypeOK, CallState, Moves
<1>3. TransactionInv'
  BY <1>1, TransactionsStay DEF SetSession
<1>4. AuthExclusive'
  BY <1>1, AuthLeaves DEF SetSession, InAuth, Moves
<1> QED
  BY <1>2, <1>3, <1>4

LEMMA CopyKeyInv == ASSUME ClientInv, NEW c \in Calls, CopyKey(c) PROVE ClientInv'
PROOF
<1> USE DEF ClientInv
<1>1. Moves(c, "readSession", "user") /\ call[c].pc = "copyKey"
  BY CopyKeyLocal, StepLocalMoves DEF CopyKey
<1>2. FramesTypeOK' /\ ClientTypeOK'
  BY <1>1 DEF CopyKey, FramesTypeOK, ClientTypeOK, Moves, session
<1>3. TransactionInv'
  BY <1>1, TransactionsStay DEF CopyKey
<1>4. AuthExclusive'
  BY <1>1, AuthStays DEF CopyKey, InAuth, Moves
<1> QED
  BY <1>2, <1>3, <1>4

LEMMA ReadSessionInv == ASSUME ClientInv, NEW c \in Calls, ReadSession(c) PROVE ClientInv'
PROOF
<1> USE DEF ClientInv
<1>1. Moves(c, "send", call[c].phase) /\ call[c].pc = "readSession"
  BY ReadSessionLocal, StepLocalMoves DEF ReadSession
<1>2. FramesTypeOK' /\ ClientTypeOK'
  BY <1>1 DEF ReadSession, FramesTypeOK, ClientTypeOK, Moves, session
<1>3. TransactionInv'
  BY <1>1, TransactionsStay DEF ReadSession
<1>4. AuthExclusive'
  BY <1>1, AuthStays DEF ReadSession, InAuth, Moves
<1> QED
  BY <1>2, <1>3, <1>4

-----------------------------------------------------------------------------
(* Sending, and the ways a wait ends. *)
LEMMA CallFrameType == ASSUME ClientInv, NEW c \in Calls PROVE CallFrame(c) \in Frame
PROOF
<1>1. /\ nextTransactionId \in Nat /\ sessionNonceCounter \in Nat
      /\ call[c].sid \in Nat /\ call[c].aes \in Nat /\ call[c].nonce \in NonceValue
  BY DEF ClientInv, ClientTypeOK, CallState, Id, Key
<1> QED
  BY <1>1 DEF CallFrame, Frame, Request, GetNonceFrame, AuthFrame, UserFrame, Id, Key

LEMMA SendInv == ASSUME ClientInv, NEW c \in Calls, Send(c) PROVE ClientInv'
PROOF
<1> USE DEF ClientInv
<1>1. Moves(c, "wait", call[c].phase) /\ call[c].pc = "send"
  BY SendLocal, StepLocalMoves DEF Send
<1>2. FramesTypeOK'
  BY CallFrameType, PostType DEF Send
<1>3. /\ (DOMAIN outgoingTransactions)' \subseteq Nat
      /\ \A t \in (DOMAIN outgoingTransactions)' :
           outgoingTransactions'[t] \in CallResponse \cup {Pending}
  BY DEF Send, ClientTypeOK
<1>4. ClientTypeOK'
  BY <1>1, <1>3 DEF Send, ClientTypeOK, Moves, session
<1>5. TransactionInv'
  BY <1>1, TransactionsEnter
<1>6. AuthExclusive'
  BY <1>1, AuthStays DEF Send, InAuth, Moves
<1> QED
  BY <1>2, <1>4, <1>5, <1>6

(* A wait that ends with the call: in auth the flag is cleared, outside it *)
(* is left alone.                                                          *)
LEMMA WaitFails ==
  ASSUME ClientInv, NEW c \in Calls, call[c].pc = "wait",
         Forget(call[c].tid), Moves(c, "done", "user"),
         aesKey' \in Key, sessionId' \in Id,
         IF InAuth(c) THEN authProcessing' = FALSE ELSE UNCHANGED authProcessing,
         UNCHANGED <<remoteTransportPublicKey, sessionNonceCounter, nextTransactionId,
                     net, repeats>>
  PROVE  ClientInv'
PROOF
<1> USE DEF ClientInv
<1>1. FramesTypeOK'
  BY DEF FramesTypeOK
<1>2. ClientTypeOK'
  BY ForgetType DEF ClientTypeOK, Moves
<1>3. TransactionInv'
  BY TransactionsLeave
<1>4. ~InAuth(c)'
  BY DEF InAuth, Moves
<1>5. AuthExclusive'
  BY <1>4, AuthStays, AuthLeaves
<1> QED
  BY <1>1, <1>2, <1>3, <1>5

LEMMA TimeoutInv == ASSUME ClientInv, NEW c \in Calls, Timeout(c) PROVE ClientInv'
PROOF
<1>1. call[c].pc = "wait" /\ Forget(call[c].tid)
  BY DEF Timeout
<1>2. Moves(c, "done", "user")
  BY FailMoves DEF Timeout, FailAuth, ClientInv
<1>3. aesKey' \in Key /\ sessionId' \in Id
  BY DEF Timeout, Reset, session, ClientInv, ClientTypeOK, NoKey, NoSession, Key, Id
<1>4. IF InAuth(c) THEN authProcessing' = FALSE ELSE UNCHANGED authProcessing
  BY DEF Timeout, FailAuth
<1> QED
  BY <1>1, <1>2, <1>3, <1>4, WaitFails DEF Timeout

(* A wait that ends inside auth and goes on there. *)
LEMMA WaitGoesOn ==
  ASSUME ClientInv, NEW c \in Calls, call[c].pc = "wait", InAuth(c),
         Forget(call[c].tid), NEW pc \in {"setKey", "setSession"}, NEW phase,
         Moves(c, pc, phase),
         UNCHANGED <<remoteTransportPublicKey, sessionNonceCounter, nextTransactionId,
                     session, authProcessing, net, repeats>>
  PROVE  ClientInv'
PROOF
<1> USE DEF ClientInv
<1>1. FramesTypeOK'
  BY DEF FramesTypeOK
<1>2. ClientTypeOK'
  BY ForgetType DEF ClientTypeOK, Moves, session
<1>3. TransactionInv'
  BY TransactionsLeave
<1>4. InAuth(c)'
  BY DEF InAuth, Moves
<1>5. AuthExclusive'
  BY <1>4, AuthStays
<1> QED
  BY <1>1, <1>2, <1>3, <1>5

LEMMA NonceAnsweredInv == ASSUME ClientInv, NEW c \in Calls, NonceAnswered(c) PROVE ClientInv'
PROOF
<1>1. call[c].pc = "wait" /\ InAuth(c) /\ Forget(call[c].tid)
  BY DEF NonceAnswered, Waiting, InAuth
<1>2. CASE Reply(c).type = "nonce"
  <2>1. Moves(c, "setKey", call[c].phase)
    BY <1>2, NonceLocal, StepLocalMoves DEF ClientInv
  <2>2. UNCHANGED <<session, authProcessing>>
    BY <1>2 DEF NonceAnswered
  <2> QED
    BY <1>1, <2>1, <2>2, WaitGoesOn DEF NonceAnswered
<1>3. CASE Reply(c).type # "nonce"
  <2>1. Moves(c, "done", "user") /\ authProcessing' = FALSE
    BY <1>3, FailMoves DEF NonceAnswered, FailAuth, ClientInv
  <2>2. aesKey' \in Key /\ sessionId' \in Id
    BY <1>3 DEF NonceAnswered, ClientInv, ClientTypeOK, NoSession, Id
  <2> QED
    BY <1>1, <2>1, <2>2, WaitFails DEF NonceAnswered
<1> QED
  BY <1>2, <1>3

LEMMA AuthAnsweredInv == ASSUME ClientInv, NEW c \in Calls, AuthAnswered(c) PROVE ClientInv'
PROOF
<1>1. call[c].pc = "wait" /\ InAuth(c) /\ Forget(call[c].tid)
  BY DEF AuthAnswered, Waiting, InAuth
<1>2. CASE Reply(c).type = "session" /\ Reply(c).key = aesKey
  <2>1. Moves(c, "setSession", call[c].phase)
    BY <1>2, AuthLocal, StepLocalMoves DEF ClientInv
  <2>2. UNCHANGED <<session, authProcessing>>
    BY <1>2 DEF AuthAnswered
  <2> QED
    BY <1>1, <2>1, <2>2, WaitGoesOn DEF AuthAnswered
<1>3. CASE ~(Reply(c).type = "session" /\ Reply(c).key = aesKey)
  <2>1. Moves(c, "done", "user") /\ authProcessing' = FALSE
    BY <1>3, FailMoves DEF AuthAnswered, FailAuth, ClientInv
  <2>2. aesKey' \in Key /\ sessionId' \in Id
    BY <1>3 DEF AuthAnswered, session, ClientInv, ClientTypeOK, NoSession, Id
  <2> QED
    BY <1>1, <2>1, <2>2, WaitFails DEF AuthAnswered
<1> QED
  BY <1>2, <1>3

LEMMA EncryptedAnsweredInv ==
  ASSUME ClientInv, NEW c \in Calls, EncryptedAnswered(c) PROVE ClientInv'
PROOF
<1>1. call[c].pc = "wait" /\ ~InAuth(c) /\ Forget(call[c].tid)
  BY DEF EncryptedAnswered, Waiting, InAuth
<1>2. Moves(c, "done", "user")
  <2>1. CASE Decrypted(c) /\ Reply(c).status = "ok"
    <3>1. Reply(c).call \in Calls
      BY <1>1, <2>1, WaitingReply, ReplyShape DEF Decrypted
    <3> QED
      BY <2>1, <3>1, ReturnMoves DEF EncryptedAnswered, ClientInv
  <2>2. CASE ~(Decrypted(c) /\ Reply(c).status = "ok")
    BY <2>2, FailMoves DEF EncryptedAnswered, ClientInv
  <2> QED
    BY <2>1, <2>2
<1>3. aesKey' \in Key /\ sessionId' \in Id
  BY DEF EncryptedAnswered, Reset, session, ClientInv, ClientTypeOK, NoKey, NoSession, Key, Id
<1> QED
  BY <1>1, <1>2, <1>3, WaitFails DEF EncryptedAnswered

LEMMA PlainAnsweredInv == ASSUME ClientInv, NEW c \in Calls, PlainAnswered(c) PROVE ClientInv'
PROOF
<1>1. call[c].pc = "wait" /\ ~InAuth(c) /\ Forget(call[c].tid)
  BY DEF PlainAnswered, Waiting, InAuth
<1>2. Moves(c, "done", "user")
  BY ReturnMoves, FailMoves DEF PlainAnswered, ClientInv
<1>3. aesKey' \in Key /\ sessionId' \in Id
  BY DEF PlainAnswered, session, ClientInv, ClientTypeOK, NoSession, Id
<1> QED
  BY <1>1, <1>2, <1>3, WaitFails DEF PlainAnswered

-----------------------------------------------------------------------------
(* The goroutine that takes the responses in leaves the calls alone. *)
LEMMA ClientReceiveInv ==
  ASSUME ClientInv, NEW m \in net, ClientReceive(m)
  PROVE  ClientInv'
PROOF
<1> USE DEF ClientInv
<1>1. m \in Frame
  BY DEF FramesTypeOK
<1>2. FramesTypeOK'
  BY ExchangeType DEF ClientReceive, ReceivePublicKey, ReceiveResponse
<1>3. UNCHANGED <<call, nextTransactionId, authProcessing, sessionNonceCounter, session>>
  BY DEF ClientReceive, ReceivePublicKey, ReceiveResponse
<1>4. /\ DOMAIN outgoingTransactions' = DOMAIN outgoingTransactions
      /\ \A t \in DOMAIN outgoingTransactions :
           outgoingTransactions'[t] \in CallResponse \cup {Pending}
  <2>1. CASE ReceivePublicKey(m)
    BY <2>1 DEF ReceivePublicKey, ClientTypeOK
  <2>2. CASE ReceiveResponse(m)
    <3>1. m \in CallResponse
      BY <1>1, <2>2, FrameShape DEF ReceiveResponse
    <3> QED
      BY <2>2, <3>1 DEF ReceiveResponse, ClientTypeOK
  <2> QED
    BY <2>1, <2>2 DEF ClientReceive
<1>5. remoteTransportPublicKey' \in Key
  BY <1>1, FrameShape DEF ClientReceive, ReceivePublicKey, ReceiveResponse, ClientTypeOK
<1>6. ClientTypeOK'
  BY <1>3, <1>4, <1>5 DEF ClientTypeOK, session
<1>7. TransactionInv'
  BY <1>3, <1>4 DEF TransactionInv, OutgoingExact, WaitersOld
<1>8. AuthExclusive'
  BY <1>3 DEF AuthExclusive, InAuth
<1> QED
  BY <1>2, <1>6, <1>7, <1>8

LEMMA CallStepInv == ASSUME ClientInv, NEW c \in Calls, CallStep(c) PROVE ClientInv'
BY StartCallInv, KeyArrivedInv, KeyTimeoutInv, PassGateInv, EnterAuthInv, SetKeyInv, SealInv,
   SetSessionInv, CopyKeyInv, ReadSessionInv, SendInv, TimeoutInv, NonceAnsweredInv,
   AuthAnsweredInv, EncryptedAnsweredInv, PlainAnsweredInv DEF CallStep

-----------------------------------------------------------------------------
(* The server: its nonce ring, its sessions and what it opened. *)
Rings == [nonces : [Indexes -> NonceValue], currentIndex : Indexes]

Sessions == [aesKey : Key, snakeCounter : SnakeCounters]

TypeInv == ClientInv /\ ServerTypeOK

(* What the nonce ring does to its cells. *)
LEMMA FillType ==
  ASSUME NEW ring \in Rings, NEW i \in Indexes, NEW tag \in Nat
  PROVE  /\ fillNonce(ring, i, tag) \in Rings
         /\ fillNonce(ring, i, tag).currentIndex = ring.currentIndex
         /\ fillNonce(ring, i, tag).nonces[i].tag = tag
         /\ \A j \in Indexes : \/ fillNonce(ring, i, tag).nonces[j] = ring.nonces[j]
                               \/ fillNonce(ring, i, tag).nonces[j].tag = tag
PROOF
<1> DEFINE cell == [index |-> i, tag |-> tag]
<1> DEFINE cells == [ring.nonces EXCEPT ![i] = cell]
<1>1. cell \in NonceValue
  BY NonceCountAssumption DEF NonceValue, Indexes
<1>2. ring.nonces \in [Indexes -> NonceValue]
  BY DEF Rings
<1>3. /\ cells \in [Indexes -> NonceValue]
      /\ cells[i].tag = tag
      /\ \A j \in Indexes : cells[j] = ring.nonces[j] \/ cells[j].tag = tag
  BY <1>1, <1>2
<1>4. fillNonce(ring, i, tag) = [ring EXCEPT !.nonces = cells]
  BY DEF fillNonce
<1> HIDE DEF cells
<1>5. /\ [ring EXCEPT !.nonces = cells] \in Rings
      /\ [ring EXCEPT !.nonces = cells].nonces = cells
      /\ [ring EXCEPT !.nonces = cells].currentIndex = ring.currentIndex
  BY <1>3 DEF Rings
<1> QED
  BY <1>3, <1>4, <1>5

LEMMA AfterNextType ==
  ASSUME NEW ring \in Rings, NEW tag \in Nat
  PROVE  /\ AfterNext(ring, tag) \in Rings
         /\ \A j \in Indexes : \/ AfterNext(ring, tag).nonces[j] = ring.nonces[j]
                               \/ AfterNext(ring, tag).nonces[j].tag = tag
         /\ NextNonce(ring, tag) \in NonceValue
PROOF
<1> DEFINE filled == fillNonce(ring, ring.currentIndex, tag)
<1> DEFINE next == IF filled.currentIndex + 1 >= NonceCount THEN 0 ELSE filled.currentIndex + 1
<1>1. ring.currentIndex \in Indexes
  BY DEF Rings
<1>2. filled \in Rings
  BY <1>1, FillType
<1>3. next \in Indexes
  <2>1. filled.currentIndex \in Indexes
    BY <1>2 DEF Rings
  <2> HIDE DEF filled
  <2> QED
    BY <2>1, NonceCountAssumption DEF Indexes
<1>4. AfterNext(ring, tag) = [filled EXCEPT !.currentIndex = next]
  BY DEF AfterNext
<1>5. \A j \in Indexes : filled.nonces[j] = ring.nonces[j] \/ filled.nonces[j].tag = tag
  BY <1>1, FillType
<1> HIDE DEF filled, next
<1>6. AfterNext(ring, tag) \in Rings /\ AfterNext(ring, tag).nonces = filled.nonces
  BY <1>2, <1>3, <1>4 DEF Rings
<1>7. NextNonce(ring, tag) \in NonceValue
  BY <1>1, NonceCountAssumption DEF NextNonce, NonceValue, Indexes
<1> QED
  BY <1>5, <1>6, <1>7

LEMMA AfterCheckType ==
  ASSUME NEW ring \in Rings, NEW nonce \in NonceValue, Check(ring, nonce), NEW tag \in Nat
  PROVE  /\ AfterCheck(ring, nonce, tag) \in Rings
         /\ \A j \in Indexes : \/ AfterCheck(ring, nonce, tag).nonces[j] = ring.nonces[j]
                               \/ AfterCheck(ring, nonce, tag).nonces[j].tag = tag
         /\ AfterCheck(ring, nonce, tag).nonces[nonce.index].tag = tag
PROOF
<1>1. nonce.index \in Indexes /\ AfterCheck(ring, nonce, tag) = fillNonce(ring, nonce.index, tag)
  BY DEF Check, AfterCheck
<1> QED
  BY <1>1, FillType

LEMMA FreshRingType ==
  ASSUME NEW drawn0 \in Nat
  PROVE  /\ FreshRing(drawn0) \in Rings
         /\ \A j \in Indexes : /\ FreshRing(drawn0).nonces[j].tag > drawn0
                               /\ FreshRing(drawn0).nonces[j].tag <= drawn0 + NonceCount
PROOF
<1> DEFINE cells == [i \in Indexes |-> [index |-> i, tag |-> drawn0 + i + 1]]
<1>1. \A i \in Indexes : /\ [index |-> i, tag |-> drawn0 + i + 1] \in NonceValue
                          /\ drawn0 + i + 1 > drawn0
                          /\ drawn0 + i + 1 <= drawn0 + NonceCount
  BY NonceCountAssumption DEF NonceValue, Indexes
<1>2. cells \in [Indexes -> NonceValue]
  BY <1>1
<1>3. 0 \in Indexes
  BY NonceCountAssumption DEF Indexes
<1>4. FreshRing(drawn0) = [nonces |-> cells, currentIndex |-> 0]
  BY DEF FreshRing
<1>5. \A j \in Indexes : cells[j].tag = drawn0 + j + 1
  OBVIOUS
<1>6. \A j \in Indexes : cells[j].tag > drawn0 /\ cells[j].tag <= drawn0 + NonceCount
  BY <1>1, <1>5
<1> HIDE DEF cells
<1>7. FreshRing(drawn0) \in Rings /\ FreshRing(drawn0).nonces = cells
  BY <1>2, <1>3, <1>4 DEF Rings
<1> QED
  BY <1>6, <1>7

LEMMA NewSessionType ==
  ASSUME NEW key \in Key
  PROVE  NewSession(key) \in Sessions
BY NewSnakeCounterType DEF NewSession, Sessions

-----------------------------------------------------------------------------
(* The types of the server, handler by handler. *)
LEMMA PlainType ==
  ASSUME NEW m \in Frame, m.type \in {"getNonce", "auth", "user"}, NEW status \in {"ok", "srv"}
  PROVE  {Plain(m, status)} \subseteq Frame
PROOF
<1>1. m.tid \in Id
  BY FrameShape
<1> QED
  BY <1>1 DEF Plain, Frame, CallResponse, PlainFrame

LEMMA SessionCallType ==
  ASSUME FramesTypeOK, ServerTypeOK, NEW m \in net, SessionCall(m)
  PROVE  FramesTypeOK' /\ ServerTypeOK'
PROOF
<1>1. /\ m.tid \in Id /\ m.sid \in Id /\ m.counter \in Nat /\ m.call \in Calls
      /\ m.type = "user"
  BY FrameShape DEF FramesTypeOK, SessionCall
<1>2. m.sid \in DOMAIN sessionsById /\ sessionsById[m.sid] \in Sessions
  BY DEF SessionCall, LiveSession, ServerTypeOK, Sessions
<1> DEFINE s == sessionsById[m.sid]
<1>3. CASE Accepts(s.snakeCounter, m.counter)
  <2>1. PICK status \in CallbackResults :
          Exchange(m, {[type |-> "result", tid |-> m.tid, key |-> s.aesKey,
                        status |-> status, call |-> m.call]})
    BY <1>3 DEF SessionCall
  <2>2. status \in {"ok", "error", "srv"} /\ s.aesKey \in Key
    BY <1>2, CallbackAssumption DEF Sessions
  <2>3. [type |-> "result", tid |-> m.tid, key |-> s.aesKey,
         status |-> status, call |-> m.call] \in ResultFrame
    BY <1>1, <2>2 DEF ResultFrame
  <2>4. FramesTypeOK'
    BY <2>1, <2>3, ExchangeType DEF Frame, CallResponse
  <2>5. Declare(s.snakeCounter, m.counter) \in SnakeCounters
    BY <1>1, <1>2, DeclareType DEF Sessions
  <2>6. sessionsById' = [sessionsById EXCEPT ![m.sid] =
                           [s EXCEPT !.snakeCounter = Declare(s.snakeCounter, m.counter)]]
    BY <1>3 DEF SessionCall
  <2>7. [s EXCEPT !.snakeCounter = Declare(s.snakeCounter, m.counter)] \in Sessions
    BY <1>2, <2>5 DEF Sessions
  <2>8. /\ DOMAIN sessionsById' = DOMAIN sessionsById
        /\ \A t \in DOMAIN sessionsById : sessionsById'[t] \in Sessions
    BY <2>6, <2>7 DEF ServerTypeOK, Sessions
  <2>9. executed' \in [Calls -> Nat]
    BY <1>1, <1>3 DEF SessionCall, ServerTypeOK
  <2> QED
    BY <2>4, <2>8, <2>9 DEF SessionCall, ServerTypeOK, Sessions
<1>4. CASE ~Accepts(s.snakeCounter, m.counter)
  <2>1. FramesTypeOK'
    BY <1>4, ExchangeType DEF SessionCall
  <2> QED
    BY <1>4, <2>1 DEF SessionCall, ServerTypeOK
<1> QED
  BY <1>3, <1>4

LEMMA GetNonceType ==
  ASSUME FramesTypeOK, ServerTypeOK, NEW m \in net, GetNonce(m)
  PROVE  FramesTypeOK' /\ ServerTypeOK'
PROOF
<1>1. m.tid \in Id
  BY FrameShape DEF FramesTypeOK, GetNonce
<1>2. authNonces \in Rings /\ drawn + 1 \in Nat
  BY DEF ServerTypeOK, Rings
<1>3. [type |-> "nonce", tid |-> m.tid, nonce |-> NextNonce(authNonces, drawn + 1)] \in NonceFrame
  BY <1>1, <1>2, AfterNextType DEF NonceFrame
<1>4. FramesTypeOK'
  BY <1>3, ExchangeType DEF GetNonce, Frame, CallResponse
<1>5. authNonces' \in Rings /\ drawn' \in Nat
  BY <1>2, AfterNextType DEF GetNonce
<1> QED
  BY <1>4, <1>5 DEF GetNonce, ServerTypeOK, Rings

LEMMA UseNonceType ==
  ASSUME FramesTypeOK, ServerTypeOK, NEW m \in net, AuthPresented(m), UseNonce(m)
  PROVE  /\ authNonces \in Rings /\ authNonces' \in Rings
         /\ drawn \in Nat /\ drawn' = drawn + 1
         /\ m.tid \in Id /\ m.key \in Key /\ m.nonce \in NonceValue
PROOF
<1>1. m.tid \in Id /\ m.key \in Key /\ m.nonce \in NonceValue
  BY FrameShape DEF FramesTypeOK, AuthPresented
<1>2. authNonces \in Rings /\ drawn \in Nat /\ drawn' = drawn + 1
  BY DEF ServerTypeOK, Rings, UseNonce
<1>3. authNonces' \in Rings
  BY <1>1, <1>2, AfterCheckType DEF UseNonce, AuthPresented
<1> QED
  BY <1>1, <1>2, <1>3

LEMMA AuthAcceptedType ==
  ASSUME FramesTypeOK, ServerTypeOK, NEW m \in net, AuthAccepted(m)
  PROVE  FramesTypeOK' /\ ServerTypeOK'
PROOF
<1>1. /\ authNonces' \in Rings /\ drawn' \in Nat
      /\ m.tid \in Id /\ m.key \in Key /\ m.nonce \in NonceValue
  BY UseNonceType DEF AuthAccepted
<1>2. nextSessionId \in Nat /\ nextSessionId' = nextSessionId + 1
  BY DEF AuthAccepted, ServerTypeOK
<1>3. [type |-> "session", tid |-> m.tid, key |-> m.key, sid |-> nextSessionId] \in SessionFrame
  BY <1>1, <1>2 DEF SessionFrame, Id
<1>4. FramesTypeOK'
  BY <1>3, ExchangeType DEF AuthAccepted, Frame, CallResponse
<1>5. NewSession(m.key) \in Sessions
  BY <1>1, NewSessionType
<1>6. /\ DOMAIN sessionsById' \subseteq Nat
      /\ \A t \in (DOMAIN sessionsById)' : sessionsById'[t] \in Sessions
  BY <1>2, <1>5 DEF AuthAccepted, ServerTypeOK, Sessions
<1>7. opened' \subseteq [key : Key, sid : Id, nonce : NonceValue]
  BY <1>1, <1>2 DEF AuthAccepted, ServerTypeOK, Id
<1>8. UNCHANGED <<TransportPublicKey, executed>>
  BY DEF AuthAccepted
<1> QED
  BY <1>1, <1>2, <1>4, <1>6, <1>7, <1>8 DEF ServerTypeOK, Rings, Sessions

LEMMA ServerHandleType ==
  ASSUME FramesTypeOK, ServerTypeOK, NEW m \in net, ServerHandle(m)
  PROVE  FramesTypeOK' /\ ServerTypeOK'
PROOF
<1>0. m \in Frame
  BY DEF FramesTypeOK
<1>1. CASE SendPublicKey(m)
  <2>1. {[type |-> "publicKey", key |-> TransportPublicKey]} \subseteq Frame
    BY DEF ServerTypeOK, Frame, PublicKeyFrame
  <2> QED
    BY <1>1, <2>1, ExchangeType DEF SendPublicKey, serverVars, serverState, ServerTypeOK
<1>2. CASE RefuseSession(m)
  BY <1>0, <1>2, PlainType, ExchangeType DEF RefuseSession, serverVars, serverState, ServerTypeOK
<1>3. CASE SessionlessUserCall(m)
  <2>1. PICK status \in {"ok", "srv"} : Exchange(m, {Plain(m, status)})
    BY <1>3 DEF SessionlessUserCall
  <2>2. FramesTypeOK'
    BY <1>0, <1>3, <2>1, PlainType, ExchangeType DEF SessionlessUserCall
  <2> QED
    BY <1>3, <2>2 DEF SessionlessUserCall, serverVars, serverState, ServerTypeOK
<1>4. CASE AuthIgnored(m)
  BY <1>4, ExchangeType DEF AuthIgnored, serverVars, serverState, ServerTypeOK
<1>5. CASE AuthRejected(m)
  BY <1>5, ExchangeType, UseNonceType DEF AuthRejected, ServerTypeOK, Rings
<1> QED
  BY <1>1, <1>2, <1>3, <1>4, <1>5, SessionCallType, GetNonceType, AuthAcceptedType
     DEF ServerHandle

LEMMA ServerNextType ==
  ASSUME FramesTypeOK, ServerTypeOK, ServerNext
  PROVE  FramesTypeOK' /\ ServerTypeOK'
PROOF
<1>1. ASSUME NEW sid \in DOMAIN sessionsById, PurgeSession(sid)
      PROVE  FramesTypeOK' /\ ServerTypeOK'
  BY <1>1 DEF PurgeSession, FramesTypeOK, ServerTypeOK
<1>2. CASE RestartServer
  <2>1. FreshRing(drawn) \in Rings /\ drawn + NonceCount \in Nat
    BY FreshRingType, NonceCountAssumption DEF ServerTypeOK
  <2>2. DOMAIN sessionsById' = {}
    BY <1>2 DEF RestartServer
  <2> QED
    BY <1>2, <2>1, <2>2 DEF RestartServer, FramesTypeOK, ServerTypeOK, Rings, Key, NoKey
<1> QED
  BY <1>1, <1>2, ServerHandleType DEF ServerNext

-----------------------------------------------------------------------------
(* The client's part and the server's part of the state together. *)
LEMMA TypeInvInit == Init => TypeInv
PROOF
<1> SUFFICES ASSUME Init PROVE TypeInv
  OBVIOUS
<1>1. FramesTypeOK
  BY MaxRepeatsAssumption DEF Init, FramesTypeOK
<1>2. \A c \in Calls : call[c] = IdleCall /\ call[c].pc = "idle"
  BY DEF Init, ClientInit, IdleCall
<1>3. IdleCall \in CallState
  BY DEF IdleCall, CallState, Places, NoNonce, NonceValue, NoSession, NoKey, Id, Key
<1>4. DOMAIN outgoingTransactions = {}
  BY DEF Init, ClientInit
<1>5. ClientTypeOK
  BY <1>3, <1>4 DEF Init, ClientInit, ClientTypeOK, NoSession, NoKey, Id, Key
<1>6. TransactionInv
  BY <1>2, <1>4 DEF TransactionInv, OutgoingExact, WaitersOld
<1>7. AuthExclusive
  BY <1>2 DEF Init, ClientInit, AuthExclusive, InAuth
<1>8. FreshRing(0) \in Rings
  BY FreshRingType
<1>9. DOMAIN sessionsById = {}
  BY DEF Init, ServerInit
<1>10. ServerTypeOK
  BY <1>8, <1>9, NonceCountAssumption DEF Init, ServerInit, ServerTypeOK, Rings, Key, NoKey
<1> QED
  BY <1>1, <1>5, <1>6, <1>7, <1>10 DEF TypeInv, ClientInv

LEMMA TypeInvStep == TypeInv /\ [Next]_vars => TypeInv'
PROOF
<1> SUFFICES ASSUME TypeInv, [Next]_vars PROVE TypeInv'
  OBVIOUS
<1> USE DEF TypeInv
<1>1. ASSUME UNCHANGED serverVars PROVE ServerTypeOK'
  BY <1>1 DEF serverVars, serverState, ServerTypeOK
<1>2. ASSUME FramesTypeOK', UNCHANGED clientVars PROVE ClientInv'
  <2>1. ClientTypeOK'
    BY <1>2 DEF clientVars, session, ClientInv, ClientTypeOK
  <2>2. TransactionInv' /\ AuthExclusive'
    BY <1>2 DEF clientVars, ClientInv, TransactionInv, OutgoingExact, WaitersOld,
                AuthExclusive, InAuth
  <2> QED
    BY <1>2, <2>1, <2>2 DEF ClientInv
<1>3. ASSUME NEW c \in Calls, CallStep(c), UNCHANGED serverVars PROVE TypeInv'
  BY <1>1, <1>3, CallStepInv
<1>4. ASSUME NEW m \in net, ClientReceive(m), UNCHANGED serverVars PROVE TypeInv'
  BY <1>1, <1>4, ClientReceiveInv
<1>5. CASE ServerNext /\ UNCHANGED clientVars
  BY <1>2, <1>5, ServerNextType DEF ClientInv
<1>6. CASE UNCHANGED vars
  <2>1. FramesTypeOK' /\ UNCHANGED clientVars /\ UNCHANGED serverVars
    BY <1>6 DEF vars, ClientInv, FramesTypeOK
  <2> QED
    BY <1>1, <1>2, <2>1
<1> QED
  BY <1>3, <1>4, <1>5, <1>6 DEF Next

LEMMA TypeInvAlways == Spec => []TypeInv
BY TypeInvInit, TypeInvStep, PTL DEF Spec

(* Every reachable state is well typed, in particular what a call reads    *)
(* from its transaction is an answer.                                      *)
THEOREM TypeCorrect == Spec => []TypeOK
PROOF
<1>1. TypeInv => TypeOK
  BY DEF TypeInv, ClientInv, TypeOK
<1> QED
  BY <1>1, TypeInvAlways, PTL

(* At most one call is inside auth, and every way out of it clears         *)
(* authProcessing (RemotePeer.auth, its deferred function).                *)
THEOREM AuthIsExclusive == Spec => []AuthExclusive
PROOF
<1>1. TypeInv => AuthExclusive
  BY DEF TypeInv, ClientInv
<1> QED
  BY <1>1, TypeInvAlways, PTL

(* The map of outgoing transactions neither leaks nor shares an entry      *)
(* (RemotePeer.executeTransaction).                                        *)
THEOREM OutgoingIsExact == Spec => []OutgoingExact
PROOF
<1>1. TypeInv => OutgoingExact
  BY DEF TypeInv, ClientInv, TransactionInv
<1> QED
  BY <1>1, TypeInvAlways, PTL

-----------------------------------------------------------------------------
(* Why one nonce opens one session: no cell of the ring holds the nonce of *)
(* a session that was opened, and none ever will, because a cell only ever *)
(* gets a tag that was not drawn before.  Why a server gives out a session *)
(* id once: the ids of this incarnation are below nextSessionId.           *)
CellsDrawn == \A i \in Indexes : authNonces.nonces[i].tag <= drawn

OpenedSpent ==
  \A o \in opened : o.nonce.tag <= drawn /\ ~Check(authNonces, o.nonce)

OpenedBelow ==
  \A o \in opened :
    \/ o.key < TransportPublicKey
    \/ o.key = TransportPublicKey /\ o.sid < nextSessionId

OpenInv == CellsDrawn /\ OpenedSpent /\ OpenedBelow /\ OneSessionPerNonce

(* A step that opens nothing and refills cells with fresh tags only. *)
LEMMA RefillOpen ==
  ASSUME TypeInv, ServerTypeOK', OpenInv,
         UNCHANGED <<opened, TransportPublicKey, nextSessionId>>,
         drawn' >= drawn,
         \A j \in Indexes : \/ authNonces'.nonces[j] = authNonces.nonces[j]
                            \/ /\ authNonces'.nonces[j].tag > drawn
                               /\ authNonces'.nonces[j].tag <= drawn'
  PROVE  OpenInv'
PROOF
<1>0. drawn \in Nat /\ drawn' \in Nat
  BY DEF TypeInv, ServerTypeOK
<1>1. \A j \in Indexes : /\ authNonces.nonces[j].tag \in Nat
                         /\ authNonces'.nonces[j].tag \in Nat
  BY DEF TypeInv, ServerTypeOK, NonceValue
<1>2. CellsDrawn'
  BY <1>0, <1>1 DEF OpenInv, CellsDrawn
<1>3. OpenedSpent'
  <2> SUFFICES ASSUME NEW o \in opened
               PROVE  o.nonce.tag <= drawn' /\ ~Check(authNonces', o.nonce)
    BY DEF OpenedSpent
  <2>1. o.nonce.tag <= drawn /\ ~Check(authNonces, o.nonce) /\ o.nonce.tag \in Nat
    BY DEF OpenInv, OpenedSpent, TypeInv, ServerTypeOK, NonceValue
  <2> QED
    BY <1>0, <1>1, <2>1 DEF Check
<1>4. OpenedBelow' /\ OneSessionPerNonce'
  BY DEF OpenInv, OpenedBelow, OneSessionPerNonce
<1> QED
  BY <1>2, <1>3, <1>4 DEF OpenInv

LEMMA AuthAcceptedOpen ==
  ASSUME TypeInv, OpenInv, NEW m \in net, AuthAccepted(m)
  PROVE  OpenInv'
PROOF
<1>1. /\ authNonces \in Rings /\ drawn \in Nat /\ drawn' = drawn + 1
      /\ m.key = TransportPublicKey /\ m.nonce \in NonceValue
      /\ Check(authNonces, m.nonce)
  BY UseNonceType DEF AuthAccepted, AuthPresented, TypeInv, ClientInv
<1>2. /\ TransportPublicKey \in Nat /\ UNCHANGED TransportPublicKey
      /\ nextSessionId \in Nat /\ nextSessionId' = nextSessionId + 1
  BY DEF AuthAccepted, TypeInv, ServerTypeOK, Key
<1> DEFINE new == [key |-> m.key, sid |-> nextSessionId, nonce |-> m.nonce]
<1>3. opened' = opened \cup {new}
  BY DEF AuthAccepted
<1>4. authNonces' = AfterCheck(authNonces, m.nonce, drawn + 1)
  BY DEF AuthAccepted, UseNonce
<1>5. /\ authNonces' \in Rings
      /\ \A j \in Indexes : \/ authNonces'.nonces[j] = authNonces.nonces[j]
                            \/ authNonces'.nonces[j].tag = drawn + 1
      /\ authNonces'.nonces[m.nonce.index].tag = drawn + 1
  BY <1>1, <1>4, AfterCheckType
<1>6. \A j \in Indexes : authNonces.nonces[j].tag \in Nat /\ authNonces.nonces[j].tag <= drawn
  BY <1>1 DEF OpenInv, CellsDrawn, Rings, NonceValue
<1>7. CellsDrawn'
  BY <1>1, <1>5, <1>6 DEF CellsDrawn
<1>8. m.nonce.tag <= drawn /\ m.nonce.tag \in Nat
  BY <1>1, <1>6 DEF Check
<1>9. \A o \in opened : /\ o.nonce.tag <= drawn /\ o.nonce.tag \in Nat
                        /\ ~Check(authNonces, o.nonce)
  BY DEF OpenInv, OpenedSpent, TypeInv, ServerTypeOK, NonceValue
<1>10. \A o \in opened : ~Check(authNonces', o.nonce)
  BY <1>1, <1>5, <1>9 DEF Check
<1>11. ~Check(authNonces', m.nonce)
  BY <1>1, <1>5, <1>8 DEF Check
<1>12. OpenedSpent'
  BY <1>1, <1>3, <1>8, <1>9, <1>10, <1>11 DEF OpenedSpent
<1>13. OpenedBelow'
  BY <1>1, <1>2, <1>3 DEF OpenInv, OpenedBelow, TypeInv, ServerTypeOK, Id
<1>14. \A o \in opened : o.nonce # new.nonce /\ ~(o.key = new.key /\ o.sid = new.sid)
  <2> SUFFICES ASSUME NEW o \in opened
               PROVE  o.nonce # m.nonce /\ ~(o.key = m.key /\ o.sid = nextSessionId)
    OBVIOUS
  <2>1. o.nonce # m.nonce
    BY <1>1, <1>9
  <2>2. ~(o.key = m.key /\ o.sid = nextSessionId)
    BY <1>1, <1>2 DEF OpenInv, OpenedBelow
  <2> QED
    BY <2>1, <2>2
<1> HIDE DEF new
<1>15. OneSessionPerNonce'
  BY <1>3, <1>14 DEF OpenInv, OneSessionPerNonce
<1> QED
  BY <1>7, <1>12, <1>13, <1>15 DEF OpenInv

LEMMA OpenInvStep == TypeInv /\ TypeInv' /\ OpenInv /\ [Next]_vars => OpenInv'
PROOF
<1> SUFFICES ASSUME TypeInv, TypeInv', OpenInv, [Next]_vars PROVE OpenInv'
  OBVIOUS
<1>0. authNonces \in Rings /\ drawn \in Nat /\ ServerTypeOK' /\ FramesTypeOK /\ ServerTypeOK
  BY DEF TypeInv, ClientInv, ServerTypeOK, Rings
<1>1. ASSUME UNCHANGED <<authNonces, drawn, opened, TransportPublicKey, nextSessionId>>
      PROVE  OpenInv'
  BY <1>0, <1>1, RefillOpen
<1>2. ASSUME NEW m \in net, GetNonce(m) PROVE OpenInv'
  <2>1. UNCHANGED <<opened, TransportPublicKey, nextSessionId>> /\ drawn' = drawn + 1
    BY <1>2 DEF GetNonce
  <2>2. \A j \in Indexes : \/ authNonces'.nonces[j] = authNonces.nonces[j]
                           \/ authNonces'.nonces[j].tag = drawn + 1
    BY <1>0, <1>2, AfterNextType DEF GetNonce
  <2> QED
    BY <1>0, <2>1, <2>2, RefillOpen
<1>3. ASSUME NEW m \in net, AuthRejected(m) PROVE OpenInv'
  <2>1. UNCHANGED <<opened, TransportPublicKey, nextSessionId>> /\ drawn' = drawn + 1
    BY <1>3 DEF AuthRejected, UseNonce
  <2>2. m.nonce \in NonceValue /\ Check(authNonces, m.nonce)
    BY <1>0, <1>3, UseNonceType DEF AuthRejected, AuthPresented
  <2>3. \A j \in Indexes : \/ authNonces'.nonces[j] = authNonces.nonces[j]
                           \/ authNonces'.nonces[j].tag = drawn + 1
    BY <1>0, <1>3, <2>2, AfterCheckType DEF AuthRejected, UseNonce
  <2> QED
    BY <1>0, <2>1, <2>3, RefillOpen
<1>4. ASSUME RestartServer PROVE OpenInv'
  <2>1. /\ TransportPublicKey \in Nat /\ TransportPublicKey' = TransportPublicKey + 1
        /\ opened' = opened /\ drawn' = drawn + NonceCount
        /\ authNonces' = FreshRing(drawn)
    BY <1>4 DEF RestartServer, TypeInv, ServerTypeOK, Key
  <2>2. \A j \in Indexes : /\ authNonces'.nonces[j].tag > drawn
                           /\ authNonces'.nonces[j].tag <= drawn + NonceCount
                           /\ authNonces'.nonces[j].tag \in Nat
    BY <1>0, <2>1, FreshRingType DEF Rings, NonceValue
  <2>3. CellsDrawn'
    BY <2>1, <2>2 DEF CellsDrawn
  <2>4. OpenedSpent'
    <3> SUFFICES ASSUME NEW o \in opened
                 PROVE  o.nonce.tag <= drawn' /\ ~Check(authNonces', o.nonce)
      BY <2>1 DEF OpenedSpent
    <3>1. o.nonce.tag <= drawn /\ o.nonce.tag \in Nat
      BY DEF OpenInv, OpenedSpent, TypeInv, ServerTypeOK, NonceValue
    <3> QED
      BY <1>0, <2>1, <2>2, <3>1, NonceCountAssumption DEF Check
  <2>5. OpenedBelow'
    <3> SUFFICES ASSUME NEW o \in opened PROVE o.key < TransportPublicKey'
      BY <2>1 DEF OpenedBelow
    <3>1. o.key \in Nat /\ o.key <= TransportPublicKey
      BY <2>1 DEF OpenInv, OpenedBelow, TypeInv, ServerTypeOK, Key
    <3> QED
      BY <2>1, <3>1
  <2>6. OneSessionPerNonce'
    BY <2>1 DEF OpenInv, OneSessionPerNonce
  <2> QED
    BY <2>3, <2>4, <2>5, <2>6 DEF OpenInv
<1>5. CASE UNCHANGED serverVars
  BY <1>1, <1>5 DEF serverVars, serverState
<1>6. ASSUME NEW m \in net, ServerHandle(m) PROVE OpenInv'
  <2>1. CASE SendPublicKey(m) \/ RefuseSession(m) \/ SessionlessUserCall(m) \/ AuthIgnored(m)
    BY <2>1, <1>5 DEF SendPublicKey, RefuseSession, SessionlessUserCall, AuthIgnored
  <2>2. CASE SessionCall(m)
    BY <2>2, <1>1 DEF SessionCall
  <2> QED
    BY <1>2, <1>3, <1>6, <2>1, <2>2, AuthAcceptedOpen DEF ServerHandle
<1>7. ASSUME NEW sid \in DOMAIN sessionsById, PurgeSession(sid) PROVE OpenInv'
  BY <1>7, <1>1 DEF PurgeSession
<1>8. CASE UNCHANGED vars
  BY <1>8, <1>5 DEF vars
<1> QED
  BY <1>4, <1>5, <1>6, <1>7, <1>8 DEF Next, ServerNext

LEMMA OpenInvInit == Init => OpenInv
PROOF
<1> SUFFICES ASSUME Init PROVE OpenInv
  OBVIOUS
<1>1. CellsDrawn
  BY FreshRingType, NonceCountAssumption DEF Init, ServerInit, CellsDrawn
<1>2. OpenedSpent /\ OpenedBelow /\ OneSessionPerNonce
  BY DEF Init, ServerInit, OpenedSpent, OpenedBelow, OneSessionPerNonce
<1> QED
  BY <1>1, <1>2 DEF OpenInv

(* However often an auth frame is delivered, however many clients ask for  *)
(* nonces and however often the server restarts: a nonce opens at most one *)
(* session (processAuth, Nonces.Check).                                    *)
THEOREM NonceOpensOneSession == Spec => []OneSessionPerNonce
PROOF
<1>1. OpenInv => OneSessionPerNonce
  BY DEF OpenInv
<1> QED
  BY <1>1, TypeInvAlways, OpenInvInit, OpenInvStep, PTL DEF Spec

-----------------------------------------------------------------------------
(* Why a callback runs at most once per call.  A call sends one user frame *)
(* (UserFrameOfSent, OneUserFrame), and after its callback ran the frame   *)
(* is spent: its key is that of a dead incarnation, or its session is gone *)
(* and its id not to be given out again, or the session's filter refuses   *)
(* its counter.  A spent frame stays spent because refusal is final.       *)
Sent(c) == call[c].pc = "done" \/ (call[c].pc = "wait" /\ call[c].phase = "user")

SessionsCurrent ==
  \A sid \in DOMAIN sessionsById :
    sid < nextSessionId /\ sessionsById[sid].aesKey = TransportPublicKey

Spent(m) ==
  \/ m.key < TransportPublicKey
  \/ /\ m.key = TransportPublicKey
     /\ m.sid < nextSessionId
     /\ LiveSession(m.sid) => ~Accepts(sessionsById[m.sid].snakeCounter, m.counter)

UserFrameOfSent == \A m \in net : m.type = "user" => Sent(m.call)

OneUserFrame ==
  \A m, n \in net : m.type = "user" /\ n.type = "user" /\ m.call = n.call => m = n

ExecutedSent == \A c \in Calls : executed[c] > 0 => Sent(c)

ExecutedSpent == \A m \in net : m.type = "user" /\ executed[m.call] > 0 => Spent(m)

ExecInv ==
  /\ SessionsCurrent
  /\ UserFrameOfSent
  /\ OneUserFrame
  /\ ExecutedSent
  /\ ExecutedSpent
  /\ ExecutedAtMostOnce

(* What a step of call c does to the calls and to the frames. *)
LEMMA OthersStay ==
  ASSUME ClientTypeOK, NEW c \in Calls, CallStep(c), NEW d \in Calls, d # c
  PROVE  call'[d] = call[d]
PROOF
<1> USE DEF ClientTypeOK
<1>1. CASE StartCall(c) \/ KeyArrived(c) \/ KeyTimeout(c) \/ PassGate(c) \/ EnterAuth(c)
  BY <1>1 DEF StartCall, KeyArrived, KeyTimeout, PassGate, EnterAuth, At, Fail, Return
<1>2. CASE SetKey(c) \/ Seal(c) \/ SetSession(c) \/ CopyKey(c) \/ ReadSession(c)
  BY <1>2 DEF SetKey, Seal, SetSession, CopyKey, ReadSession, At, FailAuth, Fail, Return
<1>3. CASE Send(c) \/ Timeout(c)
  BY <1>3 DEF Send, Timeout, FailAuth, Fail, Return
<1>4. CASE NonceAnswered(c) \/ AuthAnswered(c)
  BY <1>4 DEF NonceAnswered, AuthAnswered, FailAuth, Fail, Return
<1>5. CASE EncryptedAnswered(c) \/ PlainAnswered(c)
  BY <1>5 DEF EncryptedAnswered, PlainAnswered, Fail, Return
<1> QED
  BY <1>1, <1>2, <1>3, <1>4, <1>5 DEF CallStep

LEMMA SentStays ==
  ASSUME ClientInv, NEW c \in Calls, CallStep(c), Sent(c)
  PROVE  call'[c].pc = "done"
PROOF
<1>1. Timeout(c) \/ EncryptedAnswered(c) \/ PlainAnswered(c)
  BY DEF Sent, CallStep, StartCall, KeyArrived, KeyTimeout, PassGate, EnterAuth, SetKey, Seal,
         SetSession, CopyKey, ReadSession, Send, NonceAnswered, AuthAnswered, Waiting
<1> QED
  BY <1>1 DEF Timeout, EncryptedAnswered, PlainAnswered, FailAuth, Fail, Return, IdleCall,
              ClientInv, ClientTypeOK

LEMMA CallStepFrames ==
  ASSUME ClientInv, NEW c \in Calls, CallStep(c)
  PROVE  \A m \in net' : m.type = "user" =>
           m \in net \/ (m = CallFrame(c) /\ m.call = c /\ ~Sent(c) /\ Sent(c)')
PROOF
<1>1. CASE StartCall(c)
  BY <1>1 DEF StartCall, Post, GetKey
<1>2. CASE Send(c)
  <2>1. net' = net \cup {CallFrame(c)} /\ call[c].pc = "send"
    BY <1>2 DEF Send, Post
  <2>2. call'[c].pc = "wait" /\ call'[c].phase = call[c].phase
    BY <1>2 DEF Send, ClientInv, ClientTypeOK, CallState
  <2>3. CallFrame(c).type = "user" => call[c].phase = "user" /\ CallFrame(c).call = c
    BY DEF CallFrame, ClientInv, ClientTypeOK, CallState
  <2> QED
    BY <2>1, <2>2, <2>3 DEF Sent
<1>3. CASE ~StartCall(c) /\ ~Send(c)
  <2>1. net' = net
    BY <1>3 DEF CallStep, KeyArrived, KeyTimeout, PassGate, EnterAuth, SetKey, Seal, SetSession,
                CopyKey, ReadSession, Timeout, NonceAnswered, AuthAnswered, EncryptedAnswered,
                PlainAnswered
  <2> QED
    BY <2>1
<1> QED
  BY <1>1, <1>2, <1>3

LEMMA CallStepExec ==
  ASSUME TypeInv, ExecInv, NEW c \in Calls, CallStep(c), UNCHANGED serverVars
  PROVE  ExecInv'
PROOF
<1> USE DEF TypeInv, ExecInv
<1>1. \A d \in Calls : Sent(d) => Sent(d)'
  <2> SUFFICES ASSUME NEW d \in Calls, Sent(d) PROVE Sent(d)'
    OBVIOUS
  <2>1. CASE d = c
    BY <2>1, SentStays DEF Sent
  <2>2. CASE d # c
    BY <2>2, OthersStay DEF Sent, ClientInv
  <2> QED
    BY <2>1, <2>2
<1>2. \A m \in net : m.type = "user" => m.call \in Calls
  BY FrameShape DEF ClientInv, FramesTypeOK
<1>3. \A m \in net' : m.type = "user" =>
        m \in net \/ (m.call = c /\ ~Sent(c) /\ Sent(c)' /\ m = CallFrame(c))
  BY CallStepFrames
<1>4. UNCHANGED <<executed, sessionsById, TransportPublicKey, nextSessionId>>
  BY DEF serverVars, serverState
<1>5. UserFrameOfSent'
  BY <1>1, <1>2, <1>3 DEF UserFrameOfSent
<1>6. OneUserFrame'
  BY <1>2, <1>3 DEF OneUserFrame, UserFrameOfSent
<1>7. ExecutedSent'
  BY <1>1, <1>4 DEF ExecutedSent
<1>8. ExecutedSpent'
  BY <1>3, <1>4 DEF ExecutedSpent, ExecutedSent, Spent, LiveSession
<1>9. SessionsCurrent' /\ ExecutedAtMostOnce'
  BY <1>4 DEF SessionsCurrent, ExecutedAtMostOnce
<1> QED
  BY <1>5, <1>6, <1>7, <1>8, <1>9

(* A step that posts no user frame, runs no callback and lets spent frames *)
(* be spent.                                                               *)
LEMMA QuietExec ==
  ASSUME TypeInv, ExecInv, UNCHANGED <<call, executed>>, SessionsCurrent',
         \A m \in net' : m.type = "user" => m \in net,
         \A m \in net : m.type = "user" /\ Spent(m) => Spent(m)'
  PROVE  ExecInv'
PROOF
<1> USE DEF ExecInv
<1>1. UserFrameOfSent'
  BY DEF UserFrameOfSent, Sent
<1>2. OneUserFrame'
  BY DEF OneUserFrame
<1>3. ExecutedSent' /\ ExecutedAtMostOnce'
  BY DEF ExecutedSent, ExecutedAtMostOnce, Sent
<1>4. ExecutedSpent'
  BY DEF ExecutedSpent
<1> QED
  BY <1>1, <1>2, <1>3, <1>4

(* The step that runs the callback. *)
LEMMA SessionCallExec ==
  ASSUME TypeInv, ExecInv, NEW m \in net, SessionCall(m), UNCHANGED clientVars
  PROVE  ExecInv'
PROOF
<1> USE DEF ExecInv
<1> DEFINE s == sessionsById[m.sid]
<1>1. /\ m.type = "user" /\ m.call \in Calls /\ m.counter \in Nat
      /\ LiveSession(m.sid) /\ m.key = s.aesKey /\ s \in Sessions
  BY FrameShape DEF SessionCall, Decrypts, LiveSession, TypeInv, ClientInv, FramesTypeOK,
                    ServerTypeOK, Sessions
<1>2. UNCHANGED <<TransportPublicKey, nextSessionId, call>>
  BY DEF SessionCall, clientVars
<1>3. \A n \in net' : n.type = "user" => n \in net
  BY DEF SessionCall, Exchange
<1>4. CASE ~Accepts(s.snakeCounter, m.counter)
  <2>1. UNCHANGED <<sessionsById, executed>>
    BY <1>4 DEF SessionCall
  <2> QED
    BY <1>2, <1>3, <2>1, QuietExec DEF SessionsCurrent, Spent, LiveSession
<1>5. CASE Accepts(s.snakeCounter, m.counter)
  <2> DEFINE declared == Declare(s.snakeCounter, m.counter)
  <2>1. m.key = TransportPublicKey /\ m.sid < nextSessionId /\ TransportPublicKey \in Nat
    BY <1>1 DEF SessionsCurrent, LiveSession, TypeInv, ServerTypeOK, Key
  <2>2. executed[m.call] = 0
    <3>1. ~Spent(m)
      BY <1>1, <1>5, <2>1 DEF Spent
    <3> QED
      BY <1>1, <3>1 DEF ExecutedSpent, TypeInv, ServerTypeOK
  <2>3. executed' = [executed EXCEPT ![m.call] = executed[m.call] + 1]
    BY <1>5 DEF SessionCall
  <2>4. \A c \in Calls : executed'[c] = IF c = m.call THEN 1 ELSE executed[c]
    BY <1>1, <2>2, <2>3 DEF TypeInv, ServerTypeOK
  <2>5. sessionsById' = [sessionsById EXCEPT ![m.sid] = [s EXCEPT !.snakeCounter = declared]]
    BY <1>5 DEF SessionCall
  <2>6. /\ DOMAIN sessionsById' = DOMAIN sessionsById
        /\ sessionsById'[m.sid].snakeCounter = declared
        /\ sessionsById'[m.sid].aesKey = s.aesKey
        /\ \A t \in DOMAIN sessionsById : t # m.sid => sessionsById'[t] = sessionsById[t]
    BY <1>1, <2>5 DEF LiveSession, Sessions
  <2>7. SessionsCurrent'
    BY <1>2, <2>6 DEF SessionsCurrent
  <2>8. ~Accepts(declared, m.counter)
    BY <1>1, DeclareRefusesRepeats DEF Sessions
  <2>9. Spent(m)'
    BY <1>2, <2>1, <2>6, <2>8 DEF Spent
  <2>10. ASSUME NEW n \in net, n.type = "user", Spent(n) PROVE Spent(n)'
    <3>1. n.counter \in Nat
      BY <2>10, FrameShape DEF TypeInv, ClientInv, FramesTypeOK
    <3>2. CASE n.sid = m.sid /\ ~Accepts(s.snakeCounter, n.counter)
      <4>1. ~Accepts(declared, n.counter)
        BY <1>1, <3>1, <3>2, RefusalIsFinal DEF Sessions
      <4> HIDE DEF declared
      <4> QED
        BY <1>2, <2>6, <2>10, <3>2, <4>1 DEF Spent, LiveSession
    <3>3. CASE n.sid = m.sid /\ Accepts(s.snakeCounter, n.counter)
      BY <1>1, <1>2, <2>10, <3>3 DEF Spent, LiveSession
    <3>4. CASE n.sid # m.sid
      <4> HIDE DEF declared
      <4> QED
        BY <1>2, <2>6, <2>10, <3>4 DEF Spent, LiveSession
    <3> QED
      BY <3>2, <3>3, <3>4
  <2>11. UserFrameOfSent' /\ OneUserFrame'
    BY <1>2, <1>3 DEF UserFrameOfSent, OneUserFrame, Sent
  <2>12. ExecutedSent'
    <3>1. Sent(m.call)
      BY <1>1 DEF UserFrameOfSent
    <3> QED
      BY <1>2, <2>4, <3>1 DEF ExecutedSent, Sent
  <2>13. ExecutedSpent'
    <3> SUFFICES ASSUME NEW n \in net', n.type = "user", executed'[n.call] > 0
                 PROVE  Spent(n)'
      BY DEF ExecutedSpent
    <3>1. n \in net /\ n.call \in Calls
      BY <1>3, FrameShape DEF TypeInv, ClientInv, FramesTypeOK
    <3>2. CASE n.call = m.call
      BY <1>1, <2>9, <3>1, <3>2 DEF OneUserFrame
    <3>3. CASE n.call # m.call
      BY <2>4, <2>10, <3>1, <3>3 DEF ExecutedSpent
    <3> QED
      BY <3>2, <3>3
  <2>14. ExecutedAtMostOnce'
    BY <2>4 DEF ExecutedAtMostOnce
  <2> QED
    BY <2>7, <2>11, <2>12, <2>13, <2>14
<1> QED
  BY <1>4, <1>5

LEMMA AuthAcceptedExec ==
  ASSUME TypeInv, ExecInv, NEW m \in net, AuthAccepted(m), UNCHANGED clientVars
  PROVE  ExecInv'
PROOF
<1>1. UNCHANGED <<TransportPublicKey, executed, call>> /\ nextSessionId' = nextSessionId + 1
  BY DEF AuthAccepted, clientVars
<1>2. nextSessionId \in Nat /\ m.key = TransportPublicKey
  BY DEF AuthAccepted, AuthPresented, TypeInv, ServerTypeOK
<1>3. \A n \in net' : n.type = "user" => n \in net
  BY DEF AuthAccepted, Exchange
<1>4. /\ DOMAIN sessionsById' = DOMAIN sessionsById \cup {nextSessionId}
      /\ sessionsById'[nextSessionId] = NewSession(m.key)
      /\ \A sid \in DOMAIN sessionsById :
           sid # nextSessionId => sessionsById'[sid] = sessionsById[sid]
  BY DEF AuthAccepted
<1>5. \A sid \in DOMAIN sessionsById : sid < nextSessionId /\ sid \in Nat
  BY DEF ExecInv, SessionsCurrent, TypeInv, ServerTypeOK
<1>6. NewSession(m.key).aesKey = TransportPublicKey
  BY <1>2 DEF NewSession
<1>7. SessionsCurrent'
  BY <1>1, <1>2, <1>4, <1>5, <1>6 DEF ExecInv, SessionsCurrent
<1>8. ASSUME NEW n \in net, n.type = "user", Spent(n) PROVE Spent(n)'
  <2>1. n.sid \in Nat
    BY <1>8, FrameShape DEF TypeInv, ClientInv, FramesTypeOK, Id
  <2> QED
    BY <1>1, <1>2, <1>4, <1>8, <2>1 DEF Spent, LiveSession
<1> QED
  BY <1>1, <1>3, <1>7, <1>8, QuietExec

LEMMA ExecInvStep == TypeInv /\ ExecInv /\ [Next]_vars => ExecInv'
PROOF
<1> SUFFICES ASSUME TypeInv, ExecInv, [Next]_vars PROVE ExecInv'
  OBVIOUS
<1>1. ASSUME UNCHANGED <<call, executed, sessionsById, TransportPublicKey, nextSessionId>>,
             \A m \in net' : m.type = "user" => m \in net
      PROVE  ExecInv'
  BY <1>1, QuietExec DEF ExecInv, SessionsCurrent, Spent, LiveSession
<1>2. ASSUME NEW m \in net, ClientReceive(m), UNCHANGED serverVars PROVE ExecInv'
  <2>1. \A n \in net' : n.type = "user" => n \in net
    BY <1>2 DEF ClientReceive, ReceivePublicKey, ReceiveResponse, Exchange
  <2>2. UNCHANGED <<call, executed, sessionsById, TransportPublicKey, nextSessionId>>
    BY <1>2 DEF ClientReceive, ReceivePublicKey, ReceiveResponse, serverVars, serverState
  <2> QED
    BY <1>1, <2>1, <2>2
<1>3. ASSUME NEW m \in net, ServerHandle(m), UNCHANGED clientVars PROVE ExecInv'
  <2>1. CASE SendPublicKey(m)
    BY <1>1, <1>3, <2>1 DEF SendPublicKey, Exchange, serverVars, serverState, clientVars
  <2>2. CASE RefuseSession(m)
    BY <1>1, <1>3, <2>2 DEF RefuseSession, Plain, Exchange, serverVars, serverState, clientVars
  <2>3. CASE SessionlessUserCall(m)
    BY <1>1, <1>3, <2>3 DEF SessionlessUserCall, Plain, Exchange, serverVars, serverState,
                            clientVars
  <2>4. CASE GetNonce(m)
    BY <1>1, <1>3, <2>4 DEF GetNonce, Exchange, clientVars
  <2>5. CASE AuthIgnored(m)
    BY <1>1, <1>3, <2>5 DEF AuthIgnored, Exchange, serverVars, serverState, clientVars
  <2>6. CASE AuthRejected(m)
    BY <1>1, <1>3, <2>6 DEF AuthRejected, Exchange, clientVars
  <2> QED
    BY <1>3, <2>1, <2>2, <2>3, <2>4, <2>5, <2>6, SessionCallExec, AuthAcceptedExec
       DEF ServerHandle
<1>4. ASSUME NEW sid \in DOMAIN sessionsById, PurgeSession(sid), UNCHANGED clientVars
      PROVE  ExecInv'
  <2>1. /\ UNCHANGED <<net, call, executed, TransportPublicKey, nextSessionId>>
        /\ DOMAIN sessionsById' = DOMAIN sessionsById \ {sid}
        /\ \A t \in DOMAIN sessionsById \ {sid} : sessionsById'[t] = sessionsById[t]
    BY <1>4 DEF PurgeSession, clientVars
  <2>2. SessionsCurrent'
    BY <2>1 DEF ExecInv, SessionsCurrent
  <2>3. \A m \in net : m.type = "user" /\ Spent(m) => Spent(m)'
    BY <2>1 DEF Spent, LiveSession
  <2> QED
    BY <2>1, <2>2, <2>3, QuietExec
<1>5. ASSUME RestartServer, UNCHANGED clientVars PROVE ExecInv'
  <2>1. /\ UNCHANGED <<net, call, executed>>
        /\ TransportPublicKey \in Nat /\ TransportPublicKey' = TransportPublicKey + 1
        /\ DOMAIN sessionsById' = {}
    BY <1>5 DEF RestartServer, clientVars, TypeInv, ServerTypeOK, Key
  <2>2. SessionsCurrent'
    BY <2>1 DEF SessionsCurrent
  <2>3. ASSUME NEW m \in net, m.type = "user", Spent(m) PROVE Spent(m)'
    <3>1. m.key \in Nat
      BY <2>3, FrameShape DEF TypeInv, ClientInv, FramesTypeOK, Key
    <3>2. m.key < TransportPublicKey'
      BY <2>1, <2>3, <3>1 DEF Spent
    <3> QED
      BY <3>2 DEF Spent
  <2> QED
    BY <2>1, <2>2, <2>3, QuietExec
<1>6. CASE UNCHANGED vars
  BY <1>1, <1>6 DEF vars, clientVars, serverVars, serverState
<1> QED
  BY <1>2, <1>3, <1>4, <1>5, <1>6, CallStepExec DEF Next, ServerNext

LEMMA ExecInvInit == Init => ExecInv
PROOF
<1> SUFFICES ASSUME Init PROVE ExecInv
  OBVIOUS
<1>1. net = {} /\ DOMAIN sessionsById = {}
  BY DEF Init, ServerInit
<1>2. \A c \in Calls : executed[c] = 0
  BY DEF Init, ServerInit
<1> QED
  BY <1>1, <1>2 DEF ExecInv, SessionsCurrent, UserFrameOfSent, OneUserFrame, ExecutedSent,
                    ExecutedSpent, ExecutedAtMostOnce

(* A callback runs at most once per call, whatever the network repeats,    *)
(* however late, and whatever the server purges or forgets in a restart    *)
(* (onEdgeReceivedCall, SnakeCounter.TestAndDeclare).                      *)
THEOREM CallbackRunsAtMostOnce == Spec => []ExecutedAtMostOnce
PROOF
<1>1. ExecInv => ExecutedAtMostOnce
  BY DEF ExecInv
<1> QED
  BY <1>1, TypeInvAlways, ExecInvInit, ExecInvStep, PTL DEF Spec
=============================================================================
