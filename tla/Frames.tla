------------------------------- MODULE Frames -------------------------------
(***************************************************************************)
(* The frames a client and a server exchange for calls, and what can       *)
(* happen to them on their way.                                            *)
(*                                                                         *)
(* A frame is posted to a router and polled from it by its addressee       *)
(* (router/, xchg/peer_receiving.go).  To the two ends this is a network   *)
(* that delays, reorders, loses and repeats frames: net holds the frames   *)
(* under way, in no order; a frame that nobody takes is lost; one that is  *)
(* taken may stay and be taken again, MaxRepeats times in all.  A call and *)
(* a response are one frame each here (Transaction.AppendReceivedData puts *)
(* longer ones together).                                                  *)
(*                                                                         *)
(* Cryptography is symbolic.  An AES key is X25519 of the two transport    *)
(* keys (utils.GetSharedKey); the client keeps its transport key, so the   *)
(* AES key is named by the server's, and the server's by the incarnation   *)
(* of the server process.  NoKey is a nil or empty key: a frame under      *)
(* NoKey is plain.  DecryptAESGCM succeeds on what was encrypted under the *)
(* same key and on nothing else.                                           *)
(***************************************************************************)
EXTENDS Integers

CONSTANTS
  Calls,          \* the calls of the client process, one goroutine each
  Nobody,         \* not a call
  MaxRepeats      \* bound on frames that are delivered a second time

ASSUME CallsAssumption == Nobody \notin Calls
ASSUME MaxRepeatsAssumption == MaxRepeats \in Nat

VARIABLES
  net,            \* the frames under way
  repeats         \* how many frames were delivered again

NoKey == 0
NoSession == 0

Key == Nat
Id == Nat
NonceValue == [index : Nat, tag : Nat]

(* Requests: XchgFrameGetPublicKeyRequest, then the three calls            *)
(* /xchg-get-nonce, /xchg-auth and a user function.  The body of an auth   *)
(* frame is encrypted under key, the frame itself is plain.                *)
GetKeyFrame == [type : {"getKey"}]
GetNonceFrame == [type : {"getNonce"}, tid : Id, sid : Id]
AuthFrame == [type : {"auth"}, tid : Id, sid : Id, key : Key, nonce : NonceValue]
UserFrame == [type : {"user"}, tid : Id, sid : Id, key : Key, counter : Nat, call : Calls]

(* Responses: the server's transport key, a nonce, a session id encrypted  *)
(* under key, the result of a callback encrypted under key, and what the   *)
(* server answers in plain: an empty success, or one of its own errors     *)
(* (the ERR_XCHG_SRV_CONN_ family).                                        *)
PublicKeyFrame == [type : {"publicKey"}, key : Key]
NonceFrame == [type : {"nonce"}, tid : Id, nonce : NonceValue]
SessionFrame == [type : {"session"}, tid : Id, key : Key, sid : Id]
ResultFrame == [type : {"result"}, tid : Id, key : Key,
                status : {"ok", "error", "srv"}, call : Calls]
PlainFrame == [type : {"plain"}, tid : Id, status : {"ok", "srv"}]

Request == GetKeyFrame \cup GetNonceFrame \cup AuthFrame \cup UserFrame
CallResponse == NonceFrame \cup SessionFrame \cup ResultFrame \cup PlainFrame
Frame == Request \cup PublicKeyFrame \cup CallResponse

FramesTypeOK == net \subseteq Frame /\ repeats \in 0 .. MaxRepeats

GetKey == [type |-> "getKey"]

Post(frames) == net' = net \cup frames /\ UNCHANGED repeats

(* Frame m is taken, for good or to come again, and frames are posted. *)
Exchange(m, frames) ==
  /\ m \in net
  /\ \/ net' = (net \ {m}) \cup frames /\ UNCHANGED repeats
     \/ /\ repeats < MaxRepeats
        /\ repeats' = repeats + 1
        /\ net' = net \cup frames
=============================================================================
