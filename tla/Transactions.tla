---------------------------- MODULE Transactions ----------------------------
(***************************************************************************)
(* Messages longer than a frame (xchg/transaction.go).  The sender cuts a  *)
(* message into blocks of FrameSize bytes; each block travels in a frame   *)
(* of its own that says which transaction it belongs to, where its bytes   *)
(* start and how long the whole message is.  The receiver keeps the blocks *)
(* of a transaction until their lengths add up to that total.              *)
(*                                                                         *)
(* The bytes of a block are named by the message they were cut from (body) *)
(* and their place in it.  The limit of 100000 blocks per transaction is   *)
(* left out: 100000 blocks of 64 KiB are longer than the 32 bits of        *)
(* TotalSize can say.                                                      *)
(***************************************************************************)
EXTENDS Integers, FiniteSets, FiniteSetsExt

CONSTANT FrameSize      \* XchgMaxFrameSize

ASSUME FrameSizeAssumption == FrameSize \in Nat \ {0}

NewTransactionOfBlock(kind, tid, body, offset, total) ==
  LET length == IF total - offset < FrameSize THEN total - offset ELSE FrameSize
  IN  [kind |-> kind, tid |-> tid, body |-> body, offset |-> offset,
       length |-> length, total |-> length]

(* The block of a message of size total that starts at offset. *)
NewTransaction(kind, tid, body, offset, total) ==
  [kind |-> kind, tid |-> tid, body |-> body, offset |-> offset,
   length |-> IF total - offset < FrameSize THEN total - offset ELSE FrameSize,
   total |-> total]

(* The offsets at which a message of size total is cut. *)
Offsets(total) == {o \in 0 .. total - 1 : o % FrameSize = 0}

Blocks(kind, tid, body, total) ==
  {NewTransaction(kind, tid, body, o, total) : o \in Offsets(total)}

-----------------------------------------------------------------------------
(* AppendReceivedData.  frames are the blocks received before; a block     *)
(* whose offset was seen is not looked at again, whatever its bytes.       *)
AppendedInOrder(frames, f) ==
  IF f.offset # FrameSize * Cardinality(frames) THEN frames ELSE frames \cup {f}

Appended(frames, f) ==
  IF \E g \in frames : g.offset = f.offset THEN frames ELSE frames \cup {f}

ReceivedDataLen(frames) == MapThenSumSet(LAMBDA g : g.length, frames)

(* The total is that of the block that has just come in. *)
CompleteAtLast(frames, f) == f.offset + f.length = f.total

Complete(frames, f) == ReceivedDataLen(frames) = f.total

(* Copying a block beyond the end of the result is a run-time panic. *)
InRange(frames, f) == \A g \in frames : g.offset <= f.total
=============================================================================
