----------------------------- MODULE MessageId -----------------------------
(***************************************************************************)
(* How RedisProducer packs the id "ts-seq" of a stream entry into one      *)
(* unsigned integer, and how it finds the entry again to delete it.        *)
(***************************************************************************)
EXTENDS Integers

CONSTANTS
  TimestampShift,  \* TIMESTAMP_SHIFT, 22 in the code
  IdBits           \* the width of Message::id, 64 in the code

ASSUME WidthAssumption == TimestampShift \in Nat /\ IdBits \in Nat /\ TimestampShift < IdBits

Id == 0 .. 2^IdBits - 1

SequenceMask == 2^TimestampShift - 1

(* An id that fits: the sequence number under the mask, and the timestamp  *)
(* above it.                                                               *)
Fits(e) ==
  /\ e \in Nat \X Nat
  /\ e[2] <= SequenceMask /\ e[1] * 2^TimestampShift + e[2] < 2^IdBits

(* The bitwise or of a sequence number under the mask and the timestamp    *)
(* that << moved above it is their sum.                                    *)
messageIdFromReply(e) == ((e[1] * 2^TimestampShift) % 2^IdBits) + e[2]

(* Mutant: the mask is one bit short.                                      *)
entryIdShortMask(id) == <<id \div 2^TimestampShift, id % 2^(TimestampShift - 1)>>

(* The entry that makeXdelCommand names for a message: the id without its  *)
(* last bits, and those bits.                                              *)
entryId(id) == <<id \div 2^TimestampShift, id % (SequenceMask + 1)>>
=============================================================================
