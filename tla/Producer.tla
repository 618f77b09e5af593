------------------------------ MODULE Producer ------------------------------
(***************************************************************************)
(* What the run loop of gwback expects of an IProducer, and GwBack takes   *)
(* for granted: getNext() returns the oldest messages of the storage or    *)
(* throws and changes nothing; when markConsumed() returns, the chunk is   *)
(* deleted; when it throws, the chunk is deleted or untouched.  No other   *)
(* message ever leaves the storage.                                        *)
(***************************************************************************)
EXTENDS Chunking

CONSTANT Message  \* the ids

VARIABLES
  stored,  \* the ids in the storage
  call,    \* the call in progress, or "none"
  chunk,   \* what getNext() returned and the run loop has not dropped
  result   \* how the last call ended

vars == <<stored, call, chunk, result>>

Init == stored = {} /\ call = "none" /\ chunk = <<>> /\ result = "none"

Produce ==
  /\ \E m \in Message \ stored : stored' = stored \cup {m}
  /\ UNCHANGED <<call, chunk, result>>

Call ==
  /\ call = "none"
  /\ call' = IF chunk = <<>> THEN "getNext" ELSE "markConsumed"
  /\ UNCHANGED <<stored, chunk, result>>

GetNext ==
  /\ call = "getNext"
  /\ chunk' \in Chunks(stored)
  /\ call' = "none" /\ result' = "returned"
  /\ UNCHANGED stored

MarkConsumed ==
  /\ call = "markConsumed"
  /\ stored' = stored \ Range(chunk)
  /\ call' = "none" /\ chunk' = <<>> /\ result' = "returned"

(* The storage may delete a chunk long before the call ends.               *)
Delete ==
  /\ call = "markConsumed"
  /\ stored' = stored \ Range(chunk)
  /\ UNCHANGED <<call, chunk, result>>

(* In a getNext() chunk is empty, so that a failed one changes nothing.    *)
Throw ==
  /\ call # "none"
  /\ stored' \in {stored, stored \ Range(chunk)}
  /\ call' = "none" /\ chunk' = <<>> /\ result' = "threw"

(* The consumer failed; the run loop forgets the chunk.                    *)
Forget ==
  /\ call = "none"
  /\ chunk' = <<>>
  /\ UNCHANGED <<stored, call, result>>

Next == Produce \/ Call \/ GetNext \/ MarkConsumed \/ Delete \/ Throw \/ Forget

Spec == Init /\ [][Next]_vars
=============================================================================
