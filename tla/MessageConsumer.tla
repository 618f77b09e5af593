-------------------------- MODULE MessageConsumer --------------------------
(***************************************************************************)
(* gwback's MessageConsumer: the in-memory buffer_, the detached threads   *)
(* that flushBuffer() starts, and the files that saveMessages() writes.    *)
(*                                                                         *)
(* A message is represented by its id; its bytes are moved along with it   *)
(* and nothing in the consumer looks at more of them than their number.  A *)
(* file is the set of the messages that are whole in it, each with the     *)
(* byte it begins at.  The operators here are the parts of actions; module *)
(* GwBack, whose run loop and main() call them, assembles them into steps. *)
(***************************************************************************)
EXTENDS Integers, Sequences, SequencesExt

CONSTANTS
  Id,            \* the message ids that can occur, positive numbers
  Length,        \* message.data.size() and the newline, of each message
  IdMax,         \* numeric_limits<uint64_t>::max(): no id is above it
  ConsumerChunk  \* ConsumerConfig::chunkSize

ASSUME IdAssumption == Id \subseteq Nat \ {0} /\ IdMax \in Nat /\ \A i \in Id : i <= IdMax
ASSUME LengthAssumption == Length \in [Id -> Nat \ {0}]
ASSUME ConsumerChunkAssumption == ConsumerChunk \in Nat \ {0}

VARIABLES
  buffer,  \* MessageConsumer::buffer_
  savers,  \* the calls of saveMessages under way or finished in this process
  files    \* the output folder: contents of the file of every possible name

consumerVars == <<buffer, savers, files>>

EmptyFile == {}

(* What is left whole of a file when the first len bytes of m are written  *)
(* at byte `at': all that they do not touch, and m itself if it was there. *)
WrittenOver(file, at, len, m) ==
  {r \in file : r = <<at, m>> \/ at + len <= r[1] \/ r[1] + Length[r[2]] <= at}

(***************************************************************************)
(* One call of saveMessages: "start" before the file is opened, "open"     *)
(* while messages are written (n of them so far, up to byte `at' of its    *)
(* own stream), "done" after its return.                                   *)
(***************************************************************************)
SaverPc == {"start", "open", "done"}
Saver == [batch : Seq(Id), pc : SaverPc, n : Nat, at : Nat]
NewSaver(batch) == [batch |-> batch, pc |-> "start", n |-> 0, at |-> 0]
Pending == {s \in DOMAIN savers : savers[s].pc # "done"}

(* Mutant: maxId taken over the wrong variable.                            *)
NameStepMaxOfMin(acc, id) ==
  LET minId == Min({acc.min, id})
  IN  [min |-> minId, max |-> Max({acc.max, minId})]

(***************************************************************************)
(* The file name: minId and maxId after the loop over the batch.           *)
(***************************************************************************)
NameStep(acc, id) ==
  LET minId == Min({acc.min, id})
  IN  [min |-> minId, max |-> Max({minId, id})]

FileName(batch) ==
  LET ids[i \in 0 .. Len(batch)] ==
        IF i = 0 THEN [min |-> IdMax, max |-> 0] ELSE NameStep(ids[i - 1], batch[i])
  IN  <<ids[Len(batch)].min, ids[Len(batch)].max>>

ConsumerInit ==
  /\ buffer = <<>>
  /\ savers = <<>>
  /\ files = [name \in Id \X Id |-> EmptyFile]

(***************************************************************************)
(* operator() moves one message into buffer_; a full buffer is handed to a *)
(* new detached thread and buffer_ is left empty by the move.              *)
(***************************************************************************)
(* Mutant: > for >=.                                                       *)
IsOverfull(b) == Len(b) > ConsumerChunk

IsFull(b) == Len(b) >= ConsumerChunk

(* Mutant: the message that fills the buffer is dropped by the flush.      *)
PushDropsFilling(m) ==
  IF IsFull(Append(buffer, m))
    THEN buffer' = <<>> /\ savers' = Append(savers, NewSaver(buffer))
    ELSE buffer' = Append(buffer, m) /\ UNCHANGED savers

Push(m) ==
  LET b == Append(buffer, m)
  IN  \/ /\ ~IsFull(b)
         /\ buffer' = b
         /\ UNCHANGED savers
      \/ /\ IsFull(b)
         /\ buffer' = <<>>
         /\ savers' = Append(savers, NewSaver(b))

(* std::thread's constructor throws after it has moved from buffer_: the   *)
(* messages go down with the thread state that never ran.                  *)
PushSpawnFails(m) ==
  /\ IsFull(Append(buffer, m))
  /\ buffer' = <<>>
  /\ UNCHANGED savers

(***************************************************************************)
(* saveMessages, as run by saver s: open with trunc, then write one        *)
(* message after another at this stream's own position, then return.       *)
(***************************************************************************)
SaverOpen(s) ==
  /\ savers[s].pc = "start"
  /\ files' = [files EXCEPT ![FileName(savers[s].batch)] = EmptyFile]
  /\ savers' = [savers EXCEPT ![s].pc = "open"]
  /\ UNCHANGED buffer

SaverOpenFails(s) ==
  /\ savers[s].pc = "start"
  /\ savers' = [savers EXCEPT ![s].pc = "done"]
  /\ UNCHANGED <<buffer, files>>

(* Mutant: the loop over the batch stops one message early.                *)
HasMoreButOne(s) == savers[s].n + 1 < Len(savers[s].batch)

HasMore(s) == savers[s].n < Len(savers[s].batch)

SaverWrite(s) ==
  LET batch == savers[s].batch
      m == batch[savers[s].n + 1]
      at == savers[s].at
  IN  /\ savers[s].pc = "open" /\ HasMore(s)
      /\ files' = [files EXCEPT ![FileName(batch)] = WrittenOver(@, at, Length[m], m) \cup {<<at, m>>}]
      /\ savers' = [savers EXCEPT ![s].n = @ + 1, ![s].at = @ + Length[m]]
      /\ UNCHANGED buffer

(* The stream goes bad within a message (a full disk): nothing checks, and *)
(* the remaining writes do nothing.                                        *)
SaverWriteFails(s) ==
  LET batch == savers[s].batch
      m == batch[savers[s].n + 1]
  IN  /\ savers[s].pc = "open" /\ HasMore(s)
      /\ \E len \in 0 .. Length[m] - 1 :
           files' = [files EXCEPT ![FileName(batch)] = WrittenOver(@, savers[s].at, len, m)]
      /\ savers' = [savers EXCEPT ![s].pc = "done"]
      /\ UNCHANGED buffer

SaverDone(s) ==
  /\ savers[s].pc = "open" /\ ~HasMore(s)
  /\ savers' = [savers EXCEPT ![s].pc = "done"]
  /\ UNCHANGED <<buffer, files>>

(***************************************************************************)
(* What the consumer still holds, and what can be read back from disk.     *)
(***************************************************************************)
InSavers == UNION {Range(savers[s].batch) : s \in Pending}
Contents(name) == {r[2] : r \in files[name]}
InFiles == UNION {Contents(name) : name \in DOMAIN files}

ConsumerTypeOK ==
  /\ buffer \in Seq(Id)
  /\ savers \in Seq(Saver)
  /\ files \in [Id \X Id -> SUBSET (Nat \X Id)]
=============================================================================
