-------------------------- MODULE PostgresProducer --------------------------
(***************************************************************************)
(* gwback's PostgresProducer: getNext() and markConsumed() statement by    *)
(* statement on the one connection_, which starts unset, is made by the    *)
(* first call that can, and is kept whatever happens to it.  Nothing is    *)
(* retried: what throws reaches the run loop, which pauses and goes on     *)
(* with a getNext().                                                       *)
(***************************************************************************)
EXTENDS Chunking, Pqxx

CONSTANTS
  Id,        \* the ids of the rows
  MaxFaults  \* how many faults happen

ASSUME IdAssumption == Id \subseteq Nat
ASSUME MaxFaultsAssumption == MaxFaults \in Nat

VARIABLES
  table,        \* the ids of the committed rows
  used,         \* all ids ever committed
  connection,   \* connection_, or "none"
  pc,           \* where the call is
  call,         \* the call in progress, or "none"
  messages,     \* the chunk of the last getNext()
  result,       \* how the last call ended
  throws,       \* history: how many calls have thrown since the last fault
  faults        \* how many faults have happened

vars == <<table, used, connection, pc, call, messages, result, throws, faults>>

Init ==
  /\ table = {} /\ used = {}
  /\ connection = "none"
  /\ pc = "idle" /\ call = "none"
  /\ messages = <<>>
  /\ result = "none"
  /\ throws = 0 /\ faults = 0

Fault == faults < MaxFaults /\ faults' = faults + 1

(* gwfront commits a row; BIGSERIAL ids become visible in any order.       *)
Produce ==
  /\ \E m \in Id \ used : table' = table \cup {m} /\ used' = used \cup {m}
  /\ UNCHANGED <<connection, pc, call, messages, result, throws, faults>>

(* Mutant: the first call does not connect.                                *)
NeverConnects == "exec"

(* getConnection: is there one                                             *)
Connects == IF connection = "none" THEN "connect" ELSE "exec"

Call ==
  /\ call = "none"
  /\ call' = IF messages = <<>> THEN "getNext" ELSE "markConsumed"
  /\ pc' = Connects
  /\ UNCHANGED <<table, used, connection, messages, result, throws, faults>>

ConsumerThrows ==
  /\ call = "none" /\ messages # <<>>
  /\ Fault
  /\ messages' = <<>>
  /\ UNCHANGED <<table, used, connection, pc, call, result, throws>>

Continue(label) == pc' = label /\ UNCHANGED <<call, messages, result>>
Return(chunk) == pc' = "idle" /\ call' = "none" /\ messages' = chunk /\ result' = "returned"
Throw == pc' = "idle" /\ call' = "none" /\ messages' = <<>> /\ result' = "threw"

Connect ==
  /\ pc = "connect"
  /\ connection' = "good"
  /\ Continue("exec")
  /\ UNCHANGED <<table, used, throws, faults>>

ConnectFails ==
  /\ pc = "connect"
  /\ Fault
  /\ Throw
  /\ throws' = 1
  /\ UNCHANGED <<table, used, connection>>

(* Mutant: libpqxx is told not to connect again.                           *)
KeptInhibited(o) == IF o.connection = "null" THEN "bad" ELSE o.connection

(* connection_ is neither reset nor closed after an exception.             *)
Kept(o) == o.connection

(* A statement ended as o says; throws starts again with every fault.      *)
Ran(o) ==
  /\ connection' = Kept(o)
  /\ \/ o.fault /\ Fault
     \/ ~o.fault /\ UNCHANGED faults
  /\ throws' = IF o.throws = "nothing" THEN throws ELSE IF o.fault THEN 1 ELSE throws + 1

(* The SELECT; its transaction is rolled back, having changed nothing.     *)
Select ==
  /\ pc = "exec" /\ call = "getNext"
  /\ \E o \in exec(connection) :
       /\ Ran(o)
       /\ \/ o.throws # "nothing" /\ Throw
          \/ o.throws = "nothing" /\ \E c \in Chunks(table) : Return(c)
  /\ UNCHANGED <<table, used>>

(* Mutant: the loop alone, without messages.back().                        *)
DeletedButLast == {messages[i] : i \in 1 .. Len(messages) - 1}

(* The ids in the IN list of the DELETE.                                   *)
Deleted == {messages[i] : i \in 1 .. Len(messages) - 1} \cup {messages[Len(messages)]}

Delete ==
  /\ pc = "exec" /\ call = "markConsumed"
  /\ \E o \in exec(connection) :
       /\ Ran(o)
       /\ \/ o.throws # "nothing" /\ Throw
          \/ o.throws = "nothing" /\ Continue("commit")
  /\ UNCHANGED <<table, used>>

(* Mutant: no commit(); the transaction is rolled back by its destructor.  *)
NoCommit == UNCHANGED table

CommitDelete == table' = table \ Deleted

Commit ==
  /\ pc = "commit"
  /\ \E o \in commit(connection) :
       /\ Ran(o)
       /\ \/ o.done /\ CommitDelete
          \/ ~o.done /\ UNCHANGED table
       /\ \/ o.throws # "nothing" /\ Throw
          \/ o.throws = "nothing" /\ Return(<<>>)
  /\ UNCHANGED used

(* The server or the network closes the connection between two statements. *)
Drop ==
  /\ connection = "good"
  /\ Fault
  /\ connection' = "stale" /\ throws' = 0
  /\ UNCHANGED <<table, used, pc, call, messages, result>>

Step == Connect \/ ConnectFails \/ Select \/ Delete \/ Commit

Next == Produce \/ Call \/ ConsumerThrows \/ Step \/ Drop

Spec == Init /\ [][Next]_vars

(* The run loop goes on after every call.                                  *)
FairSpec == Spec /\ WF_vars(Call \/ Step)
-----------------------------------------------------------------------------
(* Every variable has its type; a statement runs on a connection that was  *)
(* made, and markConsumed() has at least one id for its list, the loop     *)
(* over size() - 1 of which would run wild without.                        *)
TypeOK ==
  /\ table \subseteq used /\ used \subseteq Id
  /\ connection \in Connection \cup {"none"}
  /\ pc \in {"idle", "connect", "exec", "commit"}
  /\ pc \in {"exec", "commit"} => connection # "none"
  /\ call \in {"none", "getNext", "markConsumed"} /\ (call = "none" <=> pc = "idle")
  /\ messages \in Seq(Id) /\ Len(messages) <= ProducerChunk
  /\ call = "markConsumed" <=> call # "none" /\ messages # <<>>
  /\ result \in {"none", "returned", "threw"}
  /\ throws \in Nat /\ faults \in 0 .. MaxFaults

(* However a connection was lost, the producer that never retries throws   *)
(* at most twice on account of it: libpqxx has then dropped the handle and *)
(* the call after that is carried out on a new one.                        *)
TwoThrows == throws <= 2

(* The producer keeps its promise to the run loop: a chunk is the smallest *)
(* ids, and a markConsumed() that throws deletes all of it or nothing.     *)
Abstract == INSTANCE Producer WITH Message <- Id, stored <- table, chunk <- messages
ProducerSpec == Abstract!Spec

(* Once the faults end, every row is fetched and deleted; no loss of the   *)
(* connection leaves the producer stuck.                                   *)
Drained == \A m \in Id : m \in table ~> m \notin table
=============================================================================
