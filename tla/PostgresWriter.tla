--------------------------- MODULE PostgresWriter ---------------------------
(***************************************************************************)
(* gwfront's PostgresWriter: write() with its retries, and findConnection, *)
(* which opens a thread's connection while it holds mutex_ exclusively.    *)
(***************************************************************************)
EXTENDS Naturals, Pqxx

CONSTANTS
  Thread,            \* the workers of the HttpServer
  RECONNECT_RETRIES, \* 2 in the code
  MaxFaults          \* how many faults of connection or server happen

NoThread == "no thread"

ASSUME ThreadAssumption == NoThread \notin Thread
ASSUME RetriesAssumption == RECONNECT_RETRIES \in Nat /\ RECONNECT_RETRIES >= 2
ASSUME MaxFaultsAssumption == MaxFaults \in Nat

VARIABLES
  connections,  \* connections_: the connection of each thread, or "none"
  mutex,        \* the thread that holds mutex_ exclusively, or NoThread
  pc,           \* where each thread is in write()
  retriesLeft,
  result,       \* the error of each thread's last call
  copies,       \* history: rows that each thread's last call inserted
  masked,       \* history: the call must not notice any fault so far
  faults        \* how many faults have happened

vars == <<connections, mutex, pc, retriesLeft, result, copies, masked, faults>>

Error == {"OK", "GENERIC", "STORAGE_UNAVAILABLE"}
Pc == {"idle", "find", "lock", "connect", "begin", "commit"}

Fault == faults < MaxFaults /\ faults' = faults + 1
(* A fault that thread t's call cannot hide.                               *)
Hit(t) == Fault /\ masked' = [masked EXCEPT ![t] = FALSE]
Goto(t, label) == pc' = [pc EXCEPT ![t] = label]
Becomes(t, state) == connections' = [connections EXCEPT ![t] = state]
Return(t, error) ==
  /\ Goto(t, "idle")
  /\ result' = [result EXCEPT ![t] = error]
  /\ UNCHANGED retriesLeft

Init ==
  /\ connections = [t \in Thread |-> "none"]
  /\ mutex = NoThread
  /\ pc = [t \in Thread |-> "idle"]
  /\ retriesLeft = [t \in Thread |-> RECONNECT_RETRIES]
  /\ result = [t \in Thread |-> "OK"]
  /\ copies = [t \in Thread |-> 0]
  /\ masked = [t \in Thread |-> FALSE]
  /\ faults = 0

(* Mutant: one retry fewer.                                                *)
OneRetry == 1

Retries == RECONNECT_RETRIES

Write(t) ==
  /\ pc[t] = "idle"
  /\ Goto(t, "find")
  /\ retriesLeft' = [retriesLeft EXCEPT ![t] = Retries]
  /\ copies' = [copies EXCEPT ![t] = 0]
  /\ masked' = [masked EXCEPT ![t] = TRUE]
  /\ UNCHANGED <<connections, mutex, result, faults>>

(* Mutant: the last retry is not noticed.                                  *)
BrokenConnectionUnderflow(t) ==
  /\ retriesLeft' = [retriesLeft EXCEPT ![t] = @ - 1]
  /\ Goto(t, "find")
  /\ UNCHANGED result

(* catch (const pqxx::broken_connection&)                                  *)
BrokenConnection(t) ==
  \/ /\ retriesLeft[t] # 0
     /\ retriesLeft' = [retriesLeft EXCEPT ![t] = @ - 1]
     /\ Goto(t, "find")
     /\ UNCHANGED result
  \/ /\ retriesLeft[t] = 0
     /\ Return(t, "STORAGE_UNAVAILABLE")

(***************************************************************************)
(* findConnection: the search under the shared lock, then the exclusive    *)
(* lock, held while the connection is made and released by an exception.   *)
(***************************************************************************)
Find(t) ==
  /\ pc[t] = "find"
  /\ mutex = NoThread
  /\ Goto(t, IF connections[t] = "none" THEN "lock" ELSE "begin")
  /\ UNCHANGED <<connections, mutex, retriesLeft, result, copies, masked, faults>>

(* Mutant: the lock stays taken.                                           *)
StayLocked == UNCHANGED mutex

Unlock == mutex' = NoThread

Lock(t) ==
  /\ pc[t] = "lock"
  /\ mutex = NoThread
  /\ mutex' = t
  /\ Goto(t, "connect")
  /\ UNCHANGED <<connections, retriesLeft, result, copies, masked, faults>>

Connect(t) ==
  /\ pc[t] = "connect"
  /\ Becomes(t, "good")
  /\ Unlock
  /\ Goto(t, "begin")
  /\ UNCHANGED <<retriesLeft, result, copies, masked, faults>>

ConnectFails(t) ==
  /\ pc[t] = "connect"
  /\ Hit(t)
  /\ Unlock
  /\ BrokenConnection(t)
  /\ UNCHANGED <<connections, copies>>

(***************************************************************************)
(* The transaction: pqxx::work and exec_params ("begin"), then commit.     *)
(***************************************************************************)
Ran(t, o) ==
  /\ Becomes(t, o.connection)
  /\ \/ o.fault /\ Hit(t)
     \/ ~o.fault /\ UNCHANGED <<masked, faults>>
  /\ UNCHANGED mutex

Insert(t) ==
  /\ pc[t] = "begin"
  /\ \E o \in exec(connections[t]) :
       /\ Ran(t, o)
       /\ \/ /\ o.throws = "nothing"
             /\ Goto(t, "commit")
             /\ UNCHANGED <<retriesLeft, result>>
          \/ o.throws = "broken_connection" /\ BrokenConnection(t)
          \/ o.throws = "sql_error" /\ Return(t, "GENERIC")
  /\ UNCHANGED copies

(* Mutant: a connection lost under the COMMIT is retried like any other.   *)
InDoubtRetried(t) == BrokenConnection(t)

(* catch (const std::exception&)                                           *)
InDoubt(t) == Return(t, "GENERIC")

Commit(t) ==
  /\ pc[t] = "commit"
  /\ \E o \in commit(connections[t]) :
       /\ Ran(t, o)
       /\ copies' = IF o.done THEN [copies EXCEPT ![t] = @ + 1] ELSE copies
       /\ \/ o.throws = "nothing" /\ Return(t, "OK")
          \/ o.throws # "nothing" /\ InDoubt(t)

(* The server or the network closes an idle connection.  A call that has   *)
(* used up a retry or sent its INSERT may not be able to hide it.          *)
Drop(t) ==
  /\ connections[t] = "good"
  /\ Fault
  /\ Becomes(t, "stale")
  /\ masked' = [masked EXCEPT ![t] = @ /\ pc[t] # "commit" /\ retriesLeft[t] = RECONNECT_RETRIES]
  /\ UNCHANGED <<mutex, pc, retriesLeft, result, copies>>

Step(t) ==
  \/ Find(t) \/ Lock(t) \/ Connect(t) \/ ConnectFails(t)
  \/ Insert(t) \/ Commit(t)

Next == \E t \in Thread : Write(t) \/ Step(t) \/ Drop(t)

Spec == Init /\ [][Next]_vars

(* Every worker inside write() runs as long as it is not blocked on mutex_. *)
FairSpec == Spec /\ \A t \in Thread : WF_vars(Step(t))
-----------------------------------------------------------------------------
(* Every variable has its type; a thread in a transaction has a connection *)
(* and mutex_ is held exactly while a connection is being made.            *)
TypeOK ==
  /\ connections \in [Thread -> Connection \cup {"none"}]
  /\ mutex \in Thread \cup {NoThread}
  /\ pc \in [Thread -> Pc]
  /\ retriesLeft \in [Thread -> 0 .. RECONNECT_RETRIES]
  /\ result \in [Thread -> Error]
  /\ copies \in [Thread -> 0 .. 1]
  /\ masked \in [Thread -> BOOLEAN]
  /\ faults \in 0 .. MaxFaults
  /\ \A t \in Thread :
       /\ pc[t] \in {"begin", "commit"} => connections[t] # "none"
       /\ pc[t] \in {"lock", "connect"} => connections[t] = "none"
       /\ pc[t] = "connect" <=> mutex = t

(* A connection that broke while its thread was idle, however long ago and *)
(* however far libpqxx is with noticing, costs the caller nothing: within  *)
(* RECONNECT_RETRIES the row is inserted, exactly once.                    *)
LossMasked ==
  \A t \in Thread : pc[t] = "idle" /\ masked[t] => result[t] = "OK" /\ copies[t] = 1

(* What write() promises: OK means exactly one row and STORAGE_UNAVAILABLE *)
(* none, however many attempts were made; a GENERIC error leaves in doubt  *)
(* whether the row is there.                                               *)
PostgresPromise ==
  {p \in [error : Error, copies : 0 .. 1] :
     /\ p.error = "OK" => p.copies = 1
     /\ p.error = "STORAGE_UNAVAILABLE" => p.copies = 0}

Writer == INSTANCE StorageWriter WITH
  Promise <- PostgresPromise, busy <- {t \in Thread : pc[t] # "idle"}, error <- result
WriterSpec == Writer!Spec

(* Every call of write() returns, although each new connection is made     *)
(* with mutex_ held and all other calls wait for it.                       *)
WriteReturns == \A t \in Thread : pc[t] = "find" ~> pc[t] = "idle"
=============================================================================
