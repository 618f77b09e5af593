------------------------ MODULE PostgresWriterProofs ------------------------
(***************************************************************************)
(* Proofs about PostgresWriter for any number of workers, any number of    *)
(* faults and every RECONNECT_RETRIES of at least 2.                       *)
(***************************************************************************)
EXTENDS PostgresWriter, TLAPS

(* A statement on a connection that broke earlier always throws            *)
(* broken_connection and takes it one step nearer to a new one; on any     *)
(* other it works unless a fault hits it.                                  *)
LEMMA ExecOutcome ==
  ASSUME NEW c \in Connection, NEW o \in exec(c)
  PROVE  \/ c = "stale" /\ ~o.fault /\ o.throws = "broken_connection" /\ o.connection = "bad"
         \/ c = "bad" /\ ~o.fault /\ o.throws = "broken_connection" /\ o.connection = "null"
         \/ c \in {"good", "null"} /\ ~o.fault /\ o.throws = "nothing" /\ o.connection = "good"
         \/ o.fault /\ o.throws \in {"broken_connection", "sql_error"} /\ o.connection \in Connection \ {"stale"}
<1>1. CASE c = "stale"
  <2>1. o = Outcome("bad", "broken_connection", FALSE, FALSE)
    BY <1>1 DEF exec
  <2> QED
    BY <1>1, <2>1, Zenon DEF Outcome, Connection
<1>2. CASE c = "bad"
  <2>1. o = Outcome("null", "broken_connection", FALSE, FALSE)
    BY <1>2 DEF exec
  <2> QED
    BY <1>2, <2>1, Zenon DEF Outcome, Connection
<1>3. CASE c \in {"good", "null"}
  <2>1. CASE o = Outcome("good", "nothing", TRUE, FALSE)
    BY <1>3, <2>1, Zenon DEF Outcome
  <2>2. ASSUME NEW d \in Connection \ {"stale"}, NEW t \in {"broken_connection", "sql_error"},
               o = Outcome(d, t, FALSE, TRUE)
        PROVE  /\ o.fault /\ o.throws \in {"broken_connection", "sql_error"}
               /\ o.connection \in Connection \ {"stale"}
    BY <2>2, Zenon DEF Outcome
  <2>3. \/ o = Outcome("good", "nothing", TRUE, FALSE)
        \/ o = Outcome("bad", "broken_connection", FALSE, TRUE)
        \/ o = Outcome("null", "broken_connection", FALSE, TRUE)
        \/ o = Outcome("good", "sql_error", FALSE, TRUE)
    BY <1>3 DEF exec
  <2> QED
    BY <2>1, <2>2, <2>3, Zenon DEF Connection
<1> QED
  BY <1>1, <1>2, <1>3 DEF Connection

(* A COMMIT that does not throw has committed; one that throws was hit by  *)
(* a fault or ran on a connection lost since the statement, and then has   *)
(* committed nothing.                                                      *)
LEMMA CommitOutcome ==
  ASSUME NEW c \in Connection, NEW o \in commit(c)
  PROVE  \/ c = "stale" /\ ~o.fault /\ ~o.done /\ o.throws = "in_doubt_error" /\ o.connection = "bad"
         \/ ~o.fault /\ o.done /\ o.throws = "nothing" /\ o.connection = "good"
         \/ o.fault /\ o.throws \in {"in_doubt_error", "sql_error"} /\ o.connection \in {"good", "bad"}
<1>1. CASE c = "stale"
  <2>1. o = Outcome("bad", "in_doubt_error", FALSE, FALSE)
    BY <1>1 DEF commit
  <2> QED
    BY <1>1, <2>1, Zenon DEF Outcome
<1>2. CASE c # "stale"
  <2>1. CASE o = Outcome("good", "nothing", TRUE, FALSE)
    BY <2>1, Zenon DEF Outcome
  <2>2. CASE o = Outcome("good", "sql_error", FALSE, TRUE)
    BY <2>2, Zenon DEF Outcome
  <2>3. ASSUME NEW d \in BOOLEAN, o = Outcome("bad", "in_doubt_error", d, TRUE)
        PROVE  o.fault /\ o.throws = "in_doubt_error" /\ o.connection = "bad"
    BY <2>3, Zenon DEF Outcome
  <2> QED
    BY <1>2, <2>1, <2>2, <2>3 DEF commit
<1> QED
  BY <1>1, <1>2
-----------------------------------------------------------------------------

(* A call in progress has inserted nothing yet: the row becomes visible in *)
(* the step that ends the call.                                            *)
NothingYet == \A t \in Thread : pc[t] # "idle" => copies[t] = 0

(* A call that must hide the loss of its connection has a retry for every  *)
(* exception that libpqxx still throws on account of it, and commits on a  *)
(* connection that works.                                                  *)
EnoughRetries ==
  \A t \in Thread : masked[t] /\ pc[t] # "idle" =>
    /\ connections[t] = "stale" => retriesLeft[t] >= 2
    /\ connections[t] = "bad" => retriesLeft[t] >= 1
    /\ pc[t] = "commit" => connections[t] = "good"

Inv == TypeOK /\ NothingYet /\ EnoughRetries /\ LossMasked

(* Before the first call nothing is promised.                              *)
LEMMA InitInv == Init => Inv
BY RetriesAssumption, MaxFaultsAssumption, ThreadAssumption
DEF Init, Inv, TypeOK, NothingYet, EnoughRetries, LossMasked, Error, Pc

(* Every step keeps the invariant.                                         *)
LEMMA NextInv == Inv /\ [Next]_vars => Inv'
<1> SUFFICES ASSUME Inv, [Next]_vars PROVE Inv'
  OBVIOUS
<1> USE RetriesAssumption, MaxFaultsAssumption, ThreadAssumption
    DEF Inv, TypeOK, NothingYet, EnoughRetries, LossMasked, Error, Pc
<1>1. ASSUME NEW t \in Thread, Write(t) PROVE Inv'
  BY <1>1 DEF Write, Retries, Goto
<1>2. ASSUME NEW t \in Thread, Find(t) PROVE Inv'
  BY <1>2 DEF Find, Goto
<1>3. ASSUME NEW t \in Thread, Lock(t) PROVE Inv'
  BY <1>3 DEF Lock, Goto
<1>4. ASSUME NEW t \in Thread, Connect(t) PROVE Inv'
  BY <1>4 DEF Connect, Goto, Becomes, Unlock, Connection
<1>5. ASSUME NEW t \in Thread, ConnectFails(t) PROVE Inv'
  BY <1>5 DEF ConnectFails, Goto, Hit, Fault, Unlock, BrokenConnection, Return
<1>6. ASSUME NEW t \in Thread, Insert(t) PROVE Inv'
  <2>1. connections[t] \in Connection
    BY <1>6 DEF Insert
  <2>2. PICK o \in exec(connections[t]) :
          /\ Ran(t, o)
          /\ \/ /\ o.throws = "nothing"
                /\ Goto(t, "commit")
                /\ UNCHANGED <<retriesLeft, result>>
             \/ o.throws = "broken_connection" /\ BrokenConnection(t)
             \/ o.throws = "sql_error" /\ Return(t, "GENERIC")
    BY <1>6 DEF Insert
  <2>3. pc[t] = "begin" /\ UNCHANGED <<copies, mutex>>
    BY <1>6, <2>2 DEF Insert, Ran
  <2>4. CASE o.fault
    <3>1. Hit(t)
      BY <2>2, <2>4 DEF Ran
    <3>2. o.connection \in Connection
      BY <2>1, <2>4, ExecOutcome DEF Connection
    <3>3. connections' = [connections EXCEPT ![t] = o.connection]
      BY <2>2 DEF Ran, Becomes
    <3>4. CASE o.throws = "broken_connection" /\ BrokenConnection(t)
      BY <2>3, <3>1, <3>2, <3>3, <3>4 DEF Hit, Fault, BrokenConnection, Return, Goto, Connection
    <3>5. CASE o.throws = "sql_error" /\ Return(t, "GENERIC")
      BY <2>3, <3>1, <3>2, <3>3, <3>5 DEF Hit, Fault, Return, Goto, Connection
    <3> QED
      BY <2>1, <2>2, <2>4, <3>4, <3>5, ExecOutcome
  <2>5. CASE ~o.fault
    <3>1. UNCHANGED <<masked, faults>>
      BY <2>2, <2>5 DEF Ran
    <3>2. connections' = [connections EXCEPT ![t] = o.connection]
      BY <2>2 DEF Ran, Becomes
    <3>3. CASE o.throws = "nothing" /\ o.connection = "good"
      BY <2>2, <2>3, <3>1, <3>2, <3>3 DEF Goto, Connection
    <3>4. CASE o.throws = "broken_connection" /\ connections[t] = "stale" /\ o.connection = "bad"
      BY <2>2, <2>3, <3>1, <3>2, <3>4 DEF Goto, Connection, BrokenConnection, Return
    <3>5. CASE o.throws = "broken_connection" /\ connections[t] = "bad" /\ o.connection = "null"
      BY <2>2, <2>3, <3>1, <3>2, <3>5 DEF Goto, Connection, BrokenConnection, Return
    <3> QED
      BY <2>1, <2>5, <3>3, <3>4, <3>5, ExecOutcome
  <2> QED
    BY <2>4, <2>5
<1>7. ASSUME NEW t \in Thread, Commit(t) PROVE Inv'
  <2>1. connections[t] \in Connection
    BY <1>7 DEF Commit
  <2>2. PICK o \in commit(connections[t]) :
          /\ Ran(t, o)
          /\ copies' = IF o.done THEN [copies EXCEPT ![t] = @ + 1] ELSE copies
          /\ \/ o.throws = "nothing" /\ Return(t, "OK")
             \/ o.throws # "nothing" /\ InDoubt(t)
    BY <1>7 DEF Commit
  <2>3. pc[t] = "commit" /\ UNCHANGED mutex
    BY <1>7, <2>2 DEF Commit, Ran
  <2>4. copies' \in [Thread -> 0 .. 1] /\ (\A u \in Thread \ {t} : copies'[u] = copies[u])
    BY <2>2, <2>3
  <2>5. /\ connections' = [connections EXCEPT ![t] = o.connection]
        /\ o.connection \in Connection
    BY <2>1, <2>2, CommitOutcome DEF Ran, Becomes, Connection
  <2>6. CASE o.fault
    <3>1. Hit(t)
      BY <2>2, <2>6 DEF Ran
    <3> QED
      BY <2>2, <2>3, <2>4, <2>5, <3>1 DEF Hit, Fault, Return, InDoubt, Goto
  <2>7. CASE ~o.fault
    <3>1. UNCHANGED <<masked, faults>>
      BY <2>2, <2>7 DEF Ran
    <3>2. CASE o.throws = "nothing" /\ o.done
      <4>1. copies'[t] = 1
        BY <2>2, <2>3, <3>2
      <4> QED
        BY <2>2, <2>3, <2>4, <2>5, <3>1, <3>2, <4>1 DEF Return, Goto
    <3>3. CASE connections[t] = "stale"
      BY <2>2, <2>3, <2>4, <2>5, <3>1, <3>3 DEF Return, InDoubt, Goto
    <3> QED
      BY <2>1, <2>7, <3>2, <3>3, CommitOutcome
  <2> QED
    BY <2>6, <2>7
<1>8. ASSUME NEW t \in Thread, Drop(t) PROVE Inv'
  <2>1. masked' \in [Thread -> BOOLEAN]
    BY <1>8, Zenon DEF Drop
  <2>2. \A u \in Thread : masked'[u] => masked[u]
    BY <1>8, Zenon DEF Drop
  <2>3. masked'[t] => pc[t] # "commit" /\ retriesLeft[t] = RECONNECT_RETRIES
    BY <1>8, Zenon DEF Drop
  <2>4. /\ connections' = [connections EXCEPT ![t] = "stale"]
        /\ faults' \in 0 .. MaxFaults
        /\ UNCHANGED <<mutex, pc, retriesLeft, result, copies>>
    BY <1>8 DEF Drop, Becomes, Fault
  <2>5. connections[t] = "good"
    BY <1>8 DEF Drop
  <2> QED
    BY <2>1, <2>2, <2>3, <2>4, <2>5 DEF Connection
<1>9. CASE UNCHANGED vars
  BY <1>9 DEF vars
<1> QED
  BY <1>1, <1>2, <1>3, <1>4, <1>5, <1>6, <1>7, <1>8, <1>9 DEF Next, Step

(* The invariant holds in every reachable state.                           *)
THEOREM InvHolds == Spec => []Inv
BY InitInv, NextInv, PTL DEF Spec

(* Every variable keeps its type, a thread in a transaction has a          *)
(* connection, and mutex_ is held exactly while findConnection() makes     *)
(* one, whether that works or throws.                                      *)
THEOREM TypeCorrect == Spec => []TypeOK
<1>1. Inv => TypeOK
  BY DEF Inv
<1> QED
  BY InvHolds, <1>1, PTL

(* A connection that broke while its thread was idle costs the caller of   *)
(* write() nothing, for every RECONNECT_RETRIES of at least 2: the row is  *)
(* inserted exactly once and the call returns OK.                          *)
THEOREM LossIsMasked == Spec => []LossMasked
<1>1. Inv => LossMasked
  BY DEF Inv
<1> QED
  BY InvHolds, <1>1, PTL

(* The first state is one of the abstract writer.                          *)
LEMMA InitRefines == Init => Writer!Init
BY DEF Init, Writer!Init, Error

(* A record of PostgresPromise, by its fields.                             *)
LEMMA Promised ==
  ASSUME NEW e \in Error, NEW n \in 0 .. 1,
         e = "OK" => n = 1, e = "STORAGE_UNAVAILABLE" => n = 0
  PROVE  \E p \in PostgresPromise : p.error = e /\ p.copies = n
<1> DEFINE p == [error |-> e, copies |-> n]
<1>1. p \in PostgresPromise
  BY DEF PostgresPromise
<1> QED
  BY <1>1

(* A step that ends thread t's call with a promised result and number of   *)
(* rows is a Return of the abstract writer.                                *)
LEMMA ReturnRefines ==
  ASSUME TypeOK, NothingYet, NEW t \in Thread, pc[t] # "idle",
         NEW e \in Error, Return(t, e), NEW n \in 0 .. 1,
         copies' = [copies EXCEPT ![t] = n],
         e = "OK" => n = 1, e = "STORAGE_UNAVAILABLE" => n = 0
  PROVE  Writer!Return(t)
<1>1. copies[t] = 0
  BY DEF NothingYet
<1>2. PICK p \in PostgresPromise : p.error = e /\ p.copies = n
  BY Promised
<1>3. {u \in Thread : pc'[u] # "idle"} = {u \in Thread : pc[u] # "idle"} \ {t}
  BY DEF Return, Goto, TypeOK
<1>4. p.copies \in {copies[t], copies[t] + 1}
  BY <1>1, <1>2
<1>5. copies' = [copies EXCEPT ![t] = p.copies] /\ result' = [result EXCEPT ![t] = p.error]
  BY <1>2 DEF Return
<1> QED
  BY <1>3, <1>4, <1>5, Zenon DEF Writer!Return

(* A step inside a call that leaves result and rows alone is a stutter.    *)
LEMMA ContinueRefines ==
  ASSUME TypeOK, NEW t \in Thread, NEW label \in Pc \ {"idle"}, pc[t] # "idle",
         Goto(t, label), UNCHANGED <<copies, result>>
  PROVE  UNCHANGED Writer!vars
<1>1. {u \in Thread : pc'[u] # "idle"} = {u \in Thread : pc[u] # "idle"}
  BY DEF Goto, TypeOK
<1> QED
  BY <1>1 DEF Writer!vars

(* An attempt that met a broken connection goes on or returns, and either  *)
(* way the abstract writer allows it.                                      *)
LEMMA BrokenConnectionRefines ==
  ASSUME TypeOK, NothingYet, NEW t \in Thread, pc[t] # "idle",
         BrokenConnection(t), UNCHANGED copies
  PROVE  Writer!Return(t) \/ UNCHANGED Writer!vars
<1>1. CASE Goto(t, "find") /\ UNCHANGED result
  BY <1>1, ContinueRefines DEF Pc
<1>2. CASE Return(t, "STORAGE_UNAVAILABLE")
  <2>1. copies' = [copies EXCEPT ![t] = 0]
    BY DEF TypeOK, NothingYet
  <2>2. "STORAGE_UNAVAILABLE" \in Error /\ 0 \in 0 .. 1 /\ "STORAGE_UNAVAILABLE" # "OK"
    BY DEF Error
  <2> QED
    BY <1>2, <2>1, <2>2, ReturnRefines
<1> QED
  BY <1>1, <1>2 DEF BrokenConnection

(* Every step is one of the abstract writer, or none.                      *)
LEMMA NextRefines == Inv /\ [Next]_vars => [Writer!Next]_(Writer!vars)
<1> SUFFICES ASSUME Inv, [Next]_vars PROVE Writer!Next \/ UNCHANGED Writer!vars
  OBVIOUS
<1> USE DEF Inv
<1>1. ASSUME NEW t \in Thread, Write(t) PROVE Writer!Call(t)
  <2>1. {u \in Thread : pc'[u] # "idle"} = {u \in Thread : pc[u] # "idle"} \cup {t}
    BY <1>1 DEF Write, Goto, TypeOK
  <2> QED
    BY <1>1, <2>1 DEF Write, Writer!Call
<1>2. ASSUME NEW t \in Thread, Find(t) \/ Lock(t) \/ Connect(t) PROVE UNCHANGED Writer!vars
  BY <1>2, ContinueRefines DEF Find, Lock, Connect, Pc
<1>3. ASSUME NEW t \in Thread, ConnectFails(t) PROVE Writer!Return(t) \/ UNCHANGED Writer!vars
  BY <1>3, BrokenConnectionRefines DEF ConnectFails
<1>4. ASSUME NEW t \in Thread, Insert(t) PROVE Writer!Return(t) \/ UNCHANGED Writer!vars
  <2>1. pc[t] # "idle" /\ UNCHANGED copies
    BY <1>4 DEF Insert
  <2>2. \/ Goto(t, "commit") /\ UNCHANGED result
        \/ BrokenConnection(t)
        \/ Return(t, "GENERIC")
    BY <1>4 DEF Insert
  <2>3. copies' = [copies EXCEPT ![t] = 0]
    BY <2>1 DEF TypeOK, NothingYet
  <2>4. "GENERIC" \in Error /\ 0 \in 0 .. 1 /\ "GENERIC" \notin {"OK", "STORAGE_UNAVAILABLE"}
    BY DEF Error
  <2>5. Return(t, "GENERIC") => Writer!Return(t)
    BY <2>1, <2>3, <2>4, ReturnRefines
  <2>6. Goto(t, "commit") /\ UNCHANGED result => UNCHANGED Writer!vars
    BY <2>1, ContinueRefines DEF Pc
  <2> QED
    BY <2>1, <2>2, <2>5, <2>6, BrokenConnectionRefines
<1>5. ASSUME NEW t \in Thread, Commit(t) PROVE Writer!Return(t)
  <2>1. connections[t] \in Connection /\ pc[t] # "idle"
    BY <1>5 DEF Commit, TypeOK
  <2>2. PICK o \in commit(connections[t]) :
          /\ copies' = IF o.done THEN [copies EXCEPT ![t] = @ + 1] ELSE copies
          /\ \/ o.throws = "nothing" /\ Return(t, "OK")
             \/ o.throws # "nothing" /\ InDoubt(t)
    BY <1>5 DEF Commit
  <2>3. copies[t] = 0 /\ copies = [copies EXCEPT ![t] = 0]
    BY <2>1 DEF TypeOK, NothingYet
  <2>4. \E n \in 0 .. 1 : copies' = [copies EXCEPT ![t] = n] /\ (o.done => n = 1)
    BY <2>2, <2>3
  <2>5. o.throws = "nothing" => o.done
    BY <2>1, CommitOutcome
  <2> QED
    BY <2>1, <2>2, <2>4, <2>5, ReturnRefines DEF InDoubt, Error
<1>6. ASSUME NEW t \in Thread, Drop(t) PROVE UNCHANGED Writer!vars
  BY <1>6 DEF Drop, Writer!vars
<1>7. CASE UNCHANGED vars
  BY <1>7 DEF vars, Writer!vars
<1> QED
  BY <1>1, <1>2, <1>3, <1>4, <1>5, <1>6, <1>7 DEF Next, Step, Writer!Next

(* write() keeps its promise to UniversalHandler: OK means exactly one row *)
(* and STORAGE_UNAVAILABLE none, whatever the connections do and however   *)
(* the workers interleave.                                                 *)
THEOREM PostgresWriterRefines == Spec => WriterSpec
<1>1. Inv /\ [Next]_vars => [Writer!Next]_(Writer!vars)
  BY NextRefines
<1> QED
  BY InitRefines, InvHolds, <1>1, PTL DEF Spec, WriterSpec, Writer!Spec
=============================================================================
