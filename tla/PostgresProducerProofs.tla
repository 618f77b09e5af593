----------------------- MODULE PostgresProducerProofs -----------------------
(***************************************************************************)
(* Proofs about PostgresProducer for every set of ids, every chunk size    *)
(* and any number of faults.                                               *)
(***************************************************************************)
EXTENDS PostgresProducer, TLAPS

(* A statement on a connection that broke earlier always throws            *)
(* broken_connection and takes it one step nearer to a new one; on any     *)
(* other it works unless a fault hits it.                                  *)
LEMMA ExecOutcome ==
  ASSUME NEW c \in Connection, NEW o \in exec(c)
  PROVE  \/ c = "stale" /\ ~o.fault /\ o.throws = "broken_connection" /\ o.connection = "bad"
         \/ c = "bad" /\ ~o.fault /\ o.throws = "broken_connection" /\ o.connection = "null"
         \/ c \in {"good", "null"} /\ ~o.fault /\ o.throws = "nothing" /\ o.connection = "good"
         \/ o.fault /\ o.throws \in {"broken_connection", "sql_error"} /\ o.connection \in Connection \ {"stale"}
<1>1. CASE c = "stale"
  <2>1. o = Outcome("bad", "broken_connection", FALSE, FALSE)
    BY <1>1 DEF exec
  <2> QED
    BY <1>1, <2>1, Zenon DEF Outcome, Connection
<1>2. CASE c = "bad"
  <2>1. o = Outcome("null", "broken_connection", FALSE, FALSE)
    BY <1>2 DEF exec
  <2> QED
    BY <1>2, <2>1, Zenon DEF Outcome, Connection
<1>3. CASE c \in {"good", "null"}
  <2>1. CASE o = Outcome("good", "nothing", TRUE, FALSE)
    BY <1>3, <2>1, Zenon DEF Outcome
  <2>2. ASSUME NEW d \in Connection \ {"stale"}, NEW t \in {"broken_connection", "sql_error"},
               o = Outcome(d, t, FALSE, TRUE)
        PROVE  /\ o.fault /\ o.throws \in {"broken_connection", "sql_error"}
               /\ o.connection \in Connection \ {"stale"}
    BY <2>2, Zenon DEF Outcome
  <2>3. \/ o = Outcome("good", "nothing", TRUE, FALSE)
        \/ o = Outcome("bad", "broken_connection", FALSE, TRUE)
        \/ o = Outcome("null", "broken_connection", FALSE, TRUE)
        \/ o = Outcome("good", "sql_error", FALSE, TRUE)
    BY <1>3 DEF exec
  <2> QED
    BY <2>1, <2>2, <2>3, Zenon DEF Connection
<1> QED
  BY <1>1, <1>2, <1>3 DEF Connection

(* A COMMIT that does not throw has committed; one that throws was hit by  *)
(* a fault or ran on a connection lost since the statement, and then has   *)
(* committed nothing.                                                      *)
LEMMA CommitOutcome ==
  ASSUME NEW c \in Connection, NEW o \in commit(c)
  PROVE  \/ c = "stale" /\ ~o.fault /\ ~o.done /\ o.throws = "in_doubt_error" /\ o.connection = "bad"
         \/ ~o.fault /\ o.done /\ o.throws = "nothing" /\ o.connection = "good"
         \/ o.fault /\ o.throws \in {"in_doubt_error", "sql_error"} /\ o.connection \in {"good", "bad"}
<1>1. CASE c = "stale"
  <2>1. o = Outcome("bad", "in_doubt_error", FALSE, FALSE)
    BY <1>1 DEF commit
  <2> QED
    BY <1>1, <2>1, Zenon DEF Outcome
<1>2. CASE c # "stale"
  <2>1. CASE o = Outcome("good", "nothing", TRUE, FALSE)
    BY <2>1, Zenon DEF Outcome
  <2>2. CASE o = Outcome("good", "sql_error", FALSE, TRUE)
    BY <2>2, Zenon DEF Outcome
  <2>3. ASSUME NEW d \in BOOLEAN, o = Outcome("bad", "in_doubt_error", d, TRUE)
        PROVE  o.fault /\ o.throws = "in_doubt_error" /\ o.connection = "bad"
    BY <2>3, Zenon DEF Outcome
  <2> QED
    BY <1>2, <2>1, <2>2, <2>3 DEF commit
<1> QED
  BY <1>1, <1>2
-----------------------------------------------------------------------------

(* How often a connection has thrown since it was lost, by what libpqxx    *)
(* has noticed of it: never while it is stale, at most once while it is    *)
(* bad.  Together with TwoThrows this is inductive.                        *)
ThrowsOfState ==
  /\ connection = "stale" => throws = 0
  /\ connection = "bad" => throws <= 1

(* Only markConsumed() commits, and only a producer without connection_    *)
(* makes one.                                                              *)
CallOfPc ==
  /\ pc = "commit" => call = "markConsumed"
  /\ pc = "connect" => connection = "none"

Inv == TypeOK /\ TwoThrows /\ ThrowsOfState /\ CallOfPc

(* A chunk is a sequence of rows of the table, no longer than chunkSize.   *)
LEMMA ChunkType ==
  ASSUME NEW S, NEW c \in Chunks(S)
  PROVE  c \in Seq(S) /\ Len(c) <= ProducerChunk
<1>1. c \in BoundedSeq(S, ProducerChunk)
  BY DEF Chunks
<1>2. PICK n \in 0 .. ProducerChunk : c \in [1 .. n -> S]
  BY <1>1, ProducerChunkAssumption DEF BoundedSeq, SeqOf
<1> QED
  BY <1>2, ProducerChunkAssumption

(* The IN list of the DELETE, a loop over all but the last id and then the *)
(* last one, names the whole chunk.                                        *)
LEMMA DeletedIsChunk ==
  ASSUME messages \in Seq(Id), messages # <<>>
  PROVE  Deleted = Range(messages)
BY DEF Deleted, Range

(* The empty chunk is a chunk.                                             *)
LEMMA EmptyType == <<>> \in Seq(Id) /\ Len(<<>>) <= ProducerChunk
<1>1. <<>> \in Seq(Id) /\ Len(<<>>) = 0
  OBVIOUS
<1> QED
  BY <1>1, ProducerChunkAssumption

(* The first state satisfies the invariant.                                *)
LEMMA InitInv == Init => Inv
<1> SUFFICES ASSUME Init PROVE Inv
  OBVIOUS
<1>1. messages \in Seq(Id) /\ Len(messages) <= ProducerChunk
  BY EmptyType, Zenon DEF Init
<1> QED
  BY <1>1, MaxFaultsAssumption
  DEF Init, Inv, TypeOK, TwoThrows, ThrowsOfState, CallOfPc

(* A statement that ran keeps what the invariant says of connection_, of   *)
(* the exceptions and of the faults.                                       *)
LEMMA RanKeeps ==
  ASSUME Inv, connection # "none", NEW o \in exec(connection) \cup commit(connection), Ran(o)
  PROVE  /\ connection' \in Connection /\ throws' \in Nat /\ faults' \in 0 .. MaxFaults
         /\ TwoThrows' /\ ThrowsOfState'
<1>1. connection \in Connection /\ throws \in Nat /\ throws <= 2
  BY DEF Inv, TypeOK, TwoThrows
<1>2. connection' = o.connection
  BY DEF Ran, Kept
<1>3. faults' \in 0 .. MaxFaults
  BY MaxFaultsAssumption DEF Ran, Fault, Inv, TypeOK
<1>4. \/ connection = "stale" /\ ~o.fault /\ o.throws # "nothing" /\ o.connection = "bad"
      \/ connection = "bad" /\ ~o.fault /\ o.throws # "nothing" /\ o.connection = "null"
      \/ ~o.fault /\ o.throws = "nothing" /\ o.connection = "good"
      \/ o.fault /\ o.throws # "nothing" /\ o.connection \in Connection \ {"stale"}
  <2>1. CASE o \in exec(connection)
    BY <1>1, <2>1, ExecOutcome
  <2>2. CASE o \in commit(connection)
    BY <1>1, <2>2, CommitOutcome DEF Connection
  <2> QED
    BY <2>1, <2>2
<1>5. throws' = IF o.throws = "nothing" THEN throws ELSE IF o.fault THEN 1 ELSE throws + 1
  BY DEF Ran
<1>6. connection = "stale" => throws = 0
  BY DEF Inv, ThrowsOfState
<1>7. connection = "bad" => throws <= 1
  BY DEF Inv, ThrowsOfState
<1> QED
  BY <1>1, <1>2, <1>3, <1>4, <1>5, <1>6, <1>7 DEF TwoThrows, ThrowsOfState, Connection

(* Every step keeps the invariant.                                         *)
LEMMA NextInv == Inv /\ [Next]_vars => Inv'
<1> SUFFICES ASSUME Inv, [Next]_vars PROVE Inv'
  OBVIOUS
<1>0. ASSUME messages' = <<>> PROVE messages' \in Seq(Id) /\ Len(messages') <= ProducerChunk
  BY <1>0, EmptyType, Zenon
<1> USE MaxFaultsAssumption, <1>0
    DEF Inv, TypeOK, TwoThrows, ThrowsOfState, CallOfPc
<1>1. CASE Produce
  BY <1>1 DEF Produce
<1>2. CASE Call
  BY <1>2 DEF Call, Connects
<1>3. CASE ConsumerThrows
  BY <1>3 DEF ConsumerThrows, Fault
<1>4. CASE Connect
  BY <1>4 DEF Connect, Continue, Connection
<1>5. CASE ConnectFails
  <2>1. messages' = <<>> /\ pc' = "idle" /\ call' = "none" /\ result' = "threw" /\ throws' = 1
    BY <1>5 DEF ConnectFails, Throw
  <2>2. faults' \in 0 .. MaxFaults /\ UNCHANGED <<table, used, connection>> /\ connection = "none"
    BY <1>5 DEF ConnectFails, Fault
  <2> QED
    BY <1>0, <2>1, <2>2 DEF Connection
<1>6. CASE Select
  <2>1. PICK o \in exec(connection) :
          /\ Ran(o)
          /\ Throw \/ \E c \in Chunks(table) : Return(c)
    BY <1>6 DEF Select
  <2>2. ASSUME NEW c \in Chunks(table) PROVE c \in Seq(Id) /\ Len(c) <= ProducerChunk
    BY ChunkType
  <2>3. messages' \in Seq(Id) /\ Len(messages') <= ProducerChunk
    BY <1>0, <2>1, <2>2, Zenon DEF Throw, Return
  <2>4. pc' = "idle" /\ call' = "none" /\ result' \in {"returned", "threw"} /\ UNCHANGED <<table, used>>
    BY <1>6, <2>1 DEF Select, Throw, Return
  <2> QED
    BY <1>6, <2>1, <2>3, <2>4, RanKeeps DEF Select
<1>7. CASE Delete
  <2>1. PICK o \in exec(connection) : Ran(o) /\ (Throw \/ Continue("commit"))
    BY <1>7 DEF Delete
  <2>2. CASE Throw
    BY <1>0, <1>7, <2>1, <2>2, RanKeeps DEF Delete, Throw
  <2>3. CASE Continue("commit")
    BY <1>7, <2>1, <2>3, RanKeeps DEF Delete, Continue, Connection
  <2> QED
    BY <2>1, <2>2, <2>3
<1>8. CASE Commit
  <2>1. PICK o \in commit(connection) :
          /\ Ran(o)
          /\ table' = table \ Deleted \/ UNCHANGED table
          /\ Throw \/ Return(<<>>)
    BY <1>8 DEF Commit, CommitDelete
  <2>2. table' \subseteq used' /\ used' = used
    BY <1>8, <2>1 DEF Commit
  <2> QED
    BY <1>8, <2>1, <2>2, RanKeeps DEF Commit, Throw, Return
<1>9. CASE Drop
  BY <1>9 DEF Drop, Fault, Connection
<1>10. CASE UNCHANGED vars
  BY <1>10 DEF vars
<1> QED
  BY <1>1, <1>2, <1>3, <1>4, <1>5, <1>6, <1>7, <1>8, <1>9, <1>10 DEF Next, Step

(* The invariant holds in every reachable state.                           *)
THEOREM InvHolds == Spec => []Inv
BY InitInv, NextInv, PTL DEF Spec

(* Every variable keeps its type; a statement runs on a connection that    *)
(* was made, and markConsumed() never builds its IN list from nothing.     *)
THEOREM TypeCorrect == Spec => []TypeOK
<1>1. Inv => TypeOK
  BY DEF Inv
<1> QED
  BY InvHolds, <1>1, PTL

(* However and whenever a connection is lost, at most two calls throw on   *)
(* account of it, although connection_ is never reset.                     *)
THEOREM AtMostTwoThrows == Spec => []TwoThrows
<1>1. Inv => TwoThrows
  BY DEF Inv
<1> QED
  BY InvHolds, <1>1, PTL

(* The first state is one of the abstract producer.                        *)
LEMMA InitRefines == Init => Abstract!Init
BY DEF Init, Abstract!Init

(* Every step is one of the abstract producer, or none.                    *)
LEMMA NextRefines == Inv /\ [Next]_vars => [Abstract!Next]_(Abstract!vars)
<1> SUFFICES ASSUME Inv, [Next]_vars PROVE Abstract!Next \/ UNCHANGED Abstract!vars
  OBVIOUS
<1> USE DEF Inv, TypeOK, CallOfPc
<1>1. CASE Produce
  BY <1>1 DEF Produce, Abstract!Produce, Abstract!Next
<1>2. CASE Call
  BY <1>2 DEF Call, Abstract!Call, Abstract!Next
<1>3. CASE ConsumerThrows
  BY <1>3 DEF ConsumerThrows, Abstract!Forget, Abstract!Next
<1>4. CASE Connect
  BY <1>4 DEF Connect, Continue, Abstract!vars
<1>5. ASSUME Throw, pc # "idle", UNCHANGED table PROVE Abstract!Throw
  BY <1>5 DEF Throw, Abstract!Throw
<1>6. CASE ConnectFails
  BY <1>5, <1>6 DEF ConnectFails, Abstract!Next
<1>7. CASE Select
  <2>1. CASE \E c \in Chunks(table) : Return(c)
    <3>1. Chunks(table) = Abstract!Chunks(table)
      BY DEF Chunks, BoundedSeq, SeqOf, Range,
             Abstract!Chunks, Abstract!BoundedSeq, Abstract!SeqOf, Abstract!Range
    <3>2. Abstract!GetNext
      BY <1>7, <2>1, <3>1 DEF Select, Return, Abstract!GetNext
    <3> QED
      BY <3>2 DEF Abstract!Next
  <2>2. CASE Throw
    BY <1>5, <1>7, <2>2 DEF Select, Abstract!Next
  <2> QED
    BY <1>7, <2>1, <2>2 DEF Select
<1>8. CASE Delete
  <2>1. CASE Continue("commit")
    BY <1>8, <2>1 DEF Delete, Continue, Abstract!vars
  <2>2. CASE Throw
    BY <1>5, <1>8, <2>2 DEF Delete, Abstract!Next
  <2> QED
    BY <1>8, <2>1, <2>2 DEF Delete
<1>9. CASE Commit
  <2>1. pc = "commit" /\ call = "markConsumed" /\ connection \in Connection
    BY <1>9 DEF Commit
  <2>2. Deleted = Range(messages)
    BY <2>1, DeletedIsChunk
  <2>3. PICK o \in commit(connection) :
          /\ \/ o.done /\ table' = table \ Range(messages)
             \/ ~o.done /\ UNCHANGED table
          /\ \/ o.throws # "nothing" /\ Throw
             \/ o.throws = "nothing" /\ Return(<<>>)
    BY <1>9, <2>2 DEF Commit, CommitDelete
  <2>4. CASE o.throws = "nothing"
    <3>1. o.done
      BY <2>1, <2>4, CommitOutcome
    <3>2. Abstract!MarkConsumed
      BY <2>1, <2>3, <2>4, <3>1 DEF Return, Range, Abstract!MarkConsumed, Abstract!Range
    <3> QED
      BY <3>2 DEF Abstract!Next
  <2>5. CASE o.throws # "nothing"
    <3>1. Abstract!Throw
      BY <2>1, <2>3, <2>5 DEF Throw, Range, Abstract!Throw, Abstract!Range
    <3> QED
      BY <3>1 DEF Abstract!Next
  <2> QED
    BY <2>4, <2>5
<1>10. CASE Drop
  BY <1>10 DEF Drop, Abstract!vars
<1>11. CASE UNCHANGED vars
  BY <1>11 DEF vars, Abstract!vars
<1> QED
  BY <1>1, <1>2, <1>3, <1>4, <1>6, <1>7, <1>8, <1>9, <1>10, <1>11 DEF Next, Step

(* The producer keeps its promise to the run loop: getNext() returns the   *)
(* smallest ids or throws and changes nothing, markConsumed() deletes the  *)
(* chunk, and when it throws it has deleted all of it or nothing.          *)
THEOREM PostgresProducerRefines == Spec => ProducerSpec
<1>1. Inv /\ [Next]_vars => [Abstract!Next]_(Abstract!vars)
  BY NextRefines
<1> QED
  BY InitRefines, InvHolds, <1>1, PTL DEF Spec, ProducerSpec, Abstract!Spec
=============================================================================
