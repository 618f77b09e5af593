---------------------------- MODULE RedisWriter ----------------------------
(***************************************************************************)
(* gwfront's RedisWriter: write() as the worker threads of the http server *)
(* run it side by side, and the pool connections_ with one hiredis context *)
(* per thread.  mutex_ makes the search of the pool and the push_back one  *)
(* step each; everything else of a call interleaves with the other calls.  *)
(***************************************************************************)
EXTENDS Hiredis, Naturals, Sequences, SequencesExt, FiniteSets

CONSTANTS
  Thread,    \* the workers of the HttpServer
  Ctx,       \* the redisContexts that can be allocated
  MaxFaults  \* how many faults of the connection or the server happen

ASSUME ThreadAssumption == Thread # {}
ASSUME MaxFaultsAssumption == MaxFaults \in Nat

VARIABLES
  ctx,          \* the allocated contexts, or Free
  connections,  \* connections_
  pc,           \* where each thread is in write()
  conn,         \* checkedConnection.connection of each thread
  result,       \* result.error of each thread's last call
  copies,       \* history: XADDs the server did for each thread's last call
  masked,       \* history: the call must not notice any fault so far
  faults        \* how many faults have happened

vars == <<ctx, connections, pc, conn, result, copies, masked, faults>>

Error == {"OK", "GENERIC", "STORAGE_UNAVAILABLE"}
Pc == {"idle", "find", "create", "auth", "push", "send", "reconnect", "reauth", "resend"}
Free == [err |-> "FREE", authed |-> FALSE, alive |-> FALSE]
Null == "nullptr"

Allocated == {c \in Ctx : ctx[c] # Free}
InPool == {connections[i].connection : i \in DOMAIN connections}

Fault == faults < MaxFaults /\ faults' = faults + 1
(* A fault that thread t's call cannot hide.                               *)
Hit(t) == Fault /\ masked' = [masked EXCEPT ![t] = FALSE]

Goto(t, label) == pc' = [pc EXCEPT ![t] = label]
Return(t, error) == Goto(t, "idle") /\ result' = [result EXCEPT ![t] = error]

Init ==
  /\ ctx = [c \in Ctx |-> Free]
  /\ connections = <<>>
  /\ pc = [t \in Thread |-> "idle"]
  /\ conn = [t \in Thread |-> Null]
  /\ result = [t \in Thread |-> "OK"]
  /\ copies = [t \in Thread |-> 0]
  /\ masked = [t \in Thread |-> FALSE]
  /\ faults = 0

Write(t) ==
  /\ pc[t] = "idle"
  /\ Goto(t, "find")
  /\ copies' = [copies EXCEPT ![t] = 0]
  /\ UNCHANGED <<ctx, connections, conn, result, masked, faults>>

(***************************************************************************)
(* findConnection                                                          *)
(***************************************************************************)
(* A context on which every command fails until the server closes it       *)
(* (AUTH refused) or for good (an error that is not a lost connection).    *)
Stuck(c) == ctx[c].err = "OTHER" \/ (ctx[c].err = "OK" /\ ctx[c].alive /\ ~ctx[c].authed)

(* Mutant: the search takes the first entry, whoever owns it.              *)
AnyEntry(t) == DOMAIN connections

Entry(t) == {i \in DOMAIN connections : connections[i].threadId = t}

Find(t) ==
  /\ pc[t] = "find"
  /\ \/ /\ Entry(t) # {}
        /\ conn' = [conn EXCEPT ![t] = connections[Min(Entry(t))].connection]
        /\ masked' = [masked EXCEPT ![t] = ~Stuck(conn'[t])]
        /\ Goto(t, "send")
     \/ /\ Entry(t) = {}
        /\ conn' = [conn EXCEPT ![t] = Null]
        /\ masked' = [masked EXCEPT ![t] = TRUE]
        /\ Goto(t, "create")
  /\ UNCHANGED <<ctx, connections, result, copies, faults>>

Connect(t) ==
  /\ pc[t] = "create"
  /\ \E c \in Ctx \ Allocated :
       /\ ctx' = [ctx EXCEPT ![c] = Connected]
       /\ conn' = [conn EXCEPT ![t] = c]
  /\ Goto(t, "auth")
  /\ UNCHANGED <<connections, result, copies, masked, faults>>

ConnectFails(t) ==
  /\ pc[t] = "create"
  /\ Hit(t)
  /\ Return(t, "STORAGE_UNAVAILABLE")
  /\ UNCHANGED <<ctx, connections, conn, copies>>

Push(t) ==
  /\ pc[t] = "push"
  /\ connections' = Append(connections, [threadId |-> t, connection |-> conn[t]])
  /\ Goto(t, "send")
  /\ UNCHANGED <<ctx, conn, result, copies, masked, faults>>

(* Thread t ran a command with outcome o; a fault is used up and shows.    *)
Ran(t, o) ==
  \/ ~o.fault /\ UNCHANGED <<masked, faults>>
  \/ o.fault /\ Hit(t)

(***************************************************************************)
(* authenticate, of createConnection and of reconnect                      *)
(***************************************************************************)
Accepted(o) == o.ctx.err = "OK" /\ o.reply # "error"

(* Mutant: no redisFree after a failed AUTH.                               *)
Keep(t, o) == ctx' = [ctx EXCEPT ![conn[t]] = o.ctx]

Discard(t, o) == ctx' = [ctx EXCEPT ![conn[t]] = Free]

CreateAuth(t) ==
  /\ pc[t] = "auth"
  /\ \E o \in redisCommand(ctx[conn[t]], TRUE) :
       /\ Ran(t, o)
       /\ \/ /\ Accepted(o)
             /\ ctx' = [ctx EXCEPT ![conn[t]] = [o.ctx EXCEPT !.authed = TRUE]]
             /\ Goto(t, "push")
             /\ UNCHANGED result
          \/ /\ ~Accepted(o)
             /\ Discard(t, o)
             /\ Return(t, "STORAGE_UNAVAILABLE")
  /\ UNCHANGED <<connections, conn, copies>>

(* Mutant: a second loss leads to a third attempt, and so on.              *)
RetryForever == "send"

Retry == "resend"

Reauth(t) ==
  /\ pc[t] = "reauth"
  /\ \E o \in redisCommand(ctx[conn[t]], TRUE) :
       /\ Ran(t, o)
       /\ ctx' = [ctx EXCEPT ![conn[t]] = [o.ctx EXCEPT !.authed = Accepted(o)]]
       /\ \/ Accepted(o) /\ Goto(t, Retry) /\ UNCHANGED result
          \/ ~Accepted(o) /\ Return(t, "STORAGE_UNAVAILABLE")
  /\ UNCHANGED <<connections, conn, copies>>

(***************************************************************************)
(* write: XADD, on a lost connection reconnect and XADD again              *)
(***************************************************************************)
(* Mutant: an error reply is not looked at.                                *)
WriteResultIgnoresReply(o) ==
  CASE o.ctx.err = "OTHER" -> "GENERIC"
    [] o.ctx.err \in Lost -> "STORAGE_UNAVAILABLE"
    [] OTHER -> "OK"

WriteResult(o) ==
  CASE o.reply = "error" \/ o.ctx.err = "OTHER" -> "GENERIC"
    [] o.ctx.err \in Lost -> "STORAGE_UNAVAILABLE"
    [] OTHER -> "OK"

Xadds(t) == redisCommand(ctx[conn[t]], ctx[conn[t]].authed)

Added(t, o) ==
  /\ Ran(t, o)
  /\ ctx' = [ctx EXCEPT ![conn[t]] = o.ctx]
  /\ copies' = [copies EXCEPT ![t] = IF o.done THEN @ + 1 ELSE @]

(* Mutant: only REDIS_ERR_EOF is retried.                                  *)
EofOnly(o) == o.ctx.err = "EOF"

MustRetry(o) == o.ctx.err \in Lost

Send(t) ==
  /\ pc[t] = "send"
  /\ \E o \in Xadds(t) :
       /\ Added(t, o)
       /\ \/ MustRetry(o) /\ Goto(t, "reconnect") /\ UNCHANGED result
          \/ ~MustRetry(o) /\ Return(t, WriteResult(o))
  /\ UNCHANGED <<connections, conn>>

Reconnect(t) ==
  /\ pc[t] = "reconnect"
  /\ ctx' = [ctx EXCEPT ![conn[t]] = Connected]
  /\ Goto(t, "reauth")
  /\ UNCHANGED <<connections, conn, result, copies, masked, faults>>

(* A context that cannot be connected again may be left with an error     *)
(* other than REDIS_ERR_IO, which the next call does not try to repair.    *)
ReconnectFails(t) ==
  /\ pc[t] = "reconnect"
  /\ Hit(t)
  /\ \E e \in {"IO", "OTHER"} : ctx' = [ctx EXCEPT ![conn[t]] = [err |-> e, authed |-> FALSE, alive |-> FALSE]]
  /\ Return(t, "STORAGE_UNAVAILABLE")
  /\ UNCHANGED <<connections, conn, copies>>

Resend(t) ==
  /\ pc[t] = "resend"
  /\ \E o \in Xadds(t) : Added(t, o) /\ Return(t, WriteResult(o))
  /\ UNCHANGED <<connections, conn>>

(* The server or the network closes a connection between two commands.  A  *)
(* call that is past its one retry cannot hide it.                         *)
Drop(c) ==
  /\ c \in Allocated /\ ctx[c].alive
  /\ Fault
  /\ ctx' = [ctx EXCEPT ![c].alive = FALSE]
  /\ masked' = [t \in Thread |->
                  masked[t] /\ ~(conn[t] = c /\ pc[t] \in {"auth", "reauth", "resend"})]
  /\ UNCHANGED <<connections, pc, conn, result, copies>>

Step(t) ==
  \/ Find(t) \/ Connect(t) \/ ConnectFails(t) \/ CreateAuth(t) \/ Push(t)
  \/ Send(t) \/ Reconnect(t) \/ ReconnectFails(t) \/ Reauth(t) \/ Resend(t)

Next ==
  \/ \E t \in Thread : Write(t) \/ Step(t)
  \/ \E c \in Ctx : Drop(c)

Spec == Init /\ [][Next]_vars
-----------------------------------------------------------------------------
(* Every variable has its type; a thread that is about to use a context    *)
(* has one.                                                                *)
TypeOK ==
  /\ ctx \in [Ctx -> Context \cup {Free}]
  /\ connections \in Seq([threadId : Thread, connection : Ctx])
  /\ pc \in [Thread -> Pc]
  /\ conn \in [Thread -> Ctx \cup {Null}]
  /\ \A t \in Thread : pc[t] \notin {"idle", "find", "create"} => conn[t] \in Ctx
  /\ result \in [Thread -> Error]
  /\ copies \in [Thread -> 0 .. 2]
  /\ masked \in [Thread -> BOOLEAN]
  /\ faults \in 0 .. MaxFaults

(* No two threads ever use one context, and the pool holds at most one     *)
(* entry per thread: "ExclusiveConnection" is what its name says.          *)
Exclusive ==
  /\ \A i, j \in DOMAIN connections : i # j =>
       /\ connections[i].threadId # connections[j].threadId
       /\ connections[i].connection # connections[j].connection
  /\ \A t \in Thread : pc[t] \in {"send", "reconnect", "reauth", "resend"} =>
       \E i \in DOMAIN connections : connections[i] = [threadId |-> t, connection |-> conn[t]]

(* Every context is in the pool or about to be pushed: a failed connect or *)
(* AUTH leaks none, so there are never more of them than threads.          *)
NoLeak ==
  Allocated = InPool \cup {conn[t] : t \in {u \in Thread : pc[u] \in {"auth", "push"}}}

(* A connection that was lost before the XADD went out is invisible to the *)
(* caller: the reconnect and second try store the message exactly once.    *)
LossMasked ==
  \A t \in Thread : pc[t] = "idle" /\ masked[t] => result[t] = "OK" /\ copies[t] = 1

(* What write() promises: OK means stored, once or, when the reply to the  *)
(* first XADD was lost, twice; after an error up to two copies exist.      *)
RedisPromise ==
  {p \in [error : Error, copies : 0 .. 2] : p.error = "OK" => p.copies > 0}

Writer == INSTANCE StorageWriter WITH
  Promise <- RedisPromise, busy <- {t \in Thread : pc[t] # "idle"}, error <- result
WriterSpec == Writer!Spec
=============================================================================
