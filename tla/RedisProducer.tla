--------------------------- MODULE RedisProducer ---------------------------
(***************************************************************************)
(* gwback's RedisProducer: getNext() and markConsumed() command by command *)
(* on the one context connection_, which starts unset, keeps its error and *)
(* its lack of authentication from call to call, and may lose its server   *)
(* at any time.  The run loop calls getNext(), and markConsumed() with the *)
(* chunk it got.                                                           *)
(***************************************************************************)
EXTENDS Hiredis, MessageId, Chunking

CONSTANTS
  Entry,     \* the ids <<ts, seq>> of the entries gwfront adds
  MaxFaults  \* how many faults happen

ASSUME EntryAssumption == \A e \in Entry : Fits(e)
ASSUME MaxFaultsAssumption == MaxFaults \in Nat

VARIABLES
  stream,    \* the entries of the stream "messages"
  added,     \* all entries ever added
  ctx,       \* connection_
  pc,        \* where the call is
  call,      \* the call in progress, or "none"
  messages,  \* the chunk of the last getNext(), as packed ids
  result,    \* how the last call ended
  masked,    \* history: the call must not notice any fault so far
  faults     \* how many faults have happened

vars == <<stream, added, ctx, pc, call, messages, result, masked, faults>>

Unset == [err |-> "UNSET", authed |-> FALSE, alive |-> FALSE]
Pc == {"idle", "connect", "auth", "send", "reconnect", "reauth", "resend"}

Before(d, e) == d[1] < e[1] \/ (d[1] = e[1] /\ d[2] < e[2])

Fault == faults < MaxFaults /\ faults' = faults + 1
Hit == Fault /\ masked' = FALSE

Init ==
  /\ stream = {} /\ added = {}
  /\ ctx = Unset
  /\ pc = "idle" /\ call = "none"
  /\ messages = <<>>
  /\ result = "none"
  /\ masked = FALSE
  /\ faults = 0

(* XADD by gwfront: the server gives every entry a larger id.              *)
Produce ==
  /\ \E e \in Entry :
       /\ \A d \in added : Before(d, e)
       /\ stream' = stream \cup {e}
       /\ added' = added \cup {e}
  /\ UNCHANGED <<ctx, pc, call, messages, result, masked, faults>>

(* A context on which every command fails until the server closes it       *)
(* (AUTH refused) or for good (an error that is not a lost connection).    *)
Stuck == ctx.err = "OTHER" \/ (ctx.err = "OK" /\ ctx.alive /\ ~ctx.authed)

(***************************************************************************)
(* The calls of the run loop                                               *)
(***************************************************************************)
Call ==
  /\ call = "none"
  /\ call' = IF messages = <<>> THEN "getNext" ELSE "markConsumed"
  /\ pc' = IF ctx = Unset THEN "connect" ELSE "send"
  /\ masked' = (call' = "getNext" /\ ~Stuck)
  /\ UNCHANGED <<stream, added, ctx, messages, result, faults>>

ConsumerThrows ==
  /\ call = "none" /\ messages # <<>>
  /\ Fault
  /\ messages' = <<>>
  /\ UNCHANGED <<stream, added, ctx, pc, call, result, masked>>

Continue(label) == pc' = label /\ UNCHANGED <<call, messages, result>>
Return(chunk) == pc' = "idle" /\ call' = "none" /\ messages' = chunk /\ result' = "returned"
Throw == pc' = "idle" /\ call' = "none" /\ messages' = <<>> /\ result' = "threw"

(***************************************************************************)
(* getConnection, reconnect, authenticate                                  *)
(***************************************************************************)
Connect ==
  /\ pc = "connect"
  /\ ctx' = Connected
  /\ Continue("auth")
  /\ UNCHANGED <<stream, added, masked, faults>>

ConnectFails ==
  /\ pc = "connect"
  /\ Hit
  /\ Throw
  /\ UNCHANGED <<stream, added, ctx>>

Reconnect ==
  /\ pc = "reconnect"
  /\ ctx' = Connected
  /\ Continue("reauth")
  /\ UNCHANGED <<stream, added, masked, faults>>

(* A context that cannot be connected again may be left with an error     *)
(* other than REDIS_ERR_IO, which the next call does not try to repair.    *)
ReconnectFails ==
  /\ pc = "reconnect"
  /\ Hit
  /\ \E e \in {"IO", "OTHER"} : ctx' = [err |-> e, authed |-> FALSE, alive |-> FALSE]
  /\ Throw
  /\ UNCHANGED <<stream, added>>

(* A fault is used up; the caller of getNext() may notice it unless it     *)
(* broke the connection under the first try.                               *)
Ran(o) ==
  \/ ~o.fault /\ UNCHANGED <<masked, faults>>
  \/ o.fault /\ Fault /\ masked' = (masked /\ pc = "send" /\ o.ctx.err \in Lost)

Failed(o) == o.ctx.err # "OK" \/ o.reply = "error"

Authenticate(next) ==
  /\ \E o \in redisCommand(ctx, TRUE) :
       /\ Ran(o)
       /\ ctx' = [o.ctx EXCEPT !.authed = ~Failed(o)]
       /\ IF Failed(o) THEN Throw ELSE Continue(next)
  /\ UNCHANGED <<stream, added>>

Auth == pc = "auth" /\ Authenticate("send")
Reauth == pc = "reauth" /\ Authenticate("resend")

(***************************************************************************)
(* XRANGE and XDEL                                                         *)
(***************************************************************************)
(* The one answer to XRANGE, in a set: the ProducerChunk first entries.    *)
Xrange ==
  {c \in BoundedSeq(stream, ProducerChunk) :
     /\ \A i, j \in DOMAIN c : i < j => Before(c[i], c[j])
     /\ \A e \in stream \ Range(c) : Len(c) = ProducerChunk /\ \A i \in DOMAIN c : Before(c[i], e)}

messagesFromReply(entries) == [i \in DOMAIN entries |-> messageIdFromReply(entries[i])]

Xdel == {entryId(id) : id \in Range(messages)}

(* The server carries the command of the call out, if it gets that far.    *)
RunOnServer(o) ==
  stream' = IF call = "markConsumed" /\ o.done THEN stream \ Xdel ELSE stream

(* Mutant: an error reply to XDEL is not looked at.                        *)
FinishIgnoresReply(o) ==
  \/ o.ctx.err # "OK" /\ Throw
  \/ o.ctx.err = "OK" /\ call = "getNext" /\ \E entries \in Xrange : Return(messagesFromReply(entries))
  \/ o.ctx.err = "OK" /\ call = "markConsumed" /\ Return(<<>>)

Finish(o) ==
  \/ Failed(o) /\ Throw
  \/ ~Failed(o) /\ call = "getNext" /\ \E entries \in Xrange : Return(messagesFromReply(entries))
  \/ ~Failed(o) /\ call = "markConsumed" /\ Return(<<>>)

(* Mutant: getNext() retries like markConsumed().                          *)
MustRetryEof(o) == o.ctx.err = "EOF"

MustRetry(o) == o.ctx.err = "EOF" \/ (call = "getNext" /\ o.ctx.err = "IO")

Send ==
  /\ pc = "send"
  /\ \E o \in redisCommand(ctx, ctx.authed) :
       /\ Ran(o)
       /\ ctx' = o.ctx
       /\ RunOnServer(o)
       /\ IF MustRetry(o) THEN Continue("reconnect") ELSE Finish(o)
  /\ UNCHANGED added

Resend ==
  /\ pc = "resend"
  /\ \E o \in redisCommand(ctx, ctx.authed) :
       Ran(o) /\ ctx' = o.ctx /\ RunOnServer(o) /\ Finish(o)
  /\ UNCHANGED added

(* The server or the network closes the connection between two commands.   *)
(* A call that is past its one retry cannot hide it.                       *)
Drop ==
  /\ ctx # Unset /\ ctx.alive
  /\ Fault
  /\ ctx' = [ctx EXCEPT !.alive = FALSE]
  /\ masked' = (masked /\ pc \notin {"auth", "reauth", "resend"})
  /\ UNCHANGED <<stream, added, pc, call, messages, result>>

Step ==
  \/ Connect \/ ConnectFails \/ Auth \/ Send
  \/ Reconnect \/ ReconnectFails \/ Reauth \/ Resend

Next == Produce \/ Call \/ ConsumerThrows \/ Step \/ Drop

Spec == Init /\ [][Next]_vars
FairSpec == Spec /\ WF_vars(Call \/ Step)
-----------------------------------------------------------------------------
(* A connection lost while idle, by an earlier call that threw, or under   *)
(* the first XRANGE is invisible: getNext() reconnects and returns.        *)
LossMasked == call = "none" /\ masked => result = "returned"

(* The producer keeps its promise to the run loop, whatever is lost, and   *)
(* though an entry is known to it by a packed id only.                     *)
Abstract == INSTANCE Producer WITH
  Message <- Id, stored <- {messageIdFromReply(e) : e \in stream}, chunk <- messages
ProducerSpec == Abstract!Spec

(* Unless the context gets stuck for good, every entry is fetched and      *)
(* deleted once the faults end: an error one call leaves behind (the IO    *)
(* error that markConsumed() does not retry) is repaired by another.       *)
Drained == (\A e \in Entry : e \in stream ~> e \notin stream) \/ <>[]Stuck
=============================================================================
