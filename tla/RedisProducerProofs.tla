------------------------ MODULE RedisProducerProofs ------------------------
(***************************************************************************)
(* Proofs about RedisProducer for all entries that fit into the packed id, *)
(* every chunk size and any number of faults.                              *)
(***************************************************************************)
EXTENDS RedisProducer, TLAPS

(* The outcomes of a command without a fault, by the state of its context. *)
Clean(c, allowed, o) ==
  \/ c.err # "OK" /\ o.ctx = c /\ o.reply = "null" /\ ~o.done
  \/ c.err = "OK" /\ ~c.alive /\ o.ctx.err \in Lost /\ o.reply = "null" /\ ~o.done
  \/ c.err = "OK" /\ c.alive /\ allowed /\ o.ctx = c /\ o.reply = "ok" /\ o.done
  \/ c.err = "OK" /\ c.alive /\ ~allowed /\ o.ctx = c /\ o.reply = "error" /\ ~o.done

(* A fault never looks like a success: the reply is an error, or there is  *)
(* none and the context says why.                                          *)
LEMMA MishapOutcome ==
  ASSUME NEW c \in Context, NEW allowed \in BOOLEAN, NEW o \in Mishaps(c, allowed)
  PROVE  o.fault /\ o.ctx \in Context /\ (o.reply = "error" \/ o.ctx.err # "OK")
<1>1. ASSUME NEW e \in Err PROVE [c EXCEPT !.err = e] \in Context /\ [c EXCEPT !.err = e].err = e
  BY DEF Context
<1>2. ASSUME NEW e \in Err PROVE [c EXCEPT !.err = e, !.alive = FALSE] \in Context /\ [c EXCEPT !.err = e, !.alive = FALSE].err = e
  BY DEF Context
<1>3. ASSUME NEW x \in Context, x.err # "OK", o \in NoReply(x, allowed)
      PROVE  o.fault /\ o.ctx \in Context /\ o.ctx.err # "OK"
  <2>1. PICK d \in {FALSE, allowed} : o = Outcome(x, "null", d, TRUE)
    BY <1>3, Zenon DEF NoReply
  <2>2. o.fault /\ o.ctx = x
    BY <2>1, Zenon DEF Outcome
  <2> QED
    BY <1>3, <2>2, Zenon
<1>4. ASSUME NEW e \in Lost, o \in NoReply([c EXCEPT !.err = e, !.alive = FALSE], allowed)
      PROVE  o.fault /\ o.ctx \in Context /\ o.ctx.err # "OK"
  <2>1. e \in Err /\ e # "OK"
    BY DEF Lost, Err
  <2> QED
    BY <1>2, <1>3, <1>4, <2>1, Zenon
<1>5. ASSUME o \in NoReply([c EXCEPT !.err = "OTHER"], allowed)
      PROVE  o.fault /\ o.ctx \in Context /\ o.ctx.err # "OK"
  <2>1. "OTHER" \in Err /\ "OTHER" # "OK"
    BY DEF Err
  <2> QED
    BY <1>1, <1>3, <1>5, <2>1, Zenon
<1>6. ASSUME o = Outcome(c, "error", FALSE, TRUE)
      PROVE  o.fault /\ o.ctx \in Context /\ o.reply = "error"
  BY <1>6, Zenon DEF Outcome
<1> DEFINE Broken == UNION {NoReply([c EXCEPT !.err = e, !.alive = FALSE], allowed) : e \in Lost}
           Garbled == NoReply([c EXCEPT !.err = "OTHER"], allowed)
           Refused == Outcome(c, "error", FALSE, TRUE)
<1>7. ASSUME o \in Broken PROVE o.fault /\ o.ctx \in Context /\ o.ctx.err # "OK"
  <2>1. PICK e \in Lost : o \in NoReply([c EXCEPT !.err = e, !.alive = FALSE], allowed)
    BY <1>7, Zenon
  <2> QED
    BY <1>4, <2>1, Zenon
<1>8. o \in Broken \cup Garbled \cup {Refused}
  BY Zenon DEF Mishaps
<1>9. o \in Broken \/ o \in Garbled \/ o = Refused
  <2> HIDE DEF Broken, Garbled, Refused
  <2> QED
    BY <1>8
<1>10. o.fault /\ o.ctx \in Context /\ (o.reply = "error" \/ o.ctx.err # "OK")
  <2> HIDE DEF Broken
  <2> QED
    BY <1>5, <1>6, <1>7, <1>9, Zenon
<1> QED
  BY <1>10, Zenon

(* A command leaves a context; without a fault its outcome is determined   *)
(* by the state of the context, with one it never looks like a success.    *)
LEMMA CommandOutcome ==
  ASSUME NEW c \in Context, NEW allowed \in BOOLEAN, NEW o \in redisCommand(c, allowed)
  PROVE  /\ o.ctx \in Context
         /\ o.fault \/ Clean(c, allowed, o)
         /\ o.fault => o.reply = "error" \/ o.ctx.err # "OK"
<1>1. ASSUME NEW e \in Err PROVE [c EXCEPT !.err = e] \in Context /\ [c EXCEPT !.err = e].err = e
  BY DEF Context
<1>2. CASE o \in Answers(c, allowed)
  <2>1. CASE c.err # "OK"
    <3>1. o = Outcome(c, "null", FALSE, FALSE)
      BY <1>2, <2>1 DEF Answers
    <3> QED
      BY <2>1, <3>1, Zenon DEF Outcome, Clean
  <2>2. CASE c.err = "OK" /\ ~c.alive
    <3>1. PICK e \in Lost : o = Outcome([c EXCEPT !.err = e], "null", FALSE, FALSE)
      BY <1>2, <2>2 DEF Answers
    <3>2. e \in Err
      BY DEF Lost, Err
    <3> QED
      BY <1>1, <2>2, <3>1, <3>2, Zenon DEF Outcome, Clean
  <2>3. CASE c.err = "OK" /\ c.alive /\ allowed
    <3>1. o = Outcome(c, "ok", TRUE, FALSE)
      BY <1>2, <2>3, Zenon DEF Answers
    <3> QED
      BY <2>3, <3>1, Zenon DEF Outcome, Clean
  <2>4. CASE c.err = "OK" /\ c.alive /\ ~allowed
    <3>1. o = Outcome(c, "error", FALSE, FALSE)
      BY <1>2, <2>4, Zenon DEF Answers
    <3> QED
      BY <2>4, <3>1, Zenon DEF Outcome, Clean
  <2> QED
    BY <2>1, <2>2, <2>3, <2>4
<1>3. CASE o \in Mishaps(c, allowed)
  BY <1>3, MishapOutcome
<1> QED
  BY <1>2, <1>3 DEF redisCommand
-----------------------------------------------------------------------------

(* The messages of a set of entries.                                       *)
Packed(E) == {messageIdFromReply(e) : e \in E}

(* What a call works on: a context from its first command on, and messages *)
(* that are packed entries.                                                *)
Shapes ==
  /\ added \subseteq Entry /\ stream \subseteq added
  /\ ctx \in Context \cup {Unset}
  /\ pc \in Pc /\ call \in {"none", "getNext", "markConsumed"}
  /\ pc = "idle" <=> call = "none"
  /\ pc \notin {"idle", "connect"} => ctx \in Context
  /\ messages \in Seq(Packed(Entry))
  /\ masked \in BOOLEAN

(* What makes LossMasked inductive: while getNext() may still be masked, a *)
(* context that was just made is as the server made it, the first XRANGE   *)
(* meets no error but a lost connection, and the second one none at all.   *)
Maskable ==
  masked /\ call # "none" =>
    /\ call = "getNext"
    /\ pc \in {"auth", "reauth"} => ctx = Connected
    /\ pc = "send" => ctx.err \in Lost \cup {"OK"} /\ (ctx.err = "OK" /\ ctx.alive => ctx.authed)
    /\ pc = "resend" => ctx.err = "OK" /\ ctx.alive /\ ctx.authed

Inv == Shapes /\ Maskable /\ LossMasked

(* A new context: connected, and nobody.                                   *)
LEMMA NewContext ==
  /\ Connected \in Context
  /\ Connected.err = "OK" /\ Connected.alive = TRUE /\ Connected.authed = FALSE
  /\ Unset.err = "UNSET" /\ Unset \notin Context
<1>1. Connected \in Context
  BY DEF Connected, Context, Err
<1>2. Connected.err = "OK" /\ Connected.alive = TRUE /\ Connected.authed = FALSE
  BY Zenon DEF Connected
<1>3. Unset.err = "UNSET" /\ Unset \notin Context
  BY DEF Unset, Context, Err
<1> QED
  BY <1>1, <1>2, <1>3

(* The fields of a context, and one whose field is replaced.               *)
LEMMA ContextFields ==
  ASSUME NEW c \in Context, NEW b \in BOOLEAN
  PROVE  /\ c.err \in Err /\ c.authed \in BOOLEAN /\ c.alive \in BOOLEAN
         /\ [c EXCEPT !.authed = b] \in Context
         /\ [c EXCEPT !.alive = b] \in Context
         /\ [c EXCEPT !.authed = b].err = c.err
         /\ [c EXCEPT !.authed = b].alive = c.alive
         /\ [c EXCEPT !.authed = b].authed = b
         /\ [c EXCEPT !.alive = b].err = c.err
         /\ [c EXCEPT !.alive = b].alive = b
BY DEF Context

(* AUTH: a call that fails was hit by a fault that it cannot mask, and one *)
(* that may still be masked has an authenticated connection.               *)
LEMMA AuthKeeps ==
  ASSUME Inv, pc \in {"auth", "reauth"}, NEW label, Authenticate(label)
  PROVE  /\ ctx' \in Context /\ masked' \in BOOLEAN /\ UNCHANGED <<stream, added>>
         /\ \/ Throw /\ ~masked'
            \/ Continue(label) /\ (masked' => masked /\ ctx'.err = "OK" /\ ctx'.alive /\ ctx'.authed)
<1>1. PICK o \in redisCommand(ctx, TRUE) :
        /\ Ran(o)
        /\ ctx' = [o.ctx EXCEPT !.authed = ~Failed(o)]
        /\ IF Failed(o) THEN Throw ELSE Continue(label)
  BY Zenon DEF Authenticate
<1>2. ctx \in Context /\ masked \in BOOLEAN /\ call # "none"
  BY DEF Inv, Shapes
<1>3. /\ o.ctx \in Context
      /\ o.fault \/ Clean(ctx, TRUE, o)
      /\ o.fault => o.reply = "error" \/ o.ctx.err # "OK"
  BY <1>2, CommandOutcome
<1> DEFINE ok == ~Failed(o)
<1>4. ok \in BOOLEAN /\ ctx' = [o.ctx EXCEPT !.authed = ok]
  BY <1>1, Zenon DEF Failed
<1>5. /\ ctx' \in Context /\ ctx'.err = o.ctx.err /\ ctx'.alive = o.ctx.alive /\ ctx'.authed = ok
  <2> DEFINE c == o.ctx
  <2>1. c \in Context /\ ok \in BOOLEAN /\ ctx' = [c EXCEPT !.authed = ok]
    BY <1>3, <1>4, Zenon
  <2> HIDE DEF ok, c
  <2>2. ctx' \in Context /\ ctx'.err = c.err /\ ctx'.alive = c.alive /\ ctx'.authed = ok
    <3> DEFINE d == [c EXCEPT !.authed = ok]
    <3>1. d \in Context /\ d.err = c.err /\ d.alive = c.alive /\ d.authed = ok
      BY <2>1 DEF Context
    <3> HIDE DEF d
    <3>2. ctx' = d
      BY <2>1, Zenon DEF d
    <3> QED
      BY <3>1, <3>2, Zenon
  <2> QED
    BY <2>2 DEF c
<1>6. CASE o.fault
  <2>1. masked' = FALSE /\ Failed(o)
    BY <1>1, <1>3, <1>6 DEF Ran, Failed
  <2> QED
    BY <1>1, <1>5, <2>1, Zenon DEF Authenticate
<1>7. CASE ~o.fault
  <2>1. masked' = masked
    BY <1>1, <1>7 DEF Ran
  <2>2. ASSUME masked
        PROVE  ~Failed(o) /\ o.ctx.err = "OK" /\ o.ctx.alive
    <3>1. ctx = Connected
      BY <1>2, <2>2 DEF Inv, Maskable
    <3>2. o.ctx = ctx /\ o.reply = "ok"
      BY <1>3, <1>7, <3>1, NewContext, Zenon DEF Clean
    <3> QED
      BY <3>1, <3>2, NewContext, Zenon DEF Failed
  <2> QED
    BY <1>1, <1>2, <1>5, <2>1, <2>2, Zenon DEF Authenticate
<1> QED
  BY <1>6, <1>7

(* XRANGE and XDEL: a call that does not fail was carried out, and one     *)
(* that may still be masked fails only to be tried again.                  *)
LEMMA CommandKeeps ==
  ASSUME Inv, pc \in {"send", "resend"}, NEW o \in redisCommand(ctx, ctx.authed), Ran(o)
  PROVE  /\ o.ctx \in Context /\ masked' \in BOOLEAN
         /\ ~Failed(o) => o.done
         /\ masked' => masked /\ (Failed(o) => pc = "send" /\ MustRetry(o))
<1>1. ctx \in Context /\ masked \in BOOLEAN /\ call # "none" /\ ctx.authed \in BOOLEAN
  BY ContextFields DEF Inv, Shapes
<1>2. /\ o.ctx \in Context
      /\ o.fault \/ Clean(ctx, ctx.authed, o)
      /\ o.fault => o.reply = "error" \/ o.ctx.err # "OK"
  BY <1>1, CommandOutcome
<1>3. ~Failed(o) => o.done
  <2> SUFFICES ASSUME ~Failed(o) PROVE o.done
    OBVIOUS
  <2>1. o.ctx.err = "OK" /\ o.reply # "error" /\ o.ctx.err \notin Lost
    BY DEF Failed, Lost
  <2>2. Clean(ctx, ctx.authed, o)
    BY <1>2, <2>1, Zenon
  <2>3. ~(ctx.err # "OK" /\ o.ctx = ctx)
    BY <2>1
  <2> QED
    BY <2>1, <2>2, <2>3, Zenon DEF Clean
<1>4. \/ ~o.fault /\ masked' = masked
      \/ o.fault /\ masked' = (masked /\ pc = "send" /\ o.ctx.err \in Lost)
  BY Zenon DEF Ran
<1>5. masked' \in BOOLEAN
  BY <1>1, <1>4
<1>6. ASSUME masked', o.fault
      PROVE  masked /\ pc = "send" /\ MustRetry(o)
  <2>1. masked /\ pc = "send" /\ o.ctx.err \in Lost
    BY <1>4, <1>6, Zenon
  <2>2. call = "getNext"
    BY <1>1, <2>1 DEF Inv, Maskable
  <2> QED
    BY <2>1, <2>2 DEF MustRetry, Lost
<1>7. ASSUME masked', ~o.fault, Failed(o)
      PROVE  masked /\ pc = "send" /\ MustRetry(o)
  <2>1. masked
    BY <1>4, <1>7, Zenon
  <2>2. call = "getNext"
    BY <1>1, <2>1 DEF Inv, Maskable
  <2>3. Clean(ctx, ctx.authed, o)
    BY <1>2, <1>7
  <2>4. pc = "send"
    <3>1. SUFFICES ASSUME pc # "send" PROVE FALSE
      OBVIOUS
    <3>2. ctx.err = "OK" /\ ctx.alive /\ ctx.authed
      BY <1>1, <2>1, <3>1 DEF Inv, Maskable
    <3>3. o.ctx = ctx /\ o.reply = "ok"
      BY <2>3, <3>2, Zenon DEF Clean
    <3> QED
      BY <1>7, <3>2, <3>3 DEF Failed
  <2>5. ctx.err \in Lost \cup {"OK"} /\ (ctx.err = "OK" /\ ctx.alive => ctx.authed)
    BY <1>1, <2>1, <2>4 DEF Inv, Maskable
  <2>6. o.ctx.err \in Lost
    <3>1. CASE ctx.err # "OK"
      <4>1. o.ctx = ctx
        BY <2>3, <3>1, Zenon DEF Clean
      <4> QED
        BY <2>5, <3>1, <4>1
    <3>2. CASE ctx.err = "OK" /\ ~ctx.alive
      BY <2>3, <3>2, Zenon DEF Clean
    <3>3. CASE ctx.err = "OK" /\ ctx.alive
      <4>1. o.ctx = ctx /\ o.reply = "ok"
        BY <2>3, <2>5, <3>3, Zenon DEF Clean
      <4> QED
        BY <1>7, <3>3, <4>1 DEF Failed
    <3> QED
      BY <3>1, <3>2, <3>3
  <2> QED
    BY <2>1, <2>2, <2>4, <2>6 DEF MustRetry, Lost
<1>8. masked' => masked
  BY <1>4, Zenon
<1> QED
  BY <1>2, <1>3, <1>5, <1>6, <1>7, <1>8, Zenon

(* The empty chunk.                                                        *)
LEMMA NoMessages == <<>> \in Seq(Packed(Entry))
OBVIOUS

(* An answer to XRANGE, packed, is a sequence of packed entries.           *)
LEMMA FromReplyType ==
  ASSUME stream \subseteq Entry, NEW entries \in Xrange
  PROVE  /\ entries \in Seq(stream)
         /\ messagesFromReply(entries) \in Seq(Packed(Entry))
         /\ Len(messagesFromReply(entries)) = Len(entries)
         /\ \A i \in 1 .. Len(entries) : messagesFromReply(entries)[i] = messageIdFromReply(entries[i])
<1>1. entries \in BoundedSeq(stream, ProducerChunk)
  BY DEF Xrange
<1>2. PICK n \in 0 .. ProducerChunk : entries \in [1 .. n -> stream]
  BY <1>1, ProducerChunkAssumption DEF BoundedSeq, SeqOf
<1>3. entries \in Seq(stream) /\ Len(entries) = n /\ DOMAIN entries = 1 .. n
  BY <1>2, ProducerChunkAssumption
<1>4. \A i \in 1 .. n : messageIdFromReply(entries[i]) \in Packed(Entry)
  BY <1>2, Zenon DEF Packed
<1> DEFINE m == [i \in 1 .. n |-> messageIdFromReply(entries[i])]
<1>5. messagesFromReply(entries) = m
  BY <1>3 DEF messagesFromReply
<1>6. m \in [1 .. n -> Packed(Entry)]
  BY <1>4
<1>7. m \in Seq(Packed(Entry)) /\ Len(m) = n
  BY <1>2, <1>6, ProducerChunkAssumption
<1> QED
  BY <1>3, <1>5, <1>7

(* The invariant holds before the first call.                              *)
LEMMA InvInit == Init => Inv
<1> SUFFICES ASSUME Init PROVE Inv
  OBVIOUS
<1>1. messages \in Seq(Packed(Entry))
  BY NoMessages, Zenon DEF Init
<1> QED
  BY <1>1 DEF Init, Inv, Shapes, Maskable, LossMasked, Pc

(* A call that ends, by returning or throwing, and keeps its context.      *)
LEMMA Ends ==
  ASSUME Inv, UNCHANGED added, stream' \subseteq stream, ctx' \in Context \cup {Unset}, masked' \in BOOLEAN,
         \/ Throw /\ ~masked'
         \/ \E c \in Seq(Packed(Entry)) : Return(c)
  PROVE  Inv'
<1>1. pc' = "idle" /\ call' = "none" /\ messages' \in Seq(Packed(Entry)) /\ (masked' => result' = "returned")
  <2>1. CASE Throw /\ ~masked'
    BY <2>1, NoMessages, Zenon DEF Throw
  <2>2. CASE \E c \in Seq(Packed(Entry)) : Return(c)
    BY <2>2 DEF Return
  <2> QED
    BY <2>1, <2>2
<1>2. Shapes'
  BY <1>1 DEF Inv, Shapes, Pc
<1> QED
  BY <1>1, <1>2 DEF Inv, Maskable, LossMasked

(* A call that goes on.                                                    *)
LEMMA GoesOn ==
  ASSUME Inv, UNCHANGED added, stream' \subseteq stream, ctx' \in Context, masked' \in BOOLEAN, pc # "idle",
         NEW label \in Pc \ {"idle", "connect"}, Continue(label), Maskable'
  PROVE  Inv'
<1>1. pc' = label /\ UNCHANGED <<call, messages, result>>
  BY DEF Continue
<1>2. Shapes'
  BY <1>1 DEF Inv, Shapes
<1>3. LossMasked'
  BY <1>1 DEF Inv, Shapes, LossMasked
<1> QED
  BY <1>2, <1>3 DEF Inv

(* Every step keeps the invariant.                                         *)
LEMMA InvNext == Inv /\ [Next]_vars => Inv'
<1> SUFFICES ASSUME Inv, [Next]_vars PROVE Inv'
  OBVIOUS
<1>0. Shapes /\ Maskable /\ LossMasked
  BY DEF Inv
<1>1. CASE Produce
  BY <1>0, <1>1 DEF Produce, Inv, Shapes, Maskable, LossMasked
<1>2. CASE Call
  <2>1. /\ call = "none" /\ call' \in {"getNext", "markConsumed"} /\ UNCHANGED <<stream, added, ctx, messages, result>>
        /\ pc' = IF ctx = Unset THEN "connect" ELSE "send"
    BY <1>2 DEF Call
  <2>2. masked' = (call' = "getNext" /\ ~Stuck)
    BY <1>2, Zenon DEF Call
  <2>3. masked' \in BOOLEAN
    BY <2>2, Zenon
  <2>4. Shapes'
    BY <1>0, <2>1, <2>3 DEF Shapes, Pc
  <2>5. Maskable'
    <3> SUFFICES ASSUME masked', pc' = "send"
                 PROVE  ctx.err \in Lost \cup {"OK"} /\ (ctx.err = "OK" /\ ctx.alive => ctx.authed) /\ call' = "getNext"
      BY <2>1, <2>2 DEF Maskable
    <3>1. ctx \in Context /\ ~Stuck /\ call' = "getNext"
      BY <1>0, <2>1, <2>2 DEF Shapes
    <3>2. ctx.err \in Err /\ ctx.err # "OTHER" /\ (ctx.err = "OK" /\ ctx.alive => ctx.authed)
      <4>1. ctx.err \in Err
        BY <3>1 DEF Context
      <4> QED
        BY <3>1, <4>1, Zenon DEF Stuck
    <3> QED
      BY <3>1, <3>2 DEF Err, Lost
  <2> QED
    BY <2>1, <2>4, <2>5 DEF Inv, LossMasked
<1>3. CASE ConsumerThrows
  <2>1. messages' = <<>> /\ UNCHANGED <<stream, added, ctx, pc, call, result, masked>>
    BY <1>3 DEF ConsumerThrows
  <2>2. messages' \in Seq(Packed(Entry))
    BY <2>1, NoMessages, Zenon
  <2> QED
    BY <1>0, <2>1, <2>2 DEF Inv, Shapes, Maskable, LossMasked
<1>4. CASE Connect \/ Reconnect
  <2>1. PICK label \in {"auth", "reauth"} : Continue(label)
    BY <1>4 DEF Connect, Reconnect
  <2>2. ctx' = Connected /\ UNCHANGED <<stream, added, masked>> /\ pc \in {"connect", "reconnect"}
    BY <1>4 DEF Connect, Reconnect
  <2>3. Maskable'
    BY <1>0, <2>1, <2>2 DEF Continue, Maskable
  <2> QED
    BY <1>0, <2>1, <2>2, <2>3, NewContext, GoesOn DEF Shapes, Pc
<1>5. CASE ConnectFails \/ ReconnectFails
  <2>1. Throw /\ masked' = FALSE /\ UNCHANGED <<stream, added>>
    BY <1>5 DEF ConnectFails, ReconnectFails, Hit
  <2>2. ctx' \in Context \cup {Unset}
    <3>1. \A e \in {"IO", "OTHER"} : [err |-> e, authed |-> FALSE, alive |-> FALSE] \in Context
      BY DEF Context, Err
    <3> QED
      BY <1>0, <1>5, <3>1, Zenon DEF ConnectFails, ReconnectFails, Shapes
  <2> QED
    BY <2>1, <2>2, Ends
<1>6. CASE Auth \/ Reauth
  <2>1. PICK label \in {"send", "resend"} : Authenticate(label) /\ pc \in {"auth", "reauth"}
    BY <1>6, Zenon DEF Auth, Reauth
  <2>2. /\ ctx' \in Context /\ masked' \in BOOLEAN /\ UNCHANGED <<stream, added>>
        /\ \/ Throw /\ ~masked'
           \/ Continue(label) /\ (masked' => masked /\ ctx'.err = "OK" /\ ctx'.alive /\ ctx'.authed)
    BY <2>1, AuthKeeps
  <2>3. CASE Throw /\ ~masked'
    BY <2>2, <2>3, Ends
  <2>4. CASE Continue(label) /\ (masked' => masked /\ ctx'.err = "OK" /\ ctx'.alive /\ ctx'.authed)
    <3>1. Maskable'
      BY <1>0, <2>1, <2>4 DEF Continue, Maskable
    <3> QED
      BY <2>1, <2>2, <2>4, <3>1, GoesOn DEF Pc
  <2> QED
    BY <2>2, <2>3, <2>4
<1>7. ASSUME NEW o \in redisCommand(ctx, ctx.authed), pc \in {"send", "resend"}, Ran(o), ctx' = o.ctx, RunOnServer(o),
             UNCHANGED added, Finish(o), masked' => ~Failed(o)
      PROVE  Inv'
  <2>1. o.ctx \in Context /\ masked' \in BOOLEAN
    BY <1>7, CommandKeeps
  <2>2. stream' \subseteq stream /\ stream \subseteq Entry
    BY <1>0, <1>7 DEF RunOnServer, Shapes
  <2>3. \/ Throw /\ ~masked'
        \/ \E c \in Seq(Packed(Entry)) : Return(c)
    <3>1. CASE Failed(o) /\ Throw
      BY <1>7, <3>1
    <3>2. CASE \E entries \in Xrange : Return(messagesFromReply(entries))
      BY <2>2, <3>2, FromReplyType
    <3>3. CASE Return(<<>>)
      BY <3>3, NoMessages
    <3> QED
      BY <1>7, <3>1, <3>2, <3>3, Zenon DEF Finish
  <2> QED
    BY <1>7, <2>1, <2>2, <2>3, Ends
<1>8. CASE Send
  <2>1. PICK o \in redisCommand(ctx, ctx.authed) :
          /\ Ran(o) /\ ctx' = o.ctx /\ RunOnServer(o)
          /\ IF MustRetry(o) THEN Continue("reconnect") ELSE Finish(o)
    BY <1>8, Zenon DEF Send
  <2>2. pc = "send" /\ UNCHANGED added
    BY <1>8 DEF Send
  <2>3. /\ o.ctx \in Context /\ masked' \in BOOLEAN
        /\ masked' => masked /\ (Failed(o) => pc = "send" /\ MustRetry(o))
    BY <2>1, <2>2, CommandKeeps
  <2>4. CASE MustRetry(o)
    <3>1. Continue("reconnect") /\ stream' \subseteq stream
      BY <2>1, <2>4 DEF RunOnServer
    <3>2. Maskable'
      BY <1>0, <2>2, <2>3, <3>1 DEF Continue, Maskable
    <3> QED
      BY <2>1, <2>2, <2>3, <3>1, <3>2, GoesOn DEF Pc
  <2>5. CASE ~MustRetry(o)
    BY <1>7, <2>1, <2>2, <2>3, <2>5
  <2> QED
    BY <2>4, <2>5
<1>9. CASE Resend
  <2>1. PICK o \in redisCommand(ctx, ctx.authed) : Ran(o) /\ ctx' = o.ctx /\ RunOnServer(o) /\ Finish(o)
    BY <1>9 DEF Resend
  <2>2. pc = "resend" /\ UNCHANGED added
    BY <1>9 DEF Resend
  <2>3. masked' => ~Failed(o)
    BY <2>1, <2>2, CommandKeeps
  <2> QED
    BY <1>7, <2>1, <2>2, <2>3
<1>10. CASE Drop
  <2>1. /\ ctx # Unset /\ ctx' = [ctx EXCEPT !.alive = FALSE] /\ UNCHANGED <<stream, added, pc, call, messages, result>>
        /\ masked' = (masked /\ pc \notin {"auth", "reauth", "resend"})
    BY <1>10 DEF Drop
  <2>2. ctx' \in Context /\ ctx'.err = ctx.err /\ ctx'.alive = FALSE
    BY <1>0, <2>1 DEF Shapes, Context
  <2>3. masked' \in BOOLEAN /\ (masked' => masked /\ pc \notin {"auth", "reauth", "resend"})
    BY <2>1, Zenon
  <2>4. Shapes'
    BY <1>0, <2>1, <2>2, <2>3 DEF Shapes
  <2>5. Maskable'
    BY <1>0, <2>1, <2>2, <2>3 DEF Maskable
  <2> QED
    BY <1>0, <2>1, <2>3, <2>4, <2>5 DEF Inv, LossMasked
<1>11. CASE UNCHANGED vars
  BY <1>0, <1>11 DEF vars, Inv, Shapes, Maskable, LossMasked
<1> QED
  BY <1>1, <1>2, <1>3, <1>4, <1>5, <1>6, <1>8, <1>9, <1>10, <1>11 DEF Next, Step

(* The invariant holds in every reachable state.                           *)
THEOREM InvHolds == Spec => []Inv
BY InvInit, InvNext, PTL DEF Spec

(* getNext() hides every connection that was lost while idle, by an        *)
(* earlier call, or under the first XRANGE: it reconnects and returns, in  *)
(* every order of calls and faults.                                        *)
THEOREM LossMaskedAlways == Spec => []LossMasked
<1>1. Inv => LossMasked
  BY DEF Inv
<1> QED
  BY InvHolds, <1>1, PTL

-----------------------------------------------------------------------------
(***************************************************************************)
(* Packed ids                                                              *)
(***************************************************************************)
(* An entry is packed into a message id without a loss: makeXdelCommand    *)
(* finds it again.                                                         *)
LEMMA Unpacks ==
  ASSUME NEW e \in Entry
  PROVE  /\ messageIdFromReply(e) = e[1] * 2^TimestampShift + e[2]
         /\ messageIdFromReply(e) \in Id
         /\ entryId(messageIdFromReply(e)) = e
<1> DEFINE M == 2^TimestampShift
           W == 2^IdBits
<1>1. e \in Nat \X Nat /\ e[2] <= M - 1 /\ e[1] * M + e[2] < W
  BY EntryAssumption DEF Fits, SequenceMask
<1>2. e[1] \in Nat /\ e[2] \in Nat /\ e = <<e[1], e[2]>>
  BY <1>1
<1>3. M \in Int /\ W \in Int
  BY WidthAssumption
<1>4. messageIdFromReply(e) = ((e[1] * M) % W) + e[2] /\ Id = 0 .. W - 1
  BY DEF messageIdFromReply, Id
<1>5. \A id : entryId(id) = <<id \div M, id % (M - 1 + 1)>>
  BY DEF entryId, SequenceMask
<1> HIDE DEF M, W
<1>6. M \in Nat \ {0} /\ e[1] * M \in Nat
  BY <1>1, <1>2, <1>3
<1>7. (e[1] * M) % W = e[1] * M
  BY <1>1, <1>2, <1>3, <1>6
<1>8. messageIdFromReply(e) = e[1] * M + e[2]
  BY <1>4, <1>7
<1>9. (e[1] * M + e[2]) \div M = e[1] /\ (e[1] * M + e[2]) % M = e[2]
  BY <1>1, <1>2, <1>6
<1>10. M - 1 + 1 = M
  BY <1>3
<1>11. entryId(messageIdFromReply(e)) = e
  BY <1>2, <1>5, <1>8, <1>9, <1>10
<1>12. messageIdFromReply(e) \in Id
  <2>1. e[1] * M + e[2] \in Nat /\ e[1] * M + e[2] <= W - 1
    BY <1>1, <1>2, <1>3, <1>6, SMTT(30)
  <2> QED
    BY <1>3, <1>4, <1>8, <2>1
<1> QED
  BY <1>8, <1>11, <1>12 DEF M

(* Packed ids are ordered as the entries are.                              *)
LEMMA PacksInOrder ==
  ASSUME NEW d \in Entry, NEW e \in Entry, Before(d, e)
  PROVE  messageIdFromReply(d) < messageIdFromReply(e)
<1> DEFINE M == 2^TimestampShift
<1>1. /\ d[1] \in Nat /\ d[2] \in Nat /\ d[2] <= M - 1
      /\ e[1] \in Nat /\ e[2] \in Nat /\ e[2] <= M - 1
  BY EntryAssumption DEF Fits, SequenceMask
<1>2. M \in Int
  BY WidthAssumption
<1>3. messageIdFromReply(d) = d[1] * M + d[2] /\ messageIdFromReply(e) = e[1] * M + e[2]
  BY Unpacks
<1> HIDE DEF M
<1>4. CASE d[1] < e[1]
  <2>1. (d[1] + 1) * M <= e[1] * M
    BY <1>1, <1>2, <1>4
  <2>2. (d[1] + 1) * M = d[1] * M + M
    BY <1>1, <1>2
  <2>3. d[1] * M \in Int /\ e[1] * M \in Int
    BY <1>1, <1>2
  <2> QED
    BY <1>1, <1>2, <1>3, <2>1, <2>2, <2>3
<1>5. CASE d[1] = e[1] /\ d[2] < e[2]
  <2>1. d[1] * M \in Int
    BY <1>1, <1>2
  <2> QED
    BY <1>1, <1>2, <1>3, <1>5, <2>1
<1> QED
  BY <1>4, <1>5 DEF Before

(* Deleting the entries that XDEL names deletes the messages.              *)
LEMMA XdelDeletes ==
  ASSUME stream \subseteq Entry, messages \in Seq(Packed(Entry))
  PROVE  Packed(stream \ Xdel) = Packed(stream) \ Range(messages)
<1>1. ASSUME NEW e \in stream
      PROVE  e \in Xdel <=> messageIdFromReply(e) \in Range(messages)
  <2>1. ASSUME messageIdFromReply(e) \in Range(messages)
        PROVE  e \in Xdel
    BY <2>1, Unpacks DEF Xdel
  <2>2. ASSUME e \in Xdel
        PROVE  messageIdFromReply(e) \in Range(messages)
    <3>1. PICK id \in Range(messages) : e = entryId(id)
      BY <2>2 DEF Xdel
    <3>2. id \in Packed(Entry)
      BY DEF Range
    <3>3. PICK d \in Entry : id = messageIdFromReply(d)
      BY <3>2 DEF Packed
    <3> QED
      BY <3>1, <3>3, Unpacks
  <2> QED
    BY <2>1, <2>2
<1>2. ASSUME NEW d \in stream, NEW e \in stream, messageIdFromReply(d) = messageIdFromReply(e)
      PROVE  d = e
  BY <1>2, Unpacks
<1> QED
  BY <1>1, <1>2 DEF Packed

(* What XRANGE returns is, packed, the chunk of the packed stream.         *)
LEMMA XrangeIsChunk ==
  ASSUME stream \subseteq Entry, NEW entries \in Xrange
  PROVE  messagesFromReply(entries) \in Chunks(Packed(stream))
<1> DEFINE c == messagesFromReply(entries)
<1>1. /\ entries \in Seq(stream) /\ Len(c) = Len(entries)
      /\ \A i \in 1 .. Len(entries) : c[i] = messageIdFromReply(entries[i])
      /\ c \in Seq(Packed(Entry))
  BY FromReplyType
<1>2. /\ Len(entries) <= ProducerChunk
      /\ \A i, j \in DOMAIN entries : i < j => Before(entries[i], entries[j])
      /\ \A e \in stream \ Range(entries) :
           Len(entries) = ProducerChunk /\ \A i \in DOMAIN entries : Before(entries[i], e)
  <2>1. PICK n \in 0 .. ProducerChunk : entries \in [1 .. n -> stream]
    BY ProducerChunkAssumption DEF Xrange, BoundedSeq, SeqOf
  <2>2. Len(entries) = n
    BY <2>1, ProducerChunkAssumption
  <2>3. Len(entries) <= ProducerChunk
    BY <2>1, <2>2, ProducerChunkAssumption
  <2> QED
    BY <2>3 DEF Xrange
<1> DEFINE n == Len(entries)
<1>3. n \in 0 .. ProducerChunk /\ DOMAIN entries = 1 .. n /\ DOMAIN c = 1 .. n /\ \A i \in 1 .. n : entries[i] \in stream
  BY <1>1, <1>2, ProducerChunkAssumption
<1>4. \A i \in 1 .. n : c[i] \in Packed(stream)
  BY <1>1, <1>3, Zenon DEF Packed
<1>5. c \in [1 .. n -> Packed(stream)]
  BY <1>1, <1>3, <1>4
<1>6. c \in BoundedSeq(Packed(stream), ProducerChunk)
  BY <1>3, <1>5 DEF BoundedSeq, SeqOf
<1>7. \A i, j \in DOMAIN c : i < j => c[i] < c[j]
  BY <1>1, <1>2, <1>3, PacksInOrder
<1>8. ASSUME NEW m \in Packed(stream) \ Range(c)
      PROVE  Len(c) = ProducerChunk /\ \A i \in DOMAIN c : c[i] < m
  <2>1. PICK e \in stream : m = messageIdFromReply(e)
    BY DEF Packed
  <2>2. e \notin Range(entries)
    <3>1. SUFFICES ASSUME e \in Range(entries) PROVE FALSE
      OBVIOUS
    <3>2. PICK i \in 1 .. n : entries[i] = e
      BY <1>3, <3>1 DEF Range
    <3>3. c[i] = m
      BY <1>1, <2>1, <3>2
    <3> QED
      BY <1>3, <1>8, <3>2, <3>3 DEF Range
  <2> QED
    BY <1>1, <1>2, <1>3, <2>1, <2>2, PacksInOrder
<1> HIDE DEF c
<1>9. c \in Chunks(Packed(stream))
  BY <1>6, <1>7, <1>8, Zenon DEF Chunks
<1> QED
  BY <1>9 DEF c

-----------------------------------------------------------------------------
(***************************************************************************)
(* The producer that the run loop expects                                  *)
(***************************************************************************)
(* The first state is one of the abstract producer.                        *)
LEMMA InitRefines == Init => Abstract!Init
BY DEF Init, Abstract!Init

(* The command of a call that does not end deletes the chunk, or nothing.  *)
LEMMA ServerRefines ==
  ASSUME Inv, NEW o, RunOnServer(o)
  PROVE  \/ call = "markConsumed" /\ o.done /\ Packed(stream') = Packed(stream) \ Range(messages)
         \/ ~(call = "markConsumed" /\ o.done) /\ Packed(stream') = Packed(stream)
<1>1. Packed(stream \ Xdel) = Packed(stream) \ Range(messages)
  BY XdelDeletes DEF Inv, Shapes
<1> QED
  BY <1>1, Zenon DEF RunOnServer

(* A command that ends a call ends it as the abstract producer would.      *)
LEMMA FinishRefines ==
  ASSUME Inv, pc \in {"send", "resend"}, NEW o \in redisCommand(ctx, ctx.authed), Ran(o), RunOnServer(o), Finish(o)
  PROVE  Abstract!Next
<1>1. ~Failed(o) => o.done
  BY CommandKeeps
<1>2. call # "none" /\ stream \subseteq Entry
  BY DEF Inv, Shapes
<1>3. CASE Failed(o) /\ Throw
  <2>1. Abstract!Throw
    BY <1>2, <1>3, ServerRefines DEF Throw, Packed, Range, Abstract!Throw, Abstract!Range
  <2> QED
    BY <2>1 DEF Abstract!Next
<1>4. ASSUME ~Failed(o), call = "getNext", NEW entries \in Xrange, Return(messagesFromReply(entries))
      PROVE  Abstract!Next
  <2>1. messages' \in Chunks(Packed(stream))
    BY <1>2, <1>4, XrangeIsChunk DEF Return
  <2>2. Chunks(Packed(stream)) = Abstract!Chunks(Packed(stream))
    BY DEF Chunks, BoundedSeq, SeqOf, Range, Abstract!Chunks, Abstract!BoundedSeq, Abstract!SeqOf, Abstract!Range
  <2>3. Packed(stream') = Packed(stream)
    BY <1>4, ServerRefines
  <2>4. Abstract!GetNext
    BY <1>4, <2>1, <2>2, <2>3 DEF Return, Packed, Abstract!GetNext
  <2> QED
    BY <2>4 DEF Abstract!Next
<1>5. CASE ~Failed(o) /\ call = "markConsumed" /\ Return(<<>>)
  <2>1. Packed(stream') = Packed(stream) \ Range(messages)
    BY <1>1, <1>5, ServerRefines
  <2>2. Abstract!MarkConsumed
    BY <1>5, <2>1 DEF Return, Packed, Range, Abstract!MarkConsumed, Abstract!Range
  <2> QED
    BY <2>2 DEF Abstract!Next
<1> QED
  BY <1>3, <1>4, <1>5, Zenon DEF Finish

(* Every step is one of the abstract producer, or none.                    *)
LEMMA NextRefines == Inv /\ [Next]_vars => [Abstract!Next]_(Abstract!vars)
<1> SUFFICES ASSUME Inv, [Next]_vars PROVE Abstract!Next \/ UNCHANGED Abstract!vars
  OBVIOUS
<1>0. Shapes
  BY DEF Inv
<1>1. CASE Produce
  <2>1. PICK e \in Entry : (\A d \in added : Before(d, e)) /\ stream' = stream \cup {e}
    BY <1>1 DEF Produce
  <2>2. UNCHANGED <<call, messages, result>>
    BY <1>1 DEF Produce
  <2>3. messageIdFromReply(e) \in Id /\ messageIdFromReply(e) \notin Packed(stream)
    <3>1. \A d \in stream : /\ d \in Entry /\ messageIdFromReply(d) < messageIdFromReply(e)
                           /\ messageIdFromReply(d) \in Id /\ messageIdFromReply(e) \in Id
      BY <1>0, <2>1, PacksInOrder, Unpacks DEF Shapes
    <3>2. Id \subseteq Int
      BY WidthAssumption DEF Id
    <3> QED
      BY <3>1, <3>2, Unpacks DEF Packed
  <2>4. Packed(stream') = Packed(stream) \cup {messageIdFromReply(e)}
    BY <2>1 DEF Packed
  <2>5. Abstract!Produce
    BY <2>2, <2>3, <2>4 DEF Packed, Abstract!Produce
  <2> QED
    BY <2>5 DEF Abstract!Next
<1>2. CASE Call
  BY <1>2 DEF Call, Abstract!Call, Abstract!Next
<1>3. CASE ConsumerThrows
  BY <1>3 DEF ConsumerThrows, Abstract!Forget, Abstract!Next
<1>4. CASE Connect \/ Reconnect
  BY <1>4 DEF Connect, Reconnect, Continue, Abstract!vars
<1>5. ASSUME Throw, pc # "idle", UNCHANGED stream
      PROVE  Abstract!Next
  BY <1>0, <1>5 DEF Shapes, Throw, Abstract!Throw, Abstract!Next
<1>6. CASE ConnectFails \/ ReconnectFails
  BY <1>5, <1>6 DEF ConnectFails, ReconnectFails
<1>7. CASE Auth \/ Reauth
  <2>1. PICK label : Authenticate(label) /\ pc \in {"auth", "reauth"}
    BY <1>7 DEF Auth, Reauth
  <2>2. UNCHANGED stream /\ (Throw \/ Continue(label))
    BY <2>1, AuthKeeps
  <2>3. CASE Throw
    BY <1>5, <2>1, <2>2, <2>3
  <2>4. CASE Continue(label)
    BY <2>2, <2>4 DEF Continue, Abstract!vars
  <2> QED
    BY <2>2, <2>3, <2>4
<1>8. CASE Send
  <2>1. PICK o \in redisCommand(ctx, ctx.authed) :
          /\ Ran(o) /\ RunOnServer(o)
          /\ IF MustRetry(o) THEN Continue("reconnect") ELSE Finish(o)
    BY <1>8, Zenon DEF Send
  <2>2. pc = "send"
    BY <1>8 DEF Send
  <2>3. CASE MustRetry(o)
    <3>1. UNCHANGED <<call, messages, result>>
      BY <2>1, <2>3 DEF Continue
    <3>2. CASE Packed(stream') = Packed(stream)
      BY <3>1, <3>2 DEF Packed, Abstract!vars
    <3>3. CASE call = "markConsumed" /\ Packed(stream') = Packed(stream) \ Range(messages)
      BY <3>1, <3>3 DEF Packed, Range, Abstract!Delete, Abstract!Range, Abstract!Next
    <3> QED
      BY <2>1, <3>2, <3>3, ServerRefines
  <2>4. CASE ~MustRetry(o)
    BY <2>1, <2>2, <2>4, FinishRefines
  <2> QED
    BY <2>3, <2>4
<1>9. CASE Resend
  BY <1>9, FinishRefines DEF Resend
<1>10. CASE Drop
  BY <1>10 DEF Drop, Abstract!vars
<1>11. CASE UNCHANGED vars
  BY <1>11 DEF vars, Abstract!vars
<1> QED
  BY <1>1, <1>2, <1>3, <1>4, <1>6, <1>7, <1>8, <1>9, <1>10, <1>11 DEF Next, Step

(* The producer keeps its promise to the run loop although it knows an     *)
(* entry by its packed id only: getNext() returns the oldest messages or   *)
(* throws and changes nothing, markConsumed() deletes exactly the chunk,   *)
(* all of it or, when it throws, perhaps nothing.                          *)
THEOREM RedisProducerRefines == Spec => ProducerSpec
<1>1. Inv /\ [Next]_vars => [Abstract!Next]_(Abstract!vars)
  BY NextRefines
<1> QED
  BY InitRefines, InvHolds, <1>1, PTL DEF Spec, ProducerSpec, Abstract!Spec
=============================================================================
