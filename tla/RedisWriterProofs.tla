------------------------- MODULE RedisWriterProofs -------------------------
(***************************************************************************)
(* Proofs about RedisWriter for any number of workers, contexts and        *)
(* faults.                                                                 *)
(***************************************************************************)
EXTENDS RedisWriter, TLAPS

(* The outcomes of a command without a fault, by the state of its context. *)
Clean(c, allowed, o) ==
  \/ c.err # "OK" /\ o.ctx = c /\ o.reply = "null" /\ ~o.done
  \/ c.err = "OK" /\ ~c.alive /\ o.ctx.err \in Lost /\ o.reply = "null" /\ ~o.done
  \/ c.err = "OK" /\ c.alive /\ allowed /\ o.ctx = c /\ o.reply = "ok" /\ o.done
  \/ c.err = "OK" /\ c.alive /\ ~allowed /\ o.ctx = c /\ o.reply = "error" /\ ~o.done

(* A fault never looks like a success: the reply is an error, or there is  *)
(* none and the context says why.                                          *)
LEMMA MishapOutcome ==
  ASSUME NEW c \in Context, NEW allowed \in BOOLEAN, NEW o \in Mishaps(c, allowed)
  PROVE  o.fault /\ o.ctx \in Context /\ (o.reply = "error" \/ o.ctx.err # "OK")
<1>1. ASSUME NEW e \in Err PROVE [c EXCEPT !.err = e] \in Context /\ [c EXCEPT !.err = e].err = e
  BY DEF Context
<1>2. ASSUME NEW e \in Err PROVE [c EXCEPT !.err = e, !.alive = FALSE] \in Context /\ [c EXCEPT !.err = e, !.alive = FALSE].err = e
  BY DEF Context
<1>3. ASSUME NEW x \in Context, x.err # "OK", o \in NoReply(x, allowed)
      PROVE  o.fault /\ o.ctx \in Context /\ o.ctx.err # "OK"
  <2>1. PICK d \in {FALSE, allowed} : o = Outcome(x, "null", d, TRUE)
    BY <1>3, Zenon DEF NoReply
  <2>2. o.fault /\ o.ctx = x
    BY <2>1, Zenon DEF Outcome
  <2> QED
    BY <1>3, <2>2, Zenon
<1>4. ASSUME NEW e \in Lost, o \in NoReply([c EXCEPT !.err = e, !.alive = FALSE], allowed)
      PROVE  o.fault /\ o.ctx \in Context /\ o.ctx.err # "OK"
  <2>1. e \in Err /\ e # "OK"
    BY DEF Lost, Err
  <2> QED
    BY <1>2, <1>3, <1>4, <2>1, Zenon
<1>5. ASSUME o \in NoReply([c EXCEPT !.err = "OTHER"], allowed)
      PROVE  o.fault /\ o.ctx \in Context /\ o.ctx.err # "OK"
  <2>1. "OTHER" \in Err /\ "OTHER" # "OK"
    BY DEF Err
  <2> QED
    BY <1>1, <1>3, <1>5, <2>1, Zenon
<1>6. ASSUME o = Outcome(c, "error", FALSE, TRUE)
      PROVE  o.fault /\ o.ctx \in Context /\ o.reply = "error"
  BY <1>6, Zenon DEF Outcome
<1> DEFINE Broken == UNION {NoReply([c EXCEPT !.err = e, !.alive = FALSE], allowed) : e \in Lost}
           Garbled == NoReply([c EXCEPT !.err = "OTHER"], allowed)
           Refused == Outcome(c, "error", FALSE, TRUE)
<1>7. ASSUME o \in Broken PROVE o.fault /\ o.ctx \in Context /\ o.ctx.err # "OK"
  <2>1. PICK e \in Lost : o \in NoReply([c EXCEPT !.err = e, !.alive = FALSE], allowed)
    BY <1>7, Zenon
  <2> QED
    BY <1>4, <2>1, Zenon
<1>8. o \in Broken \cup Garbled \cup {Refused}
  BY Zenon DEF Mishaps
<1>9. o \in Broken \/ o \in Garbled \/ o = Refused
  <2> HIDE DEF Broken, Garbled, Refused
  <2> QED
    BY <1>8
<1>10. o.fault /\ o.ctx \in Context /\ (o.reply = "error" \/ o.ctx.err # "OK")
  <2> HIDE DEF Broken
  <2> QED
    BY <1>5, <1>6, <1>7, <1>9, Zenon
<1> QED
  BY <1>10, Zenon

(* A command leaves a context; without a fault its outcome is determined   *)
(* by the state of the context, with one it never looks like a success.    *)
LEMMA CommandOutcome ==
  ASSUME NEW c \in Context, NEW allowed \in BOOLEAN, NEW o \in redisCommand(c, allowed)
  PROVE  /\ o.ctx \in Context
         /\ o.fault \/ Clean(c, allowed, o)
         /\ o.fault => o.reply = "error" \/ o.ctx.err # "OK"
<1>1. ASSUME NEW e \in Err PROVE [c EXCEPT !.err = e] \in Context /\ [c EXCEPT !.err = e].err = e
  BY DEF Context
<1>2. CASE o \in Answers(c, allowed)
  <2>1. CASE c.err # "OK"
    <3>1. o = Outcome(c, "null", FALSE, FALSE)
      BY <1>2, <2>1 DEF Answers
    <3> QED
      BY <2>1, <3>1, Zenon DEF Outcome, Clean
  <2>2. CASE c.err = "OK" /\ ~c.alive
    <3>1. PICK e \in Lost : o = Outcome([c EXCEPT !.err = e], "null", FALSE, FALSE)
      BY <1>2, <2>2 DEF Answers
    <3>2. e \in Err
      BY DEF Lost, Err
    <3> QED
      BY <1>1, <2>2, <3>1, <3>2, Zenon DEF Outcome, Clean
  <2>3. CASE c.err = "OK" /\ c.alive /\ allowed
    <3>1. o = Outcome(c, "ok", TRUE, FALSE)
      BY <1>2, <2>3, Zenon DEF Answers
    <3> QED
      BY <2>3, <3>1, Zenon DEF Outcome, Clean
  <2>4. CASE c.err = "OK" /\ c.alive /\ ~allowed
    <3>1. o = Outcome(c, "error", FALSE, FALSE)
      BY <1>2, <2>4, Zenon DEF Answers
    <3> QED
      BY <2>4, <3>1, Zenon DEF Outcome, Clean
  <2> QED
    BY <2>1, <2>2, <2>3, <2>4
<1>3. CASE o \in Mishaps(c, allowed)
  BY <1>3, MishapOutcome
<1> QED
  BY <1>2, <1>3 DEF redisCommand
-----------------------------------------------------------------------------

(* Where a call has a context of its own that is not in connections_ yet,  *)
(* and where it uses its entry of connections_.                            *)
Fresh == {"auth", "push"}
Pooled == {"send", "reconnect", "reauth", "resend"}

(* What makes Exclusive inductive: a call that makes a context has no      *)
(* entry, and its context is nobody else's.                                *)
OwnContext ==
  /\ \A t \in Thread : pc[t] \in Fresh \cup {"create"} =>
       \A i \in DOMAIN connections : connections[i].threadId # t
  /\ \A t \in Thread : pc[t] \in Fresh =>
       \A i \in DOMAIN connections : connections[i].connection # conn[t]
  /\ \A t, u \in Thread : t # u /\ pc[t] \in Fresh /\ pc[u] \in Fresh => conn[t] # conn[u]

(* How many copies a call in progress can have stored.                     *)
CopiesSoFar ==
  \A t \in Thread :
    /\ pc[t] \in Fresh \cup {"find", "create", "send"} => copies[t] = 0
    /\ pc[t] \in {"reconnect", "reauth", "resend"} => copies[t] <= 1

PoolInv == Exclusive /\ NoLeak /\ OwnContext

(* The context of a call that has one is allocated, and nobody else's.     *)
LEMMA InUse ==
  ASSUME TypeOK, PoolInv, NEW t \in Thread, pc[t] \in Fresh \cup Pooled
  PROVE  /\ conn[t] \in Allocated /\ conn[t] \in Ctx /\ ctx[conn[t]] \in Context
         /\ \A u \in Thread \ {t} : pc[u] \in Fresh \cup Pooled => conn[u] # conn[t]
<1> USE DEF PoolInv, Exclusive, OwnContext, NoLeak, Fresh, Pooled
<1>1. conn[t] \in Ctx
  BY DEF TypeOK
<1>2. conn[t] \in Allocated
  <2>1. CASE pc[t] \in Pooled
    BY <2>1 DEF InPool
  <2>2. CASE pc[t] \in Fresh
    BY <2>2
  <2> QED
    BY <2>1, <2>2
<1>3. ctx[conn[t]] \in Context
  BY <1>1, <1>2 DEF Allocated, TypeOK
<1>4. ASSUME NEW u \in Thread \ {t}, pc[u] \in Fresh \cup Pooled PROVE conn[u] # conn[t]
  <2>1. CASE pc[t] \in Fresh /\ pc[u] \in Fresh
    BY <2>1
  <2>2. CASE pc[t] \in Fresh /\ pc[u] \in Pooled
    <3>1. PICK i \in DOMAIN connections : connections[i] = [threadId |-> u, connection |-> conn[u]]
      BY <2>2
    <3> QED
      BY <2>2, <3>1
  <2>3. CASE pc[t] \in Pooled /\ pc[u] \in Fresh
    <3>1. PICK i \in DOMAIN connections : connections[i] = [threadId |-> t, connection |-> conn[t]]
      BY <2>3
    <3> QED
      BY <2>3, <3>1
  <2>4. CASE pc[t] \in Pooled /\ pc[u] \in Pooled
    <3>1. PICK i \in DOMAIN connections : connections[i] = [threadId |-> t, connection |-> conn[t]]
      BY <2>4
    <3>2. PICK j \in DOMAIN connections : connections[j] = [threadId |-> u, connection |-> conn[u]]
      BY <2>4
    <3> QED
      BY <3>1, <3>2
  <2> QED
    BY <1>4, <2>1, <2>2, <2>3, <2>4
<1> QED
  BY <1>1, <1>2, <1>3, <1>4

(* An element of a sequence over S is in S.                                *)
LEMMA EntryType == ASSUME NEW S, NEW q \in Seq(S), NEW i \in DOMAIN q PROVE q[i] \in S
OBVIOUS

(* Free is no context.                                                     *)
LEMMA FreeIsNone == Free \notin Context
BY DEF Free, Context, Err

(* A context that is replaced by a context stays allocated.                *)
LEMMA AllocatedKept ==
  ASSUME TypeOK, NEW c \in Allocated, NEW x \in Context, ctx' = [ctx EXCEPT ![c] = x]
  PROVE  Allocated' = Allocated
BY FreeIsNone DEF TypeOK, Allocated

(* Steps that leave the pool, its contexts and everyone's place in it.     *)
LEMMA PoolKept ==
  ASSUME PoolInv, UNCHANGED <<connections, conn>>, Allocated' = Allocated,
         \A u \in Thread :
           /\ pc'[u] \in Fresh <=> pc[u] \in Fresh
           /\ pc'[u] \in Pooled => pc[u] \in Pooled
           /\ pc'[u] = "create" => pc[u] = "create"
  PROVE  PoolInv'
<1>1. Exclusive'
  BY DEF PoolInv, Exclusive, Pooled
<1>2. OwnContext'
  BY DEF PoolInv, OwnContext
<1>3. NoLeak'
  <2>1. InPool' = InPool
    BY DEF InPool
  <2>2. {u \in Thread : pc'[u] \in {"auth", "push"}} = {u \in Thread : pc[u] \in {"auth", "push"}}
    BY DEF Fresh
  <2> QED
    BY <2>1, <2>2 DEF PoolInv, NoLeak
<1> QED
  BY <1>1, <1>2, <1>3 DEF PoolInv

(* The search of findConnection() finds the one entry of its thread.       *)
LEMMA EntryIsOne ==
  ASSUME TypeOK, PoolInv, NEW t \in Thread, Entry(t) # {}
  PROVE  /\ Min(Entry(t)) \in DOMAIN connections
         /\ connections[Min(Entry(t))].threadId = t
         /\ connections[Min(Entry(t))].connection \in Ctx
<1>1. PICK i \in DOMAIN connections : connections[i].threadId = t
  BY DEF Entry
<1>2. Entry(t) = {i}
  BY <1>1 DEF Entry, PoolInv, Exclusive
<1>3. Min({i}) = i
  BY <1>1 DEF Min, TypeOK
<1>4. connections[i] \in [threadId : Thread, connection : Ctx]
  BY <1>1, EntryType DEF TypeOK
<1> QED
  BY <1>1, <1>2, <1>3, <1>4

(* What an XADD leaves.                                                    *)
LEMMA XaddOutcome ==
  ASSUME TypeOK, PoolInv, NEW t \in Thread, pc[t] \in Pooled, NEW o \in Xadds(t)
  PROVE  /\ o.ctx \in Context
         /\ o.fault \/ Clean(ctx[conn[t]], ctx[conn[t]].authed, o)
         /\ o.fault => o.reply = "error" \/ o.ctx.err # "OK"
<1>1. ctx[conn[t]] \in Context
  BY InUse
<1>2. ctx[conn[t]].authed \in BOOLEAN
  BY <1>1 DEF Context
<1> QED
  BY <1>1, <1>2, CommandOutcome DEF Xadds

(* What an AUTH after a reconnect leaves.                                  *)
LEMMA ReauthContext ==
  ASSUME TypeOK, PoolInv, NEW t \in Thread, pc[t] \in Pooled, NEW o \in redisCommand(ctx[conn[t]], TRUE)
  PROVE  [o.ctx EXCEPT !.authed = Accepted(o)] \in Context
<1>1. o.ctx \in Context
  BY InUse, CommandOutcome
<1>2. Accepted(o) \in BOOLEAN
  BY Zenon DEF Accepted
<1> QED
  BY <1>1, <1>2 DEF Context

(* Every step keeps the pool in order.                                     *)
LEMMA NextPool == TypeOK /\ PoolInv /\ [Next]_vars => PoolInv'
<1> SUFFICES ASSUME TypeOK, PoolInv, [Next]_vars PROVE PoolInv'
  OBVIOUS
<1> USE DEF Fresh, Pooled
<1>0. /\ pc \in [Thread -> Pc] /\ conn \in [Thread -> Ctx \cup {Null}]
      /\ ctx \in [Ctx -> Context \cup {Free}]
      /\ connections \in Seq([threadId : Thread, connection : Ctx])
  BY DEF TypeOK
<1>1. ASSUME UNCHANGED ctx PROVE Allocated' = Allocated
  BY <1>1 DEF Allocated
<1>2. ASSUME NEW t \in Thread, Write(t) \/ ConnectFails(t) PROVE PoolInv'
  <2>1. /\ UNCHANGED <<connections, conn, ctx>>
        /\ \/ pc[t] = "idle" /\ pc' = [pc EXCEPT ![t] = "find"]
           \/ pc[t] = "create" /\ pc' = [pc EXCEPT ![t] = "idle"]
    BY <1>2 DEF Write, ConnectFails, Return, Goto
  <2> QED
    BY <1>0, <1>1, <2>1, PoolKept
<1>3. ASSUME NEW t \in Thread, NEW x \in Context, NEW label \in Pooled \cup {"idle"}, pc[t] \in Pooled,
             ctx' = [ctx EXCEPT ![conn[t]] = x], pc' = [pc EXCEPT ![t] = label],
             UNCHANGED <<connections, conn>>
      PROVE  PoolInv'
  <2>1. Allocated' = Allocated
    BY <1>3, InUse, AllocatedKept
  <2> QED
    BY <1>0, <1>3, <2>1, PoolKept
<1>4. ASSUME NEW t \in Thread, Find(t) PROVE PoolInv'
  <2>1. /\ UNCHANGED <<ctx, connections>> /\ pc[t] = "find"
        /\ \A u \in Thread \ {t} : pc'[u] = pc[u] /\ conn'[u] = conn[u]
        /\ pc'[t] \in {"send", "create"}
    BY <1>0, <1>4 DEF Find, Goto
  <2>2. NoLeak'
    <3>1. InPool' = InPool /\ Allocated' = Allocated
      BY <1>1, <2>1 DEF InPool
    <3>2. {conn'[u] : u \in {v \in Thread : pc'[v] \in {"auth", "push"}}}
            = {conn[u] : u \in {v \in Thread : pc[v] \in {"auth", "push"}}}
      BY <2>1
    <3> QED
      BY <3>1, <3>2 DEF NoLeak, PoolInv
  <2>3. CASE Entry(t) # {}
    <3> DEFINE i == Min(Entry(t))
    <3>1. i \in DOMAIN connections /\ connections[i].threadId = t
      BY <2>3, EntryIsOne
    <3>4. pc'[t] = "send" /\ conn'[t] = connections[i].connection
      BY <1>0, <1>4, <2>3 DEF Find, Goto
    <3> HIDE DEF i
    <3>5. connections[i] = [threadId |-> t, connection |-> conn'[t]]
      <4>1. connections[i] \in [threadId : Thread, connection : Ctx]
        BY <1>0, <3>1, EntryType
      <4>2. connections[i] = [threadId |-> connections[i].threadId, connection |-> connections[i].connection]
        BY <4>1
      <4> QED
        BY <3>1, <3>4, <4>2
    <3>6. Exclusive'
      <4>1. ASSUME NEW u \in Thread, pc'[u] \in Pooled
            PROVE  \E j \in DOMAIN connections : connections[j] = [threadId |-> u, connection |-> conn'[u]]
        <5>1. CASE u = t
          BY <3>1, <3>5, <5>1
        <5>2. CASE u # t
          BY <2>1, <4>1, <5>2 DEF PoolInv, Exclusive
        <5> QED
          BY <5>1, <5>2
      <4> QED
        BY <2>1, <4>1 DEF PoolInv, Exclusive
    <3>7. OwnContext'
      BY <2>1, <3>4 DEF PoolInv, OwnContext
    <3> QED
      BY <2>2, <3>6, <3>7 DEF PoolInv
  <2>4. CASE Entry(t) = {}
    <3>1. pc'[t] = "create" /\ \A i \in DOMAIN connections : connections[i].threadId # t
      BY <1>0, <1>4, <2>4 DEF Find, Goto, Entry
    <3>2. Exclusive'
      BY <2>1, <3>1 DEF PoolInv, Exclusive
    <3>3. OwnContext'
      BY <2>1, <3>1 DEF PoolInv, OwnContext
    <3> QED
      BY <2>2, <3>2, <3>3 DEF PoolInv
  <2> QED
    BY <2>3, <2>4
<1>5. ASSUME NEW t \in Thread, Connect(t) PROVE PoolInv'
  <2>1. PICK c \in Ctx \ Allocated :
          ctx' = [ctx EXCEPT ![c] = Connected] /\ conn' = [conn EXCEPT ![t] = c]
    BY <1>5 DEF Connect
  <2>2. /\ pc[t] = "create" /\ pc' = [pc EXCEPT ![t] = "auth"] /\ UNCHANGED connections
    BY <1>5 DEF Connect, Goto
  <2>3. Allocated' = Allocated \cup {c}
    <3>1. Connected \in Context
      BY DEF Connected, Context, Err
    <3> QED
      BY <1>0, <2>1, <3>1, FreeIsNone DEF Allocated
  <2>4. \A i \in DOMAIN connections : connections[i].connection # c
    BY <2>1 DEF PoolInv, NoLeak, InPool
  <2>5. \A u \in Thread \ {t} : pc[u] \in Fresh => conn[u] # c
    BY <2>1, InUse
  <2>6. OwnContext'
    BY <1>0, <2>1, <2>2, <2>4, <2>5 DEF PoolInv, OwnContext
  <2>7. Exclusive'
    BY <1>0, <2>1, <2>2 DEF PoolInv, Exclusive
  <2>8. NoLeak'
    <3>1. {conn'[u] : u \in {v \in Thread : pc'[v] \in {"auth", "push"}}}
            = {conn[u] : u \in {v \in Thread : pc[v] \in {"auth", "push"}}} \cup {c}
      BY <1>0, <2>1, <2>2
    <3>2. InPool' = InPool
      BY <2>2 DEF InPool
    <3> QED
      BY <2>3, <3>1, <3>2 DEF PoolInv, NoLeak
  <2> QED
    BY <2>6, <2>7, <2>8 DEF PoolInv
<1>6. ASSUME NEW t \in Thread, CreateAuth(t) PROVE PoolInv'
  <2>1. pc[t] = "auth" /\ UNCHANGED <<connections, conn>>
    BY <1>6 DEF CreateAuth
  <2>2. conn[t] \in Allocated /\ conn[t] \in Ctx /\ ctx[conn[t]] \in Context
    BY <2>1, InUse
  <2>3. PICK o \in redisCommand(ctx[conn[t]], TRUE) :
          \/ /\ ctx' = [ctx EXCEPT ![conn[t]] = [o.ctx EXCEPT !.authed = TRUE]]
             /\ Goto(t, "push")
          \/ /\ Discard(t, o)
             /\ Return(t, "STORAGE_UNAVAILABLE")
    BY <1>6 DEF CreateAuth
  <2>4. CASE ctx' = [ctx EXCEPT ![conn[t]] = [o.ctx EXCEPT !.authed = TRUE]] /\ Goto(t, "push")
    <3>1. [o.ctx EXCEPT !.authed = TRUE] \in Context
      BY <2>2, CommandOutcome DEF Context
    <3>2. Allocated' = Allocated
      BY <2>2, <2>4, <3>1, AllocatedKept
    <3> QED
      BY <1>0, <2>1, <2>4, <3>2, PoolKept DEF Goto
  <2>5. CASE Discard(t, o) /\ Return(t, "STORAGE_UNAVAILABLE")
    <3>1. Allocated' = Allocated \ {conn[t]}
      BY <1>0, <2>2, <2>5 DEF Discard, Allocated
    <3>2. pc' = [pc EXCEPT ![t] = "idle"]
      BY <2>5 DEF Return, Goto
    <3>3. OwnContext' /\ Exclusive'
      BY <1>0, <2>1, <3>2 DEF PoolInv, OwnContext, Exclusive
    <3>4. conn[t] \notin InPool /\ InPool' = InPool
      BY <2>1 DEF PoolInv, OwnContext, InPool
    <3>5. {conn'[u] : u \in {v \in Thread : pc'[v] \in {"auth", "push"}}}
            = {conn[u] : u \in {v \in Thread : pc[v] \in {"auth", "push"}}} \ {conn[t]}
      BY <1>0, <2>1, <3>2 DEF PoolInv, OwnContext
    <3> QED
      BY <3>1, <3>3, <3>4, <3>5 DEF PoolInv, NoLeak
  <2> QED
    BY <2>3, <2>4, <2>5
<1>7. ASSUME NEW t \in Thread, Push(t) PROVE PoolInv'
  <2> DEFINE e == [threadId |-> t, connection |-> conn[t]]
             n == Len(connections) + 1
  <2>1. /\ pc[t] = "push" /\ pc' = [pc EXCEPT ![t] = "send"] /\ UNCHANGED <<ctx, conn>>
        /\ connections' = Append(connections, e)
    BY <1>7 DEF Push, Goto
  <2>2. conn[t] \in Ctx
    BY <2>1, InUse
  <2>3. /\ DOMAIN connections = 1 .. Len(connections) /\ DOMAIN connections' = 1 .. n
        /\ connections'[n] = e /\ n \notin DOMAIN connections
        /\ DOMAIN connections' = DOMAIN connections \cup {n}
        /\ \A i \in DOMAIN connections : connections'[i] = connections[i]
    BY <1>0, <2>1, <2>2
  <2>4. \A i \in DOMAIN connections :
          connections[i].threadId # t /\ connections[i].connection # conn[t]
    BY <2>1 DEF PoolInv, OwnContext
  <2>5. e.threadId = t /\ e.connection = conn[t]
    OBVIOUS
  <2> HIDE DEF e, n
  <2>6. Exclusive'
    <3>1. ASSUME NEW i \in DOMAIN connections', NEW j \in DOMAIN connections', i # j
          PROVE  /\ connections'[i].threadId # connections'[j].threadId
                 /\ connections'[i].connection # connections'[j].connection
      <4>1. CASE i = n
        BY <2>3, <2>4, <2>5, <3>1, <4>1
      <4>2. CASE j = n
        BY <2>3, <2>4, <2>5, <3>1, <4>2
      <4>3. CASE i # n /\ j # n
        BY <2>3, <3>1, <4>3, ZenonT(30) DEF PoolInv, Exclusive
      <4> QED
        BY <4>1, <4>2, <4>3
    <3>2. ASSUME NEW u \in Thread, pc'[u] \in Pooled
          PROVE  \E j \in DOMAIN connections' : connections'[j] = [threadId |-> u, connection |-> conn'[u]]
      <4>1. CASE u = t
        BY <2>1, <2>3, <4>1 DEF e
      <4>2. CASE u # t
        <5>1. PICK j \in DOMAIN connections : connections[j] = [threadId |-> u, connection |-> conn[u]]
          BY <1>0, <2>1, <3>2, <4>2 DEF PoolInv, Exclusive
        <5> QED
          BY <2>1, <2>3, <5>1
      <4> QED
        BY <4>1, <4>2
    <3> QED
      BY <3>1, <3>2 DEF Exclusive
  <2>7. OwnContext'
    <3>1. \A u \in Thread : pc'[u] \in Fresh \cup {"create"} => u # t /\ pc[u] = pc'[u]
      BY <1>0, <2>1
    <3>2. \A u \in Thread \ {t} : pc[u] \in Fresh => conn[u] # conn[t]
      BY <2>1 DEF PoolInv, OwnContext
    <3> QED
      BY <2>1, <2>3, <2>5, <3>1, <3>2 DEF PoolInv, OwnContext
  <2>8. NoLeak'
    <3>1. InPool' = InPool \cup {conn[t]}
      <4>1. conn[t] = connections'[n].connection /\ n \in DOMAIN connections'
        BY <2>3, <2>5
      <4>2. \A i \in DOMAIN connections : connections'[i].connection = connections[i].connection
        BY <2>3
      <4> QED
        BY <2>3, <4>1, <4>2 DEF InPool
    <3>2. Allocated' = Allocated
      BY <1>1, <2>1
    <3>3. {conn'[u] : u \in {v \in Thread : pc'[v] \in {"auth", "push"}}} \cup {conn[t]}
            = {conn[u] : u \in {v \in Thread : pc[v] \in {"auth", "push"}}}
      BY <1>0, <2>1
    <3> QED
      BY <3>1, <3>2, <3>3 DEF PoolInv, NoLeak
  <2> QED
    BY <2>6, <2>7, <2>8 DEF PoolInv
<1>8. ASSUME NEW t \in Thread, Send(t) \/ Resend(t) PROVE PoolInv'
  <2>1. pc[t] \in Pooled /\ UNCHANGED <<connections, conn>>
    BY <1>8 DEF Send, Resend
  <2>2. PICK o \in Xadds(t) :
          /\ ctx' = [ctx EXCEPT ![conn[t]] = o.ctx]
          /\ \E label \in {"reconnect", "idle"} : pc' = [pc EXCEPT ![t] = label]
    BY <1>8 DEF Send, Resend, Added, Return, Goto
  <2>3. o.ctx \in Context
    BY <2>1, XaddOutcome
  <2> QED
    BY <1>3, <2>1, <2>2, <2>3
<1>9. ASSUME NEW t \in Thread, Reauth(t) PROVE PoolInv'
  <2>1. pc[t] \in Pooled /\ UNCHANGED <<connections, conn>>
    BY <1>9 DEF Reauth
  <2>2. PICK o \in redisCommand(ctx[conn[t]], TRUE) :
          /\ ctx' = [ctx EXCEPT ![conn[t]] = [o.ctx EXCEPT !.authed = Accepted(o)]]
          /\ \E label \in {"resend", "idle"} : pc' = [pc EXCEPT ![t] = label]
    BY <1>9 DEF Reauth, Retry, Return, Goto
  <2>3. [o.ctx EXCEPT !.authed = Accepted(o)] \in Context
    BY <2>1, ReauthContext
  <2> QED
    BY <1>3, <2>1, <2>2, <2>3
<1>10. ASSUME NEW t \in Thread, Reconnect(t) \/ ReconnectFails(t) PROVE PoolInv'
  <2>1. pc[t] \in Pooled /\ UNCHANGED <<connections, conn>>
    BY <1>10 DEF Reconnect, ReconnectFails
  <2>2. PICK x \in {Connected} \cup {[err |-> e, authed |-> FALSE, alive |-> FALSE] : e \in {"IO", "OTHER"}} :
          /\ ctx' = [ctx EXCEPT ![conn[t]] = x]
          /\ \E label \in {"reauth", "idle"} : pc' = [pc EXCEPT ![t] = label]
    <3>1. CASE Reconnect(t)
      BY <3>1 DEF Reconnect, Goto
    <3>2. CASE ReconnectFails(t)
      <4>1. PICK e \in {"IO", "OTHER"} : ctx' = [ctx EXCEPT ![conn[t]] = [err |-> e, authed |-> FALSE, alive |-> FALSE]]
        BY <3>2 DEF ReconnectFails
      <4>2. pc' = [pc EXCEPT ![t] = "idle"]
        BY <3>2 DEF ReconnectFails, Return, Goto
      <4> QED
        BY <4>1, <4>2
    <3> QED
      BY <1>10, <3>1, <3>2
  <2>3. x \in Context
    <3>1. Connected \in Context
      BY DEF Connected, Context, Err
    <3>2. \A e \in {"IO", "OTHER"} : [err |-> e, authed |-> FALSE, alive |-> FALSE] \in Context
      BY DEF Context, Err
    <3> QED
      BY <2>2, <3>1, <3>2
  <2> QED
    BY <1>3, <2>1, <2>2, <2>3
<1>11. ASSUME NEW c \in Ctx, Drop(c) PROVE PoolInv'
  <2>1. /\ c \in Allocated /\ ctx' = [ctx EXCEPT ![c] = [ctx[c] EXCEPT !.alive = FALSE]]
        /\ UNCHANGED <<connections, pc, conn>>
    BY <1>11 DEF Drop
  <2>2. [ctx[c] EXCEPT !.alive = FALSE] \in Context
    <3>1. ctx[c] \in Context
      BY <1>0, <2>1 DEF Allocated
    <3> QED
      BY <3>1 DEF Context
  <2>3. Allocated' = Allocated
    BY <2>1, <2>2, AllocatedKept
  <2> QED
    BY <2>1, <2>3, PoolKept
<1>12. CASE UNCHANGED vars
  BY <1>1, <1>12, PoolKept DEF vars
<1> QED
  BY <1>2, <1>4, <1>5, <1>6, <1>7, <1>8, <1>9, <1>10, <1>11, <1>12 DEF Next, Step
-----------------------------------------------------------------------------
(* The bookkeeping of faults keeps its type.                               *)
LEMMA RanType ==
  ASSUME TypeOK, NEW t \in Thread, NEW o, Ran(t, o) \/ Hit(t)
  PROVE  masked' \in [Thread -> BOOLEAN] /\ faults' \in 0 .. MaxFaults
<1>1. Hit(t) \/ UNCHANGED <<masked, faults>>
  BY Zenon DEF Ran
<1>2. masked \in [Thread -> BOOLEAN] /\ faults \in 0 .. MaxFaults
  BY DEF TypeOK
<1>3. CASE Hit(t)
  <2>1. masked' = [masked EXCEPT ![t] = FALSE]
    BY <1>3 DEF Hit
  <2>2. masked' \in [Thread -> BOOLEAN]
    BY <1>2, <2>1
  <2>3. faults < MaxFaults /\ faults' = faults + 1
    BY <1>3 DEF Hit, Fault
  <2> QED
    BY <1>2, <2>2, <2>3, MaxFaultsAssumption
<1>4. CASE UNCHANGED <<masked, faults>>
  BY <1>2, <1>4
<1> QED
  BY <1>1, <1>3, <1>4

(* Every step keeps the types, and no call stores more than two copies.    *)
LEMMA NextType == TypeOK /\ PoolInv /\ CopiesSoFar /\ [Next]_vars => TypeOK' /\ CopiesSoFar'
<1> SUFFICES ASSUME TypeOK, PoolInv, CopiesSoFar, [Next]_vars PROVE TypeOK' /\ CopiesSoFar'
  OBVIOUS
<1> USE DEF Fresh, Pooled, CopiesSoFar, Pc, Error
<1>1. ASSUME NEW t \in Thread, Write(t) PROVE TypeOK' /\ CopiesSoFar'
  BY <1>1 DEF Write, Goto, TypeOK
<1>2. ASSUME NEW t \in Thread, Find(t) PROVE TypeOK' /\ CopiesSoFar'
  <2>1. /\ pc[t] = "find" /\ UNCHANGED <<ctx, connections, result, copies, faults>>
        /\ \/ Entry(t) # {} /\ pc' = [pc EXCEPT ![t] = "send"]
              /\ conn' = [conn EXCEPT ![t] = connections[Min(Entry(t))].connection]
           \/ pc' = [pc EXCEPT ![t] = "create"] /\ conn' = [conn EXCEPT ![t] = Null]
    BY <1>2 DEF Find, Goto
  <2>2. masked' \in [Thread -> BOOLEAN]
    <3>1. PICK b \in BOOLEAN : masked' = [masked EXCEPT ![t] = b]
      BY <1>2, Zenon DEF Find
    <3> QED
      BY <3>1 DEF TypeOK
  <2>3. Entry(t) # {} => connections[Min(Entry(t))].connection \in Ctx
    BY EntryIsOne DEF TypeOK
  <2> QED
    BY <2>1, <2>2, <2>3 DEF TypeOK
<1>3. ASSUME NEW t \in Thread, Connect(t) PROVE TypeOK' /\ CopiesSoFar'
  <2>1. Connected \in Context
    BY DEF Connected, Context, Err
  <2> QED
    BY <1>3, <2>1 DEF Connect, Goto, TypeOK
<1>4. ASSUME NEW t \in Thread, ConnectFails(t) PROVE TypeOK' /\ CopiesSoFar'
  BY <1>4, RanType DEF ConnectFails, Return, Goto, TypeOK
<1>5. ASSUME NEW t \in Thread, CreateAuth(t) PROVE TypeOK' /\ CopiesSoFar'
  <2>1. pc[t] = "auth" /\ UNCHANGED <<connections, conn, copies>> /\ conn[t] \in Ctx /\ ctx[conn[t]] \in Context
    BY <1>5, InUse DEF CreateAuth
  <2>2. PICK o \in redisCommand(ctx[conn[t]], TRUE) :
          /\ Ran(t, o)
          /\ \/ /\ ctx' = [ctx EXCEPT ![conn[t]] = [o.ctx EXCEPT !.authed = TRUE]]
                /\ Goto(t, "push")
                /\ UNCHANGED result
             \/ /\ Discard(t, o)
                /\ Return(t, "STORAGE_UNAVAILABLE")
    BY <1>5 DEF CreateAuth
  <2>3. [o.ctx EXCEPT !.authed = TRUE] \in Context
    BY <2>1, CommandOutcome DEF Context
  <2>4. masked' \in [Thread -> BOOLEAN] /\ faults' \in 0 .. MaxFaults
    BY <2>2, RanType
  <2> QED
    BY <2>1, <2>2, <2>3, <2>4, ZenonT(30) DEF TypeOK, Discard, Return, Goto
<1>6. ASSUME NEW t \in Thread, Push(t) PROVE TypeOK' /\ CopiesSoFar'
  <2>1. [threadId |-> t, connection |-> conn[t]] \in [threadId : Thread, connection : Ctx]
    BY <1>6 DEF Push, TypeOK
  <2>2. connections' \in Seq([threadId : Thread, connection : Ctx])
    BY <1>6, <2>1 DEF Push, TypeOK
  <2> QED
    BY <1>6, <2>2 DEF Push, Goto, TypeOK
<1>7. ASSUME NEW t \in Thread, Send(t) \/ Resend(t) PROVE TypeOK' /\ CopiesSoFar'
  <2>1. pc[t] \in {"send", "resend"} /\ UNCHANGED <<connections, conn>>
    BY <1>7 DEF Send, Resend
  <2>2. PICK o \in Xadds(t) :
          /\ Added(t, o)
          /\ \/ pc[t] = "send" /\ Goto(t, "reconnect") /\ UNCHANGED result
             \/ Return(t, WriteResult(o))
    BY <1>7 DEF Send, Resend
  <2>3. o.ctx \in Context /\ WriteResult(o) \in Error
    BY <2>1, XaddOutcome DEF WriteResult
  <2>4. masked' \in [Thread -> BOOLEAN] /\ faults' \in 0 .. MaxFaults
    BY <2>2, RanType DEF Added
  <2>5. PICK n \in {copies[t], copies[t] + 1} : copies' = [copies EXCEPT ![t] = n]
    BY <2>2 DEF Added
  <2>6. ctx' \in [Ctx -> Context \cup {Free}] /\ n \in 0 .. 2 /\ (pc[t] = "send" => n <= 1)
    BY <2>1, <2>2, <2>3, <2>5 DEF Added, TypeOK
  <2>7. CASE pc[t] = "send" /\ Goto(t, "reconnect") /\ UNCHANGED result
    BY <2>1, <2>4, <2>5, <2>6, <2>7 DEF TypeOK, Goto
  <2>8. CASE Return(t, WriteResult(o))
    BY <2>1, <2>3, <2>4, <2>5, <2>6, <2>8 DEF TypeOK, Return, Goto
  <2> QED
    BY <2>2, <2>7, <2>8
<1>8. ASSUME NEW t \in Thread, Reauth(t) PROVE TypeOK' /\ CopiesSoFar'
  <2>1. pc[t] = "reauth" /\ UNCHANGED <<connections, conn, copies>>
    BY <1>8 DEF Reauth
  <2>2. PICK o \in redisCommand(ctx[conn[t]], TRUE) :
          /\ Ran(t, o)
          /\ ctx' = [ctx EXCEPT ![conn[t]] = [o.ctx EXCEPT !.authed = Accepted(o)]]
          /\ \/ Goto(t, "resend") /\ UNCHANGED result
             \/ Return(t, "STORAGE_UNAVAILABLE")
    BY <1>8 DEF Reauth, Retry
  <2>3. [o.ctx EXCEPT !.authed = Accepted(o)] \in Context
    BY <2>1, ReauthContext
  <2>4. masked' \in [Thread -> BOOLEAN] /\ faults' \in 0 .. MaxFaults
    BY <2>2, RanType
  <2> QED
    BY <2>1, <2>2, <2>3, <2>4 DEF TypeOK, Return, Goto
<1>9. ASSUME NEW t \in Thread, Reconnect(t) \/ ReconnectFails(t) PROVE TypeOK' /\ CopiesSoFar'
  <2>1. Connected \in Context
    BY DEF Connected, Context, Err
  <2>2. \A e \in {"IO", "OTHER"} : [err |-> e, authed |-> FALSE, alive |-> FALSE] \in Context
    BY DEF Context, Err
  <2>3. CASE Reconnect(t)
    BY <2>1, <2>3 DEF Reconnect, Goto, TypeOK
  <2>4. CASE ReconnectFails(t)
    <3>1. PICK e \in {"IO", "OTHER"} : ctx' = [ctx EXCEPT ![conn[t]] = [err |-> e, authed |-> FALSE, alive |-> FALSE]]
      BY <2>4 DEF ReconnectFails
    <3>2. [err |-> e, authed |-> FALSE, alive |-> FALSE] \in Context
      BY <2>2
    <3> QED
      BY <2>4, <3>1, <3>2, RanType DEF ReconnectFails, Return, Goto, TypeOK
  <2> QED
    BY <1>9, <2>3, <2>4
<1>10. ASSUME NEW c \in Ctx, Drop(c) PROVE TypeOK' /\ CopiesSoFar'
  <2>1. masked' \in [Thread -> BOOLEAN]
    BY <1>10, Zenon DEF Drop
  <2>2. [ctx[c] EXCEPT !.alive = FALSE] \in Context
    <3>1. ctx[c] \in Context
      BY <1>10 DEF Drop, Allocated, TypeOK
    <3> QED
      BY <3>1 DEF Context
  <2>3. faults' \in 0 .. MaxFaults
    BY <1>10, MaxFaultsAssumption DEF Drop, Fault, TypeOK
  <2> QED
    BY <1>10, <2>1, <2>2, <2>3 DEF Drop, TypeOK
<1>11. CASE UNCHANGED vars
  BY <1>11 DEF vars, TypeOK
<1> QED
  BY <1>1, <1>2, <1>3, <1>4, <1>5, <1>6, <1>7, <1>8, <1>9, <1>10, <1>11 DEF Next, Step
-----------------------------------------------------------------------------
(* LossMasked made inductive: what a call that must succeed knows of its   *)
(* context and of its copies at every place.                               *)
MaskOf(t) ==
  masked[t] =>
    /\ pc[t] \in {"push", "send"} => ~Stuck(conn[t])
    /\ pc[t] \in {"auth", "reauth", "resend"} => ctx[conn[t]].err = "OK" /\ ctx[conn[t]].alive
    /\ pc[t] = "resend" => ctx[conn[t]].authed
    /\ pc[t] \in {"reconnect", "reauth", "resend"} => copies[t] = 0
    /\ pc[t] = "idle" => result[t] = "OK" /\ copies[t] = 1

MaskInv == \A t \in Thread : MaskOf(t)

(* A step that leaves a thread's call and its context alone.               *)
LEMMA MaskKept ==
  ASSUME MaskInv, NEW u \in Thread, pc'[u] = pc[u], conn'[u] = conn[u], copies'[u] = copies[u],
         result'[u] = result[u], masked'[u] => masked[u],
         pc[u] \in Fresh \cup Pooled => ctx'[conn[u]] = ctx[conn[u]]
  PROVE  MaskOf(u)'
<1>1. MaskOf(u)
  BY DEF MaskInv
<1>2. CASE pc[u] \in Fresh \cup Pooled
  <2>1. ctx'[conn'[u]] = ctx[conn[u]]
    BY <1>2
  <2> QED
    BY <1>1, <2>1 DEF MaskOf, Stuck
<1>3. CASE pc[u] \notin Fresh \cup Pooled
  BY <1>1, <1>3 DEF MaskOf, Fresh, Pooled
<1> QED
  BY <1>2, <1>3

(* The fields of a context whose authentication changed.                   *)
LEMMA AuthedFields ==
  ASSUME NEW x \in Context, NEW b \in BOOLEAN
  PROVE  /\ [x EXCEPT !.authed = b].err = x.err
         /\ [x EXCEPT !.authed = b].alive = x.alive
         /\ [x EXCEPT !.authed = b].authed = b
BY DEF Context

(* A new connection.                                                       *)
LEMMA ConnectedFields == Connected.err = "OK" /\ Connected.alive
BY Zenon DEF Connected

(* The result that write() makes of an XADD.                               *)
LEMMA XaddResult ==
  ASSUME TypeOK, PoolInv, NEW t \in Thread, pc[t] \in Pooled, NEW o \in Xadds(t),
         o.ctx.err \notin Lost
  PROVE  /\ WriteResult(o) = "OK" => o.done
         /\ ~o.fault /\ ~Stuck(conn[t]) => WriteResult(o) = "OK"
<1>1. /\ o.fault \/ Clean(ctx[conn[t]], ctx[conn[t]].authed, o)
      /\ o.fault => o.reply = "error" \/ o.ctx.err # "OK"
      /\ o.ctx \in Context
  BY XaddOutcome
<1>2. o.ctx.err \in {"OK", "OTHER"}
  BY <1>1 DEF Context, Err, Lost
<1>3. WriteResult(o) = IF o.reply = "error" \/ o.ctx.err = "OTHER" THEN "GENERIC" ELSE "OK"
  BY <1>2 DEF WriteResult, Lost
<1>4. WriteResult(o) = "OK" => o.done
  BY <1>1, <1>2, <1>3 DEF Clean, Lost
<1>5. ~o.fault /\ ~Stuck(conn[t]) => WriteResult(o) = "OK"
  BY <1>1, <1>2, <1>3 DEF Clean, Lost, Stuck
<1> QED
  BY <1>4, <1>5

(* A thread's own bookkeeping when a fault hits it, or does not.           *)
LEMMA RanMasked ==
  ASSUME TypeOK, NEW t \in Thread, NEW o, Ran(t, o) \/ Hit(t)
  PROVE  /\ \A u \in Thread : masked'[u] => masked[u]
         /\ Hit(t) \/ o.fault => ~masked'[t]
<1>1. masked \in [Thread -> BOOLEAN]
  BY DEF TypeOK
<1>2. Hit(t) => masked' = [masked EXCEPT ![t] = FALSE]
  BY Zenon DEF Hit
<1>3. (Ran(t, o) /\ o.fault) => Hit(t)
  BY Zenon DEF Ran
<1>4. Hit(t) \/ masked' = masked
  BY Zenon DEF Ran
<1> QED
  BY <1>1, <1>2, <1>3, <1>4

(* Every step keeps the promise to a call that must succeed.               *)
LEMMA NextMask == TypeOK /\ PoolInv /\ CopiesSoFar /\ MaskInv /\ [Next]_vars => MaskInv'
<1> SUFFICES ASSUME TypeOK, PoolInv, CopiesSoFar, MaskInv, [Next]_vars PROVE MaskInv'
  OBVIOUS
<1> USE DEF Fresh, Pooled
<1>0. /\ pc \in [Thread -> Pc] /\ conn \in [Thread -> Ctx \cup {Null}]
      /\ ctx \in [Ctx -> Context \cup {Free}] /\ masked \in [Thread -> BOOLEAN]
      /\ copies \in [Thread -> 0 .. 2] /\ result \in [Thread -> Error]
  BY DEF TypeOK
(* A step of thread t leaves every other call's promise as it is.          *)
<1>1. ASSUME NEW t \in Thread, MaskOf(t)',
             \A u \in Thread \ {t} :
               /\ pc'[u] = pc[u] /\ conn'[u] = conn[u] /\ copies'[u] = copies[u] /\ result'[u] = result[u]
               /\ masked'[u] => masked[u]
               /\ pc[u] \in Fresh \cup Pooled => ctx'[conn[u]] = ctx[conn[u]]
      PROVE  MaskInv'
  BY <1>1, MaskKept DEF MaskInv
<1>2. ASSUME NEW t \in Thread, pc[t] \in Fresh \cup Pooled, NEW x, ctx' = [ctx EXCEPT ![conn[t]] = x]
      PROVE  /\ ctx'[conn[t]] = x
             /\ \A u \in Thread \ {t} : pc[u] \in Fresh \cup Pooled => ctx'[conn[u]] = ctx[conn[u]]
  BY <1>0, <1>2, InUse
<1>3. ASSUME NEW t \in Thread, Write(t) PROVE MaskInv'
  <2>1. MaskOf(t)'
    BY <1>0, <1>3 DEF Write, Goto, MaskOf
  <2> QED
    BY <1>0, <1>1, <1>3, <2>1 DEF Write, Goto
<1>4. ASSUME NEW t \in Thread, Find(t) PROVE MaskInv'
  <2>1. masked'[t] => pc'[t] = "create" \/ (pc'[t] = "send" /\ ~Stuck(conn'[t]))
    BY <1>0, <1>4, Zenon DEF Find, Goto
  <2>2. ctx' = ctx
    BY <1>4 DEF Find
  <2>3. MaskOf(t)'
    BY <2>1, <2>2 DEF MaskOf, Stuck
  <2>4. \A u \in Thread \ {t} : masked'[u] = masked[u]
    BY <1>0, <1>4, Zenon DEF Find
  <2>5. \A u \in Thread \ {t} :
          pc'[u] = pc[u] /\ conn'[u] = conn[u] /\ copies'[u] = copies[u] /\ result'[u] = result[u]
    BY <1>0, <1>4 DEF Find, Goto
  <2> QED
    BY <1>1, <2>2, <2>3, <2>4, <2>5
<1>5. ASSUME NEW t \in Thread, Connect(t) PROVE MaskInv'
  <2>1. PICK c \in Ctx \ Allocated :
          ctx' = [ctx EXCEPT ![c] = Connected] /\ conn' = [conn EXCEPT ![t] = c]
    BY <1>5 DEF Connect
  <2>2. pc' = [pc EXCEPT ![t] = "auth"] /\ UNCHANGED <<result, copies, masked>>
    BY <1>5 DEF Connect, Goto
  <2>3. MaskOf(t)'
    BY <1>0, <2>1, <2>2, ConnectedFields DEF MaskOf
  <2>4. \A u \in Thread : pc[u] \in Fresh \cup Pooled => conn[u] # c
    BY <2>1, InUse
  <2> QED
    BY <1>0, <1>1, <2>1, <2>2, <2>3, <2>4
<1>6. ASSUME NEW t \in Thread, ConnectFails(t) PROVE MaskInv'
  <2>1. ~masked'[t] /\ \A u \in Thread : masked'[u] => masked[u]
    BY <1>6, RanMasked DEF ConnectFails
  <2>2. MaskOf(t)'
    BY <2>1 DEF MaskOf
  <2> QED
    BY <1>0, <1>1, <1>6, <2>1, <2>2 DEF ConnectFails, Return, Goto
<1>7. ASSUME NEW t \in Thread, CreateAuth(t) PROVE MaskInv'
  <2>1. pc[t] = "auth" /\ UNCHANGED <<conn, copies>>
    BY <1>7 DEF CreateAuth
  <2>2. ctx[conn[t]] \in Context
    BY <2>1, InUse
  <2>3. PICK o \in redisCommand(ctx[conn[t]], TRUE) :
          /\ Ran(t, o)
          /\ \/ /\ Accepted(o)
                /\ ctx' = [ctx EXCEPT ![conn[t]] = [o.ctx EXCEPT !.authed = TRUE]]
                /\ Goto(t, "push")
                /\ UNCHANGED result
             \/ /\ ~Accepted(o)
                /\ Discard(t, o)
                /\ Return(t, "STORAGE_UNAVAILABLE")
    BY <1>7 DEF CreateAuth
  <2>4. o.ctx \in Context /\ (o.fault \/ Clean(ctx[conn[t]], TRUE, o))
    BY <2>2, CommandOutcome
  <2>5. /\ \A u \in Thread : masked'[u] => masked[u]
        /\ o.fault => ~masked'[t]
    BY <2>3, RanMasked
  <2>6. MaskOf(t)'
    <3>1. SUFFICES ASSUME masked'[t] PROVE MaskOf(t)'
      BY DEF MaskOf
    <3>2. ctx[conn[t]].err = "OK" /\ ctx[conn[t]].alive
      BY <2>1, <2>5, <3>1 DEF MaskInv, MaskOf
    <3>3. o.ctx = ctx[conn[t]] /\ o.reply = "ok"
      BY <2>4, <2>5, <3>1, <3>2 DEF Clean
    <3>4. Accepted(o)
      BY <3>2, <3>3 DEF Accepted
    <3>5. /\ ctx' = [ctx EXCEPT ![conn[t]] = [o.ctx EXCEPT !.authed = TRUE]]
          /\ pc'[t] = "push"
      BY <1>0, <2>3, <3>4 DEF Goto
    <3>6. ctx'[conn'[t]].err = "OK" /\ ctx'[conn'[t]].authed
      <4>1. ctx'[conn'[t]] = [o.ctx EXCEPT !.authed = TRUE]
        <5>1. conn'[t] = conn[t] /\ conn[t] \in Ctx
          BY <2>1, InUse
        <5> QED
          BY <1>0, <3>5, <5>1
      <4>2. /\ [o.ctx EXCEPT !.authed = TRUE].err = o.ctx.err
            /\ [o.ctx EXCEPT !.authed = TRUE].authed = TRUE
        BY <2>4, AuthedFields
      <4> QED
        BY <3>2, <3>3, <4>1, <4>2, Zenon
    <3> QED
      BY <3>5, <3>6 DEF MaskOf, Stuck
  <2>7. \E x : ctx' = [ctx EXCEPT ![conn[t]] = x]
    BY <2>3 DEF Discard
  <2> QED
    BY <1>0, <1>1, <1>2, <2>1, <2>3, <2>5, <2>6, <2>7 DEF Return, Goto
<1>8. ASSUME NEW t \in Thread, Push(t) PROVE MaskInv'
  <2>1. /\ pc[t] = "push" /\ pc' = [pc EXCEPT ![t] = "send"]
        /\ UNCHANGED <<ctx, conn, result, copies, masked>>
    BY <1>8 DEF Push, Goto
  <2>2. MaskOf(t)'
    BY <1>0, <2>1 DEF MaskInv, MaskOf, Stuck
  <2> QED
    BY <1>0, <1>1, <2>1, <2>2
<1>9. ASSUME NEW t \in Thread, Send(t) PROVE MaskInv'
  <2>1. pc[t] = "send" /\ copies[t] = 0 /\ UNCHANGED conn
    BY <1>9 DEF Send, CopiesSoFar
  <2>2. PICK o \in Xadds(t) :
          /\ Added(t, o)
          /\ \/ o.ctx.err \in Lost /\ Goto(t, "reconnect") /\ UNCHANGED result
             \/ o.ctx.err \notin Lost /\ Return(t, WriteResult(o))
    BY <1>9 DEF Send, MustRetry
  <2>3. /\ \A u \in Thread : masked'[u] => masked[u]
        /\ o.fault => ~masked'[t]
    BY <2>2, RanMasked DEF Added
  <2>4. o.fault \/ Clean(ctx[conn[t]], ctx[conn[t]].authed, o)
    BY <2>1, XaddOutcome
  <2>5. /\ copies' = [copies EXCEPT ![t] = IF o.done THEN @ + 1 ELSE @]
        /\ ctx' = [ctx EXCEPT ![conn[t]] = o.ctx]
    BY <2>2 DEF Added
  <2>6. MaskOf(t)'
    <3>1. SUFFICES ASSUME masked'[t] PROVE MaskOf(t)'
      BY DEF MaskOf
    <3>2. ~o.fault /\ ~Stuck(conn[t])
      BY <2>1, <2>3, <3>1 DEF MaskInv, MaskOf
    <3>3. CASE o.ctx.err \in Lost
      <4>1. ~o.done
        BY <2>4, <3>2, <3>3 DEF Clean, Lost
      <4>2. pc'[t] = "reconnect" /\ copies'[t] = 0
        BY <1>0, <2>1, <2>2, <2>5, <3>3, <4>1 DEF Goto
      <4> QED
        BY <4>2 DEF MaskOf
    <3>4. CASE o.ctx.err \notin Lost
      <4>1. WriteResult(o) = "OK" /\ o.done
        BY <2>1, <3>2, <3>4, XaddResult
      <4>2. pc'[t] = "idle" /\ copies'[t] = 1 /\ result'[t] = "OK"
        BY <1>0, <2>1, <2>2, <2>5, <3>4, <4>1 DEF Return, Goto
      <4> QED
        BY <4>2 DEF MaskOf
    <3> QED
      BY <3>3, <3>4
  <2> QED
    BY <1>0, <1>1, <1>2, <2>1, <2>2, <2>3, <2>5, <2>6 DEF Return, Goto
<1>10. ASSUME NEW t \in Thread, Reconnect(t) PROVE MaskInv'
  <2>1. /\ pc[t] = "reconnect" /\ pc' = [pc EXCEPT ![t] = "reauth"]
        /\ ctx' = [ctx EXCEPT ![conn[t]] = Connected]
        /\ UNCHANGED <<conn, result, copies, masked>>
    BY <1>10 DEF Reconnect, Goto
  <2>2. ctx'[conn'[t]] = Connected
    <3>1. conn'[t] = conn[t] /\ conn[t] \in Ctx
      BY <2>1, InUse
    <3> QED
      BY <1>0, <2>1, <3>1
  <2>3. MaskOf(t)'
    BY <1>0, <2>1, <2>2, ConnectedFields DEF MaskInv, MaskOf
  <2> QED
    BY <1>0, <1>1, <1>2, <2>1, <2>3
<1>11. ASSUME NEW t \in Thread, ReconnectFails(t) PROVE MaskInv'
  <2>1. ~masked'[t] /\ \A u \in Thread : masked'[u] => masked[u]
    BY <1>11, RanMasked DEF ReconnectFails
  <2>2. MaskOf(t)'
    BY <2>1 DEF MaskOf
  <2>3. pc[t] \in Pooled /\ \E x : ctx' = [ctx EXCEPT ![conn[t]] = x]
    BY <1>11 DEF ReconnectFails
  <2> QED
    BY <1>0, <1>1, <1>2, <1>11, <2>1, <2>2, <2>3 DEF ReconnectFails, Return, Goto
<1>12. ASSUME NEW t \in Thread, Reauth(t) PROVE MaskInv'
  <2>1. pc[t] = "reauth" /\ UNCHANGED <<conn, copies>>
    BY <1>12 DEF Reauth
  <2>2. ctx[conn[t]] \in Context
    BY <2>1, InUse
  <2>3. PICK o \in redisCommand(ctx[conn[t]], TRUE) :
          /\ Ran(t, o)
          /\ ctx' = [ctx EXCEPT ![conn[t]] = [o.ctx EXCEPT !.authed = Accepted(o)]]
          /\ \/ Accepted(o) /\ Goto(t, "resend") /\ UNCHANGED result
             \/ ~Accepted(o) /\ Return(t, "STORAGE_UNAVAILABLE")
    BY <1>12 DEF Reauth, Retry
  <2>4. o.ctx \in Context /\ (o.fault \/ Clean(ctx[conn[t]], TRUE, o))
    BY <2>2, CommandOutcome
  <2>5. /\ \A u \in Thread : masked'[u] => masked[u]
        /\ o.fault => ~masked'[t]
    BY <2>3, RanMasked
  <2>6. MaskOf(t)'
    <3>1. SUFFICES ASSUME masked'[t] PROVE MaskOf(t)'
      BY DEF MaskOf
    <3>2. ctx[conn[t]].err = "OK" /\ ctx[conn[t]].alive /\ copies[t] = 0
      BY <2>1, <2>5, <3>1 DEF MaskInv, MaskOf
    <3>3. o.ctx = ctx[conn[t]] /\ o.reply = "ok"
      BY <2>4, <2>5, <3>1, <3>2 DEF Clean
    <3>4. Accepted(o)
      BY <3>2, <3>3 DEF Accepted
    <3>5. pc'[t] = "resend" /\ copies'[t] = 0
      BY <1>0, <2>1, <2>3, <3>2, <3>4 DEF Goto
    <3>6. ctx'[conn'[t]].err = "OK" /\ ctx'[conn'[t]].alive /\ ctx'[conn'[t]].authed
      <4>1. ctx'[conn'[t]] = [o.ctx EXCEPT !.authed = Accepted(o)]
        BY <1>2, <2>1, <2>3
      <4>2. Accepted(o) \in BOOLEAN
        BY Zenon DEF Accepted
      <4>3. /\ [o.ctx EXCEPT !.authed = Accepted(o)].err = o.ctx.err
            /\ [o.ctx EXCEPT !.authed = Accepted(o)].alive = o.ctx.alive
            /\ [o.ctx EXCEPT !.authed = Accepted(o)].authed = Accepted(o)
        BY <2>4, <4>2, AuthedFields, Zenon
      <4> QED
        BY <3>2, <3>3, <3>4, <4>1, <4>3, Zenon
    <3> QED
      BY <3>5, <3>6 DEF MaskOf
  <2> QED
    BY <1>0, <1>1, <1>2, <2>1, <2>3, <2>5, <2>6 DEF Return, Goto
<1>13. ASSUME NEW t \in Thread, Resend(t) PROVE MaskInv'
  <2>1. pc[t] = "resend" /\ UNCHANGED conn
    BY <1>13 DEF Resend
  <2>2. PICK o \in Xadds(t) : Added(t, o) /\ Return(t, WriteResult(o))
    BY <1>13 DEF Resend
  <2>3. /\ \A u \in Thread : masked'[u] => masked[u]
        /\ o.fault => ~masked'[t]
    BY <2>2, RanMasked DEF Added
  <2>4. o.fault \/ Clean(ctx[conn[t]], ctx[conn[t]].authed, o)
    BY <2>1, XaddOutcome
  <2>5. /\ copies' = [copies EXCEPT ![t] = IF o.done THEN @ + 1 ELSE @]
        /\ ctx' = [ctx EXCEPT ![conn[t]] = o.ctx]
    BY <2>2 DEF Added
  <2>6. MaskOf(t)'
    <3>1. SUFFICES ASSUME masked'[t] PROVE MaskOf(t)'
      BY DEF MaskOf
    <3>2. /\ ~o.fault /\ copies[t] = 0
          /\ ctx[conn[t]].err = "OK" /\ ctx[conn[t]].alive /\ ctx[conn[t]].authed
      BY <2>1, <2>3, <3>1 DEF MaskInv, MaskOf
    <3>3. o.ctx.err \notin Lost /\ ~Stuck(conn[t])
      BY <2>4, <3>2 DEF Clean, Lost, Stuck
    <3>4. WriteResult(o) = "OK" /\ o.done
      BY <2>1, <3>2, <3>3, XaddResult
    <3>5. pc'[t] = "idle" /\ copies'[t] = 1 /\ result'[t] = "OK"
      BY <1>0, <2>2, <2>5, <3>2, <3>4 DEF Return, Goto
    <3> QED
      BY <3>5 DEF MaskOf
  <2> QED
    BY <1>0, <1>1, <1>2, <2>1, <2>2, <2>3, <2>5, <2>6 DEF Return, Goto
<1>14. ASSUME NEW c \in Ctx, Drop(c) PROVE MaskInv'
  <2>1. /\ UNCHANGED <<connections, pc, conn, result, copies>>
        /\ ctx' = [ctx EXCEPT ![c] = [ctx[c] EXCEPT !.alive = FALSE]] /\ ctx[c] \in Context
    BY <1>0, <1>14 DEF Drop, Allocated
  <2>2. \A t \in Thread : masked'[t] => masked[t] /\ ~(conn[t] = c /\ pc[t] \in {"auth", "reauth", "resend"})
    BY <1>14, Zenon DEF Drop
  <2>3. /\ ctx'[c].err = ctx[c].err /\ ~ctx'[c].alive
        /\ \A d \in Ctx \ {c} : ctx'[d] = ctx[d]
    <3>1. ctx'[c] = [ctx[c] EXCEPT !.alive = FALSE] /\ \A d \in Ctx \ {c} : ctx'[d] = ctx[d]
      BY <1>0, <2>1
    <3>2. [ctx[c] EXCEPT !.alive = FALSE].err = ctx[c].err /\ [ctx[c] EXCEPT !.alive = FALSE].alive = FALSE
      BY <2>1 DEF Context
    <3> QED
      BY <3>1, <3>2, Zenon
  <2>4. ASSUME NEW t \in Thread PROVE MaskOf(t)'
    <3>1. CASE conn[t] = c /\ pc[t] \in Fresh \cup Pooled
      BY <2>1, <2>2, <2>3, <3>1 DEF MaskInv, MaskOf, Stuck
    <3>2. CASE ~(conn[t] = c /\ pc[t] \in Fresh \cup Pooled)
      <4>1. pc[t] \in Fresh \cup Pooled => ctx'[conn[t]] = ctx[conn[t]]
        BY <2>3, <3>2, InUse
      <4> QED
        BY <2>1, <2>2, <4>1, MaskKept
    <3> QED
      BY <3>1, <3>2
  <2> QED
    BY <2>4 DEF MaskInv
<1>15. CASE UNCHANGED vars
  <2>1. \A t \in Thread : MaskOf(t)'
    BY <1>15, MaskKept DEF vars
  <2> QED
    BY <2>1 DEF MaskInv
<1> QED
  BY <1>3, <1>4, <1>5, <1>6, <1>7, <1>8, <1>9, <1>10, <1>11, <1>12, <1>13, <1>14, <1>15 DEF Next, Step

-----------------------------------------------------------------------------
Inv == TypeOK /\ PoolInv /\ CopiesSoFar /\ MaskInv

(* The first state satisfies the invariant.                                *)
LEMMA InitInv == Init => Inv
<1> SUFFICES ASSUME Init PROVE Inv
  OBVIOUS
<1>1. connections \in Seq([threadId : Thread, connection : Ctx]) /\ DOMAIN connections = {}
  BY DEF Init
<1>2. TypeOK
  BY <1>1, MaxFaultsAssumption DEF Init, TypeOK, Pc, Error
<1>3. PoolInv
  <2>1. Allocated = {} /\ InPool = {}
    BY <1>1 DEF Init, Allocated, InPool
  <2>2. NoLeak
    BY <2>1 DEF Init, NoLeak
  <2> QED
    BY <1>1, <2>2 DEF Init, PoolInv, Exclusive, OwnContext, Fresh
<1>4. CopiesSoFar
  BY DEF Init, CopiesSoFar, Fresh
<1>5. MaskInv
  BY DEF Init, MaskInv, MaskOf
<1> QED
  BY <1>2, <1>3, <1>4, <1>5 DEF Inv

(* The invariant holds in every reachable state.                           *)
THEOREM InvHolds == Spec => []Inv
<1>1. Inv /\ [Next]_vars => Inv'
  BY NextType, NextPool, NextMask DEF Inv
<1> QED
  BY InitInv, <1>1, PTL DEF Spec

(* Every variable keeps its type, and a thread that is about to use a      *)
(* context has one.                                                        *)
THEOREM TypeCorrect == Spec => []TypeOK
<1>1. Inv => TypeOK
  BY DEF Inv
<1> QED
  BY InvHolds, <1>1, PTL

(* No two workers ever use one redisContext, and connections_ holds at     *)
(* most one entry per worker, although only the search and the push_back   *)
(* of findConnection() are under mutex_.                                   *)
THEOREM ExclusiveAlways == Spec => []Exclusive
<1>1. Inv => Exclusive
  BY DEF Inv, PoolInv
<1> QED
  BY InvHolds, <1>1, PTL

(* No failure of a connect or an AUTH leaks a redisContext.                *)
THEOREM NoLeakAlways == Spec => []NoLeak
<1>1. Inv => NoLeak
  BY DEF Inv, PoolInv
<1> QED
  BY InvHolds, <1>1, PTL

(* A connection lost before the XADD went out is invisible to the caller   *)
(* of write(): the message is stored exactly once and the result is OK.    *)
THEOREM LossIsMasked == Spec => []LossMasked
<1>1. Inv => LossMasked
  BY DEF Inv, MaskInv, MaskOf, LossMasked
<1> QED
  BY InvHolds, <1>1, PTL
-----------------------------------------------------------------------------
(* The first state is one of the abstract writer.                          *)
LEMMA InitRefines == Init => Writer!Init
BY DEF Init, Writer!Init, Error

(* A record of RedisPromise, by its fields.                                *)
LEMMA Promised ==
  ASSUME NEW e \in Error, NEW n \in 0 .. 2, e = "OK" => n > 0
  PROVE  \E p \in RedisPromise : p.error = e /\ p.copies = n
<1> DEFINE p == [error |-> e, copies |-> n]
<1>1. p \in RedisPromise
  BY DEF RedisPromise
<1> QED
  BY <1>1

(* A step that ends thread t's call with a promised result and number of   *)
(* copies is a Return of the abstract writer.                              *)
LEMMA ReturnRefines ==
  ASSUME TypeOK, NEW t \in Thread, pc[t] # "idle", NEW e \in Error, Return(t, e),
         NEW n \in {copies[t], copies[t] + 1}, n \in 0 .. 2,
         copies' = [copies EXCEPT ![t] = n], e = "OK" => n > 0
  PROVE  Writer!Return(t)
<1>1. PICK p \in RedisPromise : p.error = e /\ p.copies = n
  BY Promised
<1>2. {u \in Thread : pc'[u] # "idle"} = {u \in Thread : pc[u] # "idle"} \ {t}
  BY DEF Return, Goto, TypeOK
<1>3. p.copies \in {copies[t], copies[t] + 1}
  BY <1>1
<1>4. copies' = [copies EXCEPT ![t] = p.copies] /\ result' = [result EXCEPT ![t] = p.error]
  BY <1>1 DEF Return
<1> QED
  BY <1>2, <1>3, <1>4, Zenon DEF Writer!Return

(* The same for a failure, which stores nothing more.                      *)
LEMMA FailureRefines ==
  ASSUME TypeOK, NEW t \in Thread, pc[t] # "idle", Return(t, "STORAGE_UNAVAILABLE"), UNCHANGED copies
  PROVE  Writer!Return(t)
<1>1. copies[t] \in 0 .. 2 /\ copies' = [copies EXCEPT ![t] = copies[t]]
  BY DEF TypeOK
<1>2. "STORAGE_UNAVAILABLE" \in Error /\ "STORAGE_UNAVAILABLE" # "OK"
  BY DEF Error
<1> QED
  BY <1>1, <1>2, ReturnRefines

(* A step inside a call keeps the thread busy.                             *)
LEMMA StillBusy ==
  ASSUME TypeOK, NEW t \in Thread, NEW label \in Pc \ {"idle"}, pc[t] # "idle", Goto(t, label)
  PROVE  {u \in Thread : pc'[u] # "idle"} = {u \in Thread : pc[u] # "idle"}
BY DEF Goto, TypeOK

(* Every step is one of the abstract writer, or none.                      *)
LEMMA NextRefines == Inv /\ [Next]_vars => [Writer!Next]_(Writer!vars)
<1> SUFFICES ASSUME Inv, [Next]_vars PROVE Writer!Next \/ UNCHANGED Writer!vars
  OBVIOUS
<1> USE DEF Inv
<1>1. ASSUME NEW t \in Thread, Write(t) PROVE Writer!Call(t)
  <2>1. {u \in Thread : pc'[u] # "idle"} = {u \in Thread : pc[u] # "idle"} \cup {t}
    BY <1>1 DEF Write, Goto, TypeOK
  <2> QED
    BY <1>1, <2>1 DEF Write, Writer!Call
<1>2. ASSUME NEW t \in Thread, NEW label \in Pc \ {"idle"}, pc[t] # "idle", Goto(t, label),
             UNCHANGED <<copies, result>>
      PROVE  UNCHANGED Writer!vars
  BY <1>2, StillBusy DEF Writer!vars
<1>3. ASSUME NEW t \in Thread, Find(t) \/ Connect(t) \/ Push(t) \/ Reconnect(t)
      PROVE  UNCHANGED Writer!vars
  <2>1. PICK label \in Pc \ {"idle"} : Goto(t, label)
    BY <1>3 DEF Find, Connect, Push, Reconnect, Pc
  <2> QED
    BY <1>2, <1>3, <2>1 DEF Find, Connect, Push, Reconnect
<1>4. ASSUME NEW t \in Thread, ConnectFails(t) \/ ReconnectFails(t) PROVE Writer!Return(t)
  BY <1>4, FailureRefines DEF ConnectFails, ReconnectFails
<1>5. ASSUME NEW t \in Thread, CreateAuth(t) \/ Reauth(t)
      PROVE  Writer!Return(t) \/ UNCHANGED Writer!vars
  <2>1. /\ pc[t] # "idle" /\ UNCHANGED copies
        /\ \/ (Goto(t, "push") \/ Goto(t, "resend")) /\ UNCHANGED result
           \/ Return(t, "STORAGE_UNAVAILABLE")
    BY <1>5 DEF CreateAuth, Reauth, Retry
  <2>2. CASE Return(t, "STORAGE_UNAVAILABLE")
    BY <2>1, <2>2, FailureRefines
  <2>3. CASE (Goto(t, "push") \/ Goto(t, "resend")) /\ UNCHANGED result
    BY <1>2, <2>1, <2>3 DEF Pc
  <2> QED
    BY <2>1, <2>2, <2>3
<1>6. ASSUME NEW t \in Thread, Send(t) \/ Resend(t)
      PROVE  Writer!Return(t) \/ Writer!Store(t) \/ UNCHANGED Writer!vars
  <2>1. pc[t] \in Pooled /\ pc[t] # "idle" /\ copies[t] \in 0 .. 1
    BY <1>6 DEF Send, Resend, Pooled, CopiesSoFar, TypeOK
  <2>2. PICK o \in Xadds(t) :
          /\ copies' = [copies EXCEPT ![t] = IF o.done THEN @ + 1 ELSE @]
          /\ \/ Goto(t, "reconnect") /\ UNCHANGED result
             \/ Return(t, WriteResult(o))
    BY <1>6 DEF Send, Resend, Added
  <2>3. CASE Goto(t, "reconnect") /\ UNCHANGED result
    <3>1. {u \in Thread : pc'[u] # "idle"} = {u \in Thread : pc[u] # "idle"}
      BY <2>1, <2>3, StillBusy DEF Pc
    <3>2. CASE o.done
      BY <2>1, <2>2, <2>3, <3>1, <3>2 DEF Writer!Store
    <3>3. CASE ~o.done
      <4>1. copies' = copies
        BY <2>2, <3>3 DEF TypeOK
      <4> QED
        BY <2>3, <3>1, <4>1 DEF Writer!vars
    <3> QED
      BY <3>2, <3>3
  <2>4. CASE Return(t, WriteResult(o))
    <3>1. WriteResult(o) = "OK" => o.done
      <4>1. CASE o.ctx.err \in Lost
        BY <4>1 DEF WriteResult, Lost
      <4>2. CASE o.ctx.err \notin Lost
        BY <2>1, <4>2, XaddResult
      <4> QED
        BY <4>1, <4>2
    <3>2. PICK n \in {copies[t], copies[t] + 1} :
            copies' = [copies EXCEPT ![t] = n] /\ (o.done => n = copies[t] + 1)
      BY <2>2
    <3>3. n \in 0 .. 2 /\ (WriteResult(o) = "OK" => n > 0)
      BY <2>1, <3>1, <3>2
    <3>4. WriteResult(o) \in Error
      BY DEF WriteResult, Error
    <3> QED
      BY <2>1, <2>4, <3>2, <3>3, <3>4, ReturnRefines
  <2> QED
    BY <2>2, <2>3, <2>4
<1>7. ASSUME NEW c \in Ctx, Drop(c) PROVE UNCHANGED Writer!vars
  BY <1>7 DEF Drop, Writer!vars
<1>8. CASE UNCHANGED vars
  BY <1>8 DEF vars, Writer!vars
<1> QED
  BY <1>1, <1>3, <1>4, <1>5, <1>6, <1>7, <1>8 DEF Next, Step, Writer!Next

(* write() keeps its promise to UniversalHandler: OK means that the        *)
(* message was stored, once or, when a reply was lost, twice; no call      *)
(* stores it more often, however the workers and the faults interleave.    *)
THEOREM RedisWriterRefines == Spec => WriterSpec
<1>1. Inv /\ [Next]_vars => [Writer!Next]_(Writer!vars)
  BY NextRefines
<1> QED
  BY InitRefines, InvHolds, <1>1, PTL DEF Spec, WriterSpec, Writer!Spec
=============================================================================
