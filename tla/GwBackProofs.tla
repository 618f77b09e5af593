---------------------------- MODULE GwBackProofs ----------------------------
(***************************************************************************)
(* Proofs about GwBack for every set of ids, all chunk sizes, both kinds   *)
(* of storage and every number of faults.                                  *)
(***************************************************************************)
EXTENDS GwBack, SequenceTheorems, WellFoundedInduction, TLAPS

Slots == 1 .. ConsumerChunk

(* The chunk that getNext() returns is a sequence of stored ids.           *)
LEMMA ChunkType ==
  ASSUME NEW S, NEW c \in Chunks(S)
  PROVE  c \in Seq(S) /\ Range(c) \subseteq S
<1>1. c \in BoundedSeq(S, ProducerChunk)
  BY DEF Chunks
<1>2. PICK n \in 0 .. ProducerChunk : c \in [1 .. n -> S]
  BY <1>1, ProducerChunkAssumption DEF BoundedSeq, SeqOf
<1> QED
  BY <1>2 DEF Range

(* What an ended process holds has the type of what it held.               *)
LEMMA EmptyType == <<>> \in Seq(Id) /\ <<>> \in Seq(Saver)
OBVIOUS

(* A saver of the right type stays one when its position or pc changes.    *)
LEMMA NewSaverType ==
  ASSUME NEW b \in Seq(Id)
  PROVE  NewSaver(b) \in Saver /\ [NewSaver(b) EXCEPT !.pc = "done"] \in Saver
BY DEF NewSaver, Saver, SaverPc

(* Init establishes the type invariant.                                    *)
LEMMA InitTypeOK == Init => TypeOK
BY DEF Init, TypeOK, ConsumerInit, ConsumerTypeOK, EmptyFile, LoopPc, MainPc

(* A push keeps the consumer's types.                                      *)
LEMMA PushType ==
  ASSUME ConsumerTypeOK, NEW m \in Id, Push(m) \/ PushSpawnFails(m), UNCHANGED files
  PROVE  ConsumerTypeOK'
<1>1. Append(buffer, m) \in Seq(Id)
  BY DEF ConsumerTypeOK
<1>2. NewSaver(Append(buffer, m)) \in Saver
  BY <1>1, NewSaverType
<1>3. buffer' \in Seq(Id)
  <2>1. buffer' \in {Append(buffer, m), <<>>}
    BY DEF Push, PushSpawnFails
  <2> QED
    BY <1>1, <2>1, EmptyType
<1>4. savers' \in Seq(Saver)
  BY <1>2, SMTT(30) DEF Push, PushSpawnFails, ConsumerTypeOK
<1> QED
  BY <1>3, <1>4 DEF ConsumerTypeOK

(* The message that saver s writes next.                                   *)
NextOf(s) == savers[s].batch[savers[s].n + 1]

LEMMA NextIsId ==
  ASSUME ConsumerTypeOK, NEW s \in DOMAIN savers, HasMore(s)
  PROVE  NextOf(s) \in Id /\ Length[NextOf(s)] \in Nat \ {0} /\ savers[s].n + 1 \in 1 .. Len(savers[s].batch)
<1>1. savers[s] \in Saver
  BY DEF ConsumerTypeOK
<1>2. savers[s].batch \in Seq(Id) /\ savers[s].n \in Nat
  BY <1>1 DEF Saver
<1>3. NextOf(s) \in Id /\ savers[s].n + 1 \in 1 .. Len(savers[s].batch)
  BY <1>2 DEF HasMore, NextOf
<1> QED
  BY <1>3, LengthAssumption

(* A step of a detached thread keeps the consumer's types.                 *)
LEMMA SaverType ==
  ASSUME ConsumerTypeOK, NEW s \in DOMAIN savers,
         \/ SaverOpen(s) \/ SaverWrite(s) \/ SaverDone(s)
         \/ SaverOpenFails(s) \/ SaverWriteFails(s)
  PROVE  ConsumerTypeOK'
<1>1. savers \in Seq(Saver) /\ savers[s] \in Saver
  BY DEF ConsumerTypeOK
<1>2. buffer' \in Seq(Id)
  BY DEF ConsumerTypeOK, SaverOpen, SaverWrite, SaverDone, SaverOpenFails, SaverWriteFails
<1>3. savers' \in Seq(Saver)
  <2>1. ASSUME NEW p \in SaverPc PROVE [savers EXCEPT ![s].pc = p] \in Seq(Saver)
    <3>1. [savers[s] EXCEPT !.pc = p] \in Saver
      BY <1>1 DEF Saver
    <3> QED
      BY <1>1, <3>1, ExceptSeq
  <2>2. CASE SaverWrite(s)
    <3>1. [savers[s] EXCEPT !.n = @ + 1, !.at = @ + Length[NextOf(s)]] \in Saver
      <4>1. savers[s].n + 1 \in Nat /\ savers[s].at + Length[NextOf(s)] \in Nat
        <5>1. Length[NextOf(s)] \in Nat
          BY <2>2, NextIsId DEF SaverWrite
        <5>2. savers[s].n \in Nat /\ savers[s].at \in Nat
          BY <1>1 DEF Saver
        <5> QED
          BY <5>1, <5>2
      <4> QED
        BY <1>1, <4>1 DEF Saver
    <3>2. savers' = [savers EXCEPT ![s] = [savers[s] EXCEPT !.n = @ + 1, !.at = @ + Length[NextOf(s)]]]
      BY <1>1, <2>2 DEF SaverWrite, NextOf
    <3> QED
      BY <1>1, <3>1, <3>2, ExceptSeq
  <2> QED
    BY <2>1, <2>2
    DEF SaverOpen, SaverDone, SaverOpenFails, SaverWriteFails, SaverPc
<1>4. files' \in [Id \X Id -> SUBSET (Nat \X Id)]
  <2>1. CASE SaverOpen(s)
    BY <2>1 DEF SaverOpen, ConsumerTypeOK, EmptyFile
  <2>2. CASE SaverWrite(s) \/ SaverWriteFails(s)
    <3> DEFINE name == FileName(savers[s].batch)
               at == savers[s].at
               m == NextOf(s)
    <3>1. m \in Id /\ at \in Nat
      BY <1>1, <2>2, NextIsId DEF SaverWrite, SaverWriteFails, Saver
    <3>2. \E len : \/ files' = [files EXCEPT ![name] = WrittenOver(@, at, len, m) \cup {<<at, m>>}]
                    \/ files' = [files EXCEPT ![name] = WrittenOver(@, at, len, m)]
      BY <2>2 DEF SaverWrite, SaverWriteFails, NextOf
    <3> HIDE DEF name, at, m
    <3>3. PICK len : \/ files' = [files EXCEPT ![name] = WrittenOver(@, at, len, m) \cup {<<at, m>>}]
                     \/ files' = [files EXCEPT ![name] = WrittenOver(@, at, len, m)]
      BY <3>2
    <3>4. ASSUME name \in DOMAIN files PROVE WrittenOver(files[name], at, len, m) \cup {<<at, m>>} \subseteq Nat \X Id
      BY <3>1, <3>4 DEF ConsumerTypeOK, WrittenOver
    <3>5. \E F \in SUBSET (Nat \X Id) : name \in DOMAIN files => files' = [files EXCEPT ![name] = F]
      <4>1. CASE name \notin DOMAIN files
        BY <4>1
      <4>2. CASE files' = [files EXCEPT ![name] = WrittenOver(files[name], at, len, m) \cup {<<at, m>>}]
        BY <3>4, <4>1, <4>2
      <4>3. CASE files' = [files EXCEPT ![name] = WrittenOver(files[name], at, len, m)]
        BY <3>4, <4>1, <4>3
      <4> QED
        BY <3>3, <4>1, <4>2, <4>3
    <3>6. name \notin DOMAIN files => files' = files
      BY <3>3 DEF ConsumerTypeOK
    <3> QED
      BY <3>5, <3>6 DEF ConsumerTypeOK
  <2>3. CASE UNCHANGED files
    BY <2>3 DEF ConsumerTypeOK
  <2> QED
    BY <2>1, <2>2, <2>3 DEF SaverDone, SaverOpenFails
<1> QED
  BY <1>2, <1>3, <1>4 DEF ConsumerTypeOK

(* A counted event keeps the type of the counters.                         *)
LEMMA HappensType ==
  ASSUME events \in [Event -> Nat], NEW e \in Event, Happens(e)
  PROVE  events' \in [Event -> Nat]
BY DEF Happens

(* The end of the process keeps the type invariant.                        *)
LEMMA LoseMemoryType ==
  ASSUME TypeOK, LoseMemory, UNCHANGED <<files, stored, produced, stream>>,
         events' \in [Event -> Nat]
  PROVE  TypeOK'
<1>1. ConsumerTypeOK'
  <2>1. buffer' = <<>> /\ savers' = <<>> /\ files' = files
    BY DEF LoseMemory
  <2> QED
    BY <2>1, EmptyType DEF TypeOK, ConsumerTypeOK
<1>2. messages' \in Seq(Id)
  BY EmptyType DEF LoseMemory
<1>3. /\ run' \in BOOLEAN /\ loop' \in LoopPc /\ main' \in MainPc
      /\ pos' \in Nat \ {0}
      /\ loop' # "consume"
  <2>1. run' = FALSE /\ loop' = "exited" /\ main' = "down" /\ pos' = 1
    BY Zenon DEF LoseMemory
  <2>2. run' \in BOOLEAN
    BY <2>1, Zenon
  <2>3. loop' \in LoopPc /\ main' \in MainPc /\ loop' # "consume"
    BY <2>1 DEF LoopPc, MainPc
  <2>4. pos' \in Nat \ {0}
    BY <2>1
  <2> QED
    BY <2>2, <2>3, <2>4
<1> QED
  BY <1>1, <1>2, <1>3 DEF TypeOK

(* Every step keeps the type invariant.                                    *)
LEMMA NextTypeOK == TypeOK /\ [Next]_vars => TypeOK'
<1> SUFFICES ASSUME TypeOK, [Next]_vars PROVE TypeOK'
  OBVIOUS
<1> USE DEF TypeOK, LoopPc, MainPc
<1>1. ASSUME NEW m \in Id, Produce(m) PROVE TypeOK'
  BY <1>1 DEF Produce, consumerVars, loopVars, ConsumerTypeOK
<1>2. CASE GetNext
  <2>1. PICK c \in Chunks(stored) : messages' = c /\ loop' = IF c = <<>> THEN "sleep" ELSE "consume"
    BY <1>2 DEF GetNext
  <2>2. c \in Seq(Id)
    BY <2>1, ChunkType
  <2>3. loop' = "consume" => 1 \in DOMAIN c
    BY <2>1, <2>2
  <2> QED
    BY <1>2, <2>1, <2>2, <2>3 DEF GetNext, consumerVars, ConsumerTypeOK
<1>3. CASE GetNextThrows
  BY <1>3, HappensType DEF GetNextThrows, consumerVars, ConsumerTypeOK, Event
<1>4. CASE Consume
  <2>1. messages[pos] \in Id /\ pos \in 1 .. Len(messages)
    BY <1>4 DEF Consume
  <2>2. ConsumerTypeOK'
    BY <1>4, <2>1, PushType DEF Consume
  <2>3. loop' = "consume" => pos + 1 \in DOMAIN messages
    BY <1>4, <2>1 DEF Consume, AtEnd
  <2> QED
    BY <1>4, <2>1, <2>2, <2>3 DEF Consume
<1>5. CASE ConsumeThrows
  <2>1. messages[pos] \in Id
    BY <1>5 DEF ConsumeThrows
  <2>2. ConsumerTypeOK'
    BY <1>5, <2>1, PushType DEF ConsumeThrows
  <2> QED
    BY <1>5, <2>1, <2>2, HappensType, SMTT(30) DEF ConsumeThrows, Event
<1>6. CASE MarkConsumed
  BY <1>6 DEF MarkConsumed, consumerVars, ConsumerTypeOK
<1>7. CASE MarkConsumedThrows
  BY <1>7, HappensType DEF MarkConsumedThrows, consumerVars, ConsumerTypeOK, Event
<1>8. CASE Wake \/ LeaveLoop
  BY <1>8 DEF Wake, AfterPause, LeaveLoop, consumerVars, ConsumerTypeOK
<1>9. ASSUME NEW s \in DOMAIN savers, SaverSteps(s) PROVE TypeOK'
  <2>1. ConsumerTypeOK'
    BY <1>9, SaverType DEF SaverSteps
  <2> QED
    BY <1>9, <2>1 DEF SaverSteps, loopVars
<1>10. ASSUME NEW s \in DOMAIN savers, SaverFails(s) PROVE TypeOK'
  <2>1. ConsumerTypeOK'
    BY <1>10, SaverType DEF SaverFails
  <2> QED
    BY <1>10, <2>1, HappensType DEF SaverFails, loopVars, Event
<1>11. CASE Signal
  BY <1>11, HappensType DEF Signal, StopRunning, consumerVars, ConsumerTypeOK, Event
<1>12. CASE Join
  <2>1. buffer \in Seq(Id) /\ <<>> \in Seq(Id) /\ savers \in Seq(Saver)
    BY DEF ConsumerTypeOK
  <2>2. PICK last \in Saver : savers' = Append(savers, last)
    BY <1>12, <2>1, NewSaverType DEF Join
  <2> QED
    BY <1>12, <2>1, <2>2 DEF Join, loopVars, ConsumerTypeOK
<1>13. CASE Exit
  BY <1>13, LoseMemoryType DEF Exit
<1>14. CASE Crash
  BY <1>14, LoseMemoryType, HappensType DEF Crash, Event
<1>15. CASE Start
  BY <1>15 DEF Start, consumerVars, ConsumerTypeOK
<1>16. CASE UNCHANGED vars
  BY <1>16 DEF vars, consumerVars, loopVars, ConsumerTypeOK
<1> QED
  BY <1>1, <1>2, <1>3, <1>4, <1>5, <1>6, <1>7, <1>8, <1>9, <1>10, <1>11, <1>12,
     <1>13, <1>14, <1>15, <1>16 DEF Next, RunLoop, Savers, Main

(* TypeOK holds for every id set, chunk size and number of faults; with it *)
(* the run loop never reads past the end of a chunk.                       *)
THEOREM TypeCorrect == Spec => []TypeOK
BY InitTypeOK, NextTypeOK, PTL DEF Spec

-----------------------------------------------------------------------------
(* What append adds to the messages handed over.                           *)
LEMMA RangeAppend ==
  ASSUME NEW S, NEW q \in Seq(S), NEW m \in S
  PROVE  Range(Append(q, m)) = Range(q) \cup {m}
<1>1. /\ DOMAIN Append(q, m) = 1 .. Len(q) + 1
      /\ DOMAIN q = 1 .. Len(q)
      /\ Append(q, m)[Len(q) + 1] = m
      /\ \A i \in 1 .. Len(q) : Append(q, m)[i] = q[i]
  OBVIOUS
<1>2. Range(Append(q, m)) \subseteq Range(q) \cup {m}
  BY <1>1 DEF Range
<1>3. m \in Range(Append(q, m))
  BY <1>1 DEF Range
<1>4. ASSUME NEW x \in Range(q) PROVE x \in Range(Append(q, m))
  <2>1. PICK i \in 1 .. Len(q) : x = q[i]
    BY <1>1 DEF Range
  <2>2. i \in DOMAIN Append(q, m) /\ Append(q, m)[i] = x
    BY <1>1, <2>1
  <2> QED
    BY <2>2 DEF Range
<1> QED
  BY <1>2, <1>3, <1>4

(* The message that operator() is at belongs to the chunk.                 *)
LEMMA AtPos ==
  ASSUME TypeOK, loop = "consume"
  PROVE  /\ messages[pos] \in Id
         /\ messages[pos] \in Range(messages)
         /\ pos \in 1 .. Len(messages)
BY DEF TypeOK, Range

(* At the start there is no chunk in hand.                                 *)
LEMMA InitChunkInHand == Init => ChunkInHand
BY DEF Init, ChunkInHand

(* Every step keeps what is known of the chunk in hand.                    *)
LEMMA NextChunkInHand == TypeOK /\ ChunkInHand /\ [Next]_vars => ChunkInHand'
<1> SUFFICES ASSUME TypeOK, ChunkInHand, [Next]_vars PROVE ChunkInHand'
  OBVIOUS
<1>1. ASSUME NEW m \in Id, Produce(m) PROVE ChunkInHand'
  BY <1>1 DEF Produce, ChunkInHand, loopVars
<1>2. CASE GetNext
  <2>1. PICK c \in Chunks(stored) : messages' = c /\ loop' = IF c = <<>> THEN "sleep" ELSE "consume"
    BY <1>2 DEF GetNext
  <2>2. Range(c) \subseteq stored
    BY <2>1, ChunkType
  <2>3. pos' = 1 /\ stored' = stored
    BY <1>2 DEF GetNext
  <2> QED
    BY <2>1, <2>2, <2>3 DEF ChunkInHand
<1>3. CASE Consume
  <2>1. messages[pos] \in Id /\ pos \in 1 .. Len(messages)
    BY <1>3, AtPos DEF Consume
  <2>2. Range(stream') = Range(stream) \cup {messages[pos]}
    BY <1>3, <2>1, RangeAppend DEF Consume, TypeOK
  <2>3. \A i \in 1 .. pos : messages[i] \in Range(stream')
    BY <1>3, <2>1, <2>2 DEF ChunkInHand, Consume
  <2>4. CASE pos = Len(messages)
    <3>1. Range(messages) \subseteq Range(stream')
      BY <2>3, <2>4 DEF Range, TypeOK
    <3> QED
      BY <1>3, <2>4, <3>1 DEF ChunkInHand, Consume, AtEnd
  <2>5. CASE pos # Len(messages)
    <3>1. 1 .. (pos + 1) - 1 = 1 .. pos
      BY <2>1
    <3> QED
      BY <1>3, <2>3, <2>5, <3>1 DEF ChunkInHand, Consume, AtEnd
  <2> QED
    BY <2>4, <2>5
<1>4. CASE GetNextThrows \/ ConsumeThrows \/ MarkConsumed \/ MarkConsumedThrows \/ Wake \/ LeaveLoop
  <2>1. loop' \notin {"consume", "mark"}
    BY <1>4 DEF GetNextThrows, ConsumeThrows, MarkConsumed, MarkConsumedThrows, Wake, AfterPause, LeaveLoop
  <2> QED
    BY <2>1 DEF ChunkInHand
<1>5. ASSUME NEW s \in DOMAIN savers, SaverSteps(s) \/ SaverFails(s) PROVE ChunkInHand'
  BY <1>5 DEF SaverSteps, SaverFails, loopVars, ChunkInHand
<1>6. CASE Signal \/ Join
  BY <1>6 DEF Signal, Join, loopVars, ChunkInHand
<1>7. CASE Exit \/ Crash \/ Start
  <2>1. loop' \notin {"consume", "mark"}
    BY <1>7 DEF Exit, Crash, Start, LoseMemory
  <2> QED
    BY <2>1 DEF ChunkInHand
<1>8. CASE UNCHANGED vars
  BY <1>8 DEF vars, loopVars, ChunkInHand
<1> QED
  BY <1>1, <1>2, <1>3, <1>4, <1>5, <1>6, <1>7, <1>8 DEF Next, RunLoop, Savers, Main

(* What markConsumed deletes has been handed to the consumer, always.      *)
THEOREM ChunkInHandAlways == Spec => [](TypeOK /\ ChunkInHand)
BY InitTypeOK, NextTypeOK, InitChunkInHand, NextChunkInHand, PTL DEF Spec

-----------------------------------------------------------------------------
(* The initial state is one of the abstract specification.                 *)
LEMMA InitRefines == Init => AtLeastOnce!Init
<1> SUFFICES ASSUME Init PROVE AtLeastOnce!Init
  OBVIOUS
<1>1. Range(stream) = {}
  BY DEF Init, Range
<1> QED
  BY <1>1 DEF Init, AtLeastOnce!Init

(* Every step is an abstract step or leaves the abstract state alone.      *)
LEMMA NextRefines ==
  TypeOK /\ ChunkInHand /\ [Next]_vars => [AtLeastOnce!Next]_(AtLeastOnce!vars)
<1> SUFFICES ASSUME TypeOK, ChunkInHand, [Next]_vars
             PROVE  AtLeastOnce!Next \/ UNCHANGED AtLeastOnce!vars
  BY DEF AtLeastOnce!vars
<1> USE DEF AtLeastOnce!vars
<1>1. ASSUME NEW m \in Id, Produce(m) PROVE AtLeastOnce!Accept(m)
  BY <1>1 DEF Produce, AtLeastOnce!Accept
<1>2. CASE Consume \/ ConsumeThrows
  <2>1. loop = "consume" /\ stream' = Append(stream, messages[pos]) /\ UNCHANGED <<stored, produced>>
    BY <1>2 DEF Consume, ConsumeThrows
  <2>2. messages[pos] \in Id /\ messages[pos] \in Range(messages)
    BY <2>1, AtPos
  <2>3. messages[pos] \in stored
    BY <2>1, <2>2 DEF ChunkInHand
  <2>4. Range(stream') = Range(stream) \cup {messages[pos]}
    BY <2>1, <2>2, RangeAppend DEF TypeOK
  <2>5. AtLeastOnce!Take(messages[pos])
    BY <2>1, <2>3, <2>4 DEF AtLeastOnce!Take, Range
  <2> QED
    BY <2>2, <2>5 DEF AtLeastOnce!Next
<1>3. CASE MarkConsumed \/ MarkConsumedThrows
  <2>1. /\ loop = "mark" /\ UNCHANGED <<produced, stream>>
        /\ stored' \in {stored, stored \ Range(messages)}
    BY <1>3 DEF MarkConsumed, MarkConsumedThrows, ToDelete
  <2>2. Range(messages) \subseteq Range(stream)
    BY <2>1 DEF ChunkInHand
  <2>3. Range(messages) \in SUBSET Id
    BY DEF TypeOK, Range
  <2>4. CASE stored' = stored \ Range(messages)
    <3>1. AtLeastOnce!Acknowledge(Range(messages))
      BY <2>1, <2>2, <2>4 DEF AtLeastOnce!Acknowledge
    <3> QED
      BY <2>3, <3>1 DEF AtLeastOnce!Next
  <2>5. CASE stored' = stored
    BY <2>1, <2>5
  <2> QED
    BY <2>1, <2>4, <2>5
<1>4. CASE Start
  <2>1. stream' = <<>> /\ UNCHANGED <<stored, produced>>
    BY <1>4 DEF Start
  <2>2. Range(stream') = {}
    BY <2>1 DEF Range
  <2> QED
    BY <2>1, <2>2 DEF AtLeastOnce!NewReceiver, AtLeastOnce!Next
<1>5. CASE GetNext \/ GetNextThrows \/ Wake \/ LeaveLoop \/ Signal \/ Join \/ Exit \/ Crash
  BY <1>5 DEF GetNext, GetNextThrows, Wake, LeaveLoop, Signal, Join, Exit, Crash
<1>6. ASSUME NEW s \in DOMAIN savers, SaverSteps(s) \/ SaverFails(s)
      PROVE  UNCHANGED AtLeastOnce!vars
  BY <1>6 DEF SaverSteps, SaverFails
<1>7. CASE UNCHANGED vars
  BY <1>7 DEF vars
<1> QED
  BY <1>1, <1>2, <1>3, <1>4, <1>5, <1>6, <1>7
  DEF Next, RunLoop, Savers, Main, AtLeastOnce!Next

(* gwback implements at-least-once delivery into its consumer, for every   *)
(* id set, chunk size, kind of storage and number of faults and restarts.  *)
THEOREM ImplementsAtLeastOnce == Spec => AtLeastOnceSpec
BY InitTypeOK, NextTypeOK, InitChunkInHand, NextChunkInHand, InitRefines, NextRefines, PTL
DEF Spec, AtLeastOnceSpec, AtLeastOnce!Spec
-----------------------------------------------------------------------------
(* No deletion and no flush has failed.                                    *)
Quiet == Never("mark") /\ Never("spawn")

(* While nothing fails, what this process has handed over is out of the    *)
(* storage, except for the part of the chunk in hand.                      *)
HandedOver ==
  /\ loop = "consume" => Range(stream) \cap stored \subseteq {messages[i] : i \in 1 .. pos - 1}
  /\ loop = "mark" => Range(stream) \cap stored \subseteq Range(messages)
  /\ Up /\ loop \notin {"consume", "mark"} => Range(stream) \cap stored = {}

Ascending(q) == \A i, j \in DOMAIN q : i < j => q[i] < q[j]

(* NoRedelivery made inductive.                                            *)
OnceInv ==
  /\ ~Up => loop = "exited"
  /\ Range(stream) \subseteq produced
  /\ loop = "consume" => Ascending(messages)
  /\ Quiet => IsInjective(stream) /\ HandedOver

(* InOrder made inductive: over a Redis stream all that is still to be     *)
(* handed over comes after what was, and after the chunk in hand.          *)
OrderInv ==
  /\ loop = "consume" =>
       \A y \in stored \ Range(messages) : \A i \in DOMAIN messages : messages[i] < y
  /\ \A x \in Range(stream), y \in stored \ Range(stream) : x < y
  /\ Quiet => Ascending(stream)

(* Events are counted and never forgotten.                                 *)
LEMMA NeverBefore ==
  ASSUME TypeOK, [Next]_vars, NEW d \in Event, Never(d)'
  PROVE  Never(d)
<1>1. events \in [Event -> Nat]
  BY DEF TypeOK
<1>2. ASSUME NEW e \in Event, Happens(e) PROVE Never(d)
  <2>1. events' = [events EXCEPT ![e] = @ + 1]
    BY <1>2 DEF Happens
  <2> QED
    BY <1>1, <2>1 DEF Never
<1>3. CASE UNCHANGED events
  BY <1>3 DEF Never
<1>4. UNCHANGED events \/ \E e \in Event : Happens(e)
  BY DEF Next, vars, Produce, RunLoop, GetNext, GetNextThrows, Consume, ConsumeThrows, MarkConsumed,
         MarkConsumedThrows, Wake, LeaveLoop, Savers, SaverSteps, SaverFails, Main, Join, Exit,
         Signal, Crash, Start, Event
<1> QED
  BY <1>2, <1>3, <1>4

(* So what was quiet at the end was quiet all along.                       *)
LEMMA QuietBefore ==
  ASSUME TypeOK, [Next]_vars, Quiet'
  PROVE  Quiet
BY NeverBefore DEF Quiet, Event

(* A failed flush or deletion is not quiet.                                *)
LEMMA Noticed ==
  ASSUME TypeOK, NEW e \in {"mark", "spawn"}, Happens(e)
  PROVE  ~Quiet'
<1>1. events \in [Event -> Nat] /\ e \in Event
  BY DEF TypeOK, Event
<1>2. events'[e] = events[e] + 1
  BY <1>1 DEF Happens
<1> QED
  BY <1>1, <1>2 DEF Quiet, Never

(* The next message of the chunk, while nothing has failed, is one that    *)
(* was not handed over before.                                             *)
LEMMA NextIsNew ==
  ASSUME TypeOK, ChunkInHand, OnceInv, Quiet, loop = "consume"
  PROVE  messages[pos] \in stored \ Range(stream)
<1>1. messages[pos] \in stored /\ pos \in 1 .. Len(messages) /\ DOMAIN messages = 1 .. Len(messages)
  BY AtPos DEF ChunkInHand, TypeOK
<1>2. ASSUME NEW i \in 1 .. pos - 1 PROVE messages[i] # messages[pos]
  <2>1. i \in DOMAIN messages /\ pos \in DOMAIN messages /\ i < pos
    BY <1>1
  <2>2. messages[i] < messages[pos]
    BY <2>1 DEF OnceInv, Ascending
  <2>3. messages[i] \in Id /\ messages[pos] \in Id
    BY <2>1 DEF TypeOK
  <2>4. messages[i] \in Nat /\ messages[pos] \in Nat
    BY <2>3, IdAssumption
  <2> QED
    BY <2>2, <2>4
<1>3. messages[pos] \notin {messages[i] : i \in 1 .. pos - 1}
  BY <1>2
<1> QED
  BY <1>1, <1>3 DEF OnceInv, HandedOver

(* A sequence without duplicates stays one when a new element is appended. *)
LEMMA InjectiveAppend ==
  ASSUME NEW S, NEW q \in Seq(S), IsInjective(q), NEW m \in S \ Range(q)
  PROVE  IsInjective(Append(q, m))
<1>1. /\ DOMAIN Append(q, m) = 1 .. Len(q) + 1
      /\ DOMAIN q = 1 .. Len(q) /\ Len(q) \in Nat
      /\ Append(q, m)[Len(q) + 1] = m
      /\ \A i \in 1 .. Len(q) : Append(q, m)[i] = q[i]
  OBVIOUS
<1>2. \A i \in 1 .. Len(q) : q[i] # m
  BY <1>1 DEF Range
<1> QED
  BY <1>1, <1>2 DEF IsInjective

(* A chunk is ascending and lies below the rest of the storage.            *)
LEMMA ChunkOrder ==
  ASSUME NEW S, NEW c \in Chunks(S)
  PROVE  /\ Ascending(c)
         /\ \A y \in S \ Range(c) : \A i \in DOMAIN c : c[i] < y
BY DEF Chunks, Ascending

(* Steps that touch neither the storage nor the chunk nor the stream.      *)
LEMMA OnceKept ==
  ASSUME OnceInv, Quiet' => Quiet, UNCHANGED <<stored, produced, stream, messages, pos>>,
         Up' => Up, ~Up' => loop' = "exited",
         loop' = loop \/ (loop' \notin {"consume", "mark"} /\ (Up' => loop \notin {"consume", "mark"}))
  PROVE  OnceInv'
<1>1. CASE loop' = loop
  BY <1>1 DEF OnceInv, HandedOver
<1>2. CASE loop' \notin {"consume", "mark"} /\ (Up' => loop \notin {"consume", "mark"})
  BY <1>2 DEF OnceInv, HandedOver
<1> QED
  BY <1>1, <1>2

(* At the start nothing has been handed over.                              *)
LEMMA InitOnce == Init => OnceInv
<1> SUFFICES ASSUME Init PROVE OnceInv
  OBVIOUS
<1>1. Range(stream) = {} /\ IsInjective(stream)
  BY DEF Init, Range, IsInjective
<1> QED
  BY <1>1 DEF Init, OnceInv, HandedOver, Up

(* Every step keeps NoRedelivery and what makes it inductive.              *)
LEMMA NextOnce == TypeOK /\ ChunkInHand /\ OnceInv /\ [Next]_vars => OnceInv'
<1> SUFFICES ASSUME TypeOK, ChunkInHand, OnceInv, [Next]_vars PROVE OnceInv'
  OBVIOUS
<1>0. Quiet' => Quiet
  BY QuietBefore
<1>1. ASSUME NEW m \in Id, Produce(m) PROVE OnceInv'
  <2>1. /\ m \notin Range(stream)
        /\ stored' = stored \cup {m} /\ produced' = produced \cup {m}
        /\ UNCHANGED <<loop, messages, pos, main, stream>>
    BY <1>1 DEF Produce, OnceInv, loopVars
  <2>2. Range(stream') \cap stored' = Range(stream) \cap stored
    BY <2>1
  <2> QED
    BY <1>0, <2>1, <2>2 DEF OnceInv, HandedOver, Up
<1>2. CASE GetNext
  <2>1. PICK c \in Chunks(stored) : messages' = c /\ loop' = IF c = <<>> THEN "sleep" ELSE "consume"
    BY <1>2 DEF GetNext
  <2>2. Ascending(messages')
    BY <2>1, ChunkOrder
  <2>3. Up /\ UNCHANGED <<stored, produced, main, stream>>
    BY <1>2 DEF GetNext, OnceInv
  <2>4. ASSUME Quiet' PROVE HandedOver' /\ IsInjective(stream')
    <3>1. IsInjective(stream) /\ Range(stream) \cap stored = {}
      BY <1>0, <1>2, <2>3, <2>4 DEF GetNext, OnceInv, HandedOver
    <3>2. IsInjective(stream') /\ Range(stream') \cap stored' = {} /\ loop' # "mark"
      BY <2>1, <2>3, <3>1
    <3> QED
      BY <3>2 DEF HandedOver
  <2> QED
    BY <2>2, <2>3, <2>4 DEF OnceInv, Up
<1>3. CASE Consume
  <2>1. /\ loop = "consume" /\ Up /\ pos \in 1 .. Len(messages) /\ messages[pos] \in Id
        /\ Range(stream') = Range(stream) \cup {messages[pos]}
    BY <1>3, AtPos, RangeAppend DEF Consume, TypeOK, OnceInv
  <2>2. /\ stream' = Append(stream, messages[pos]) /\ pos' = pos + 1
        /\ loop' = IF pos = Len(messages) THEN "mark" ELSE "consume"
        /\ UNCHANGED <<stored, produced, messages, main>>
    BY <1>3 DEF Consume, AtEnd
  <2>3. Range(stream') \subseteq produced'
    <3>1. messages[pos] \in produced
      BY <2>1, AtPos DEF ChunkInHand, TypeOK
    <3> QED
      BY <2>1, <2>2, <3>1 DEF OnceInv
  <2>4. ASSUME Quiet' PROVE IsInjective(stream')
    <3>1. messages[pos] \notin Range(stream) /\ IsInjective(stream)
      BY <1>0, <2>1, <2>4, NextIsNew DEF OnceInv
    <3> QED
      BY <2>1, <2>2, <3>1, InjectiveAppend DEF TypeOK
  <2>5. ASSUME Quiet' PROVE HandedOver'
    <3>1. Range(stream) \cap stored \subseteq {messages[i] : i \in 1 .. pos - 1}
      BY <1>0, <2>1, <2>5 DEF OnceInv, HandedOver
    <3>2. Range(stream') \cap stored' \subseteq {messages[i] : i \in 1 .. pos}
      BY <2>1, <2>2, <3>1, SMTT(30)
    <3>3. pos' - 1 = pos /\ DOMAIN messages = 1 .. Len(messages) /\ 1 .. pos \subseteq 1 .. Len(messages)
      BY <2>1, <2>2 DEF TypeOK
    <3>4. {messages[i] : i \in 1 .. pos} \subseteq Range(messages)
      BY <3>3 DEF Range
    <3> QED
      BY <2>2, <3>2, <3>3, <3>4 DEF HandedOver
  <2> QED
    BY <2>1, <2>2, <2>3, <2>4, <2>5 DEF OnceInv, Up
<1>4. CASE ConsumeThrows
  <2>1. ~Quiet'
    BY <1>4, Noticed DEF ConsumeThrows
  <2>2. /\ loop' = "sleep" /\ UNCHANGED <<produced, main>>
        /\ Range(stream') = Range(stream) \cup {messages[pos]}
    BY <1>4, AtPos, RangeAppend DEF ConsumeThrows, TypeOK
  <2>3. messages[pos] \in produced
    BY <1>4, AtPos DEF ConsumeThrows, ChunkInHand, TypeOK
  <2> QED
    BY <1>4, <2>1, <2>2, <2>3 DEF OnceInv, Up, ConsumeThrows
<1>5. CASE MarkConsumed
  <2>1. /\ loop = "mark" /\ loop' = "while" /\ stored' = stored \ Range(messages)
        /\ UNCHANGED <<produced, messages, main, stream>>
    BY <1>5 DEF MarkConsumed, ToDelete
  <2>2. Quiet => Range(stream) \cap stored \subseteq Range(messages)
    BY <2>1 DEF OnceInv, HandedOver
  <2>3. Quiet => Range(stream) \cap stored' = {}
    BY <2>1, <2>2
  <2> QED
    BY <1>0, <2>1, <2>3 DEF OnceInv, HandedOver, Up
<1>6. CASE MarkConsumedThrows
  <2>1. ~Quiet'
    BY <1>6, Noticed DEF MarkConsumedThrows
  <2> QED
    BY <1>6, <2>1 DEF MarkConsumedThrows, OnceInv, Up
<1>7. CASE GetNextThrows \/ Wake \/ LeaveLoop \/ Signal \/ Join
  BY <1>0, <1>7, OnceKept DEF GetNextThrows, Wake, AfterPause, LeaveLoop, Signal, Join, loopVars, Up, OnceInv
<1>8. CASE Exit \/ Crash
  <2>1. ~Up' /\ loop' = "exited" /\ UNCHANGED <<produced, stream>>
    BY <1>8 DEF Exit, Crash, LoseMemory, Up
  <2> QED
    BY <1>0, <2>1 DEF OnceInv, HandedOver
<1>9. CASE Start
  <2>1. stream' = <<>> /\ loop' = "while" /\ Up'
    BY <1>9 DEF Start, Up
  <2>2. Range(stream') = {} /\ IsInjective(stream')
    BY <2>1 DEF Range, IsInjective
  <2> QED
    BY <2>1, <2>2 DEF OnceInv, HandedOver
<1>10. ASSUME NEW s \in DOMAIN savers, SaverSteps(s) \/ SaverFails(s) PROVE OnceInv'
  BY <1>0, <1>10, OnceKept DEF SaverSteps, SaverFails, loopVars, Up, OnceInv
<1>11. CASE UNCHANGED vars
  BY <1>0, <1>11, OnceKept DEF vars, loopVars, Up, OnceInv
<1> QED
  BY <1>1, <1>2, <1>3, <1>4, <1>5, <1>6, <1>7, <1>8, <1>9, <1>10, <1>11
  DEF Next, RunLoop, Savers, Main

(* As long as no deletion and no flush fails, no message is handed to the  *)
(* consumer twice by one process, whatever the storage's order.            *)
THEOREM NoRedeliveryAlways == Spec => []NoRedelivery
<1>1. OnceInv => NoRedelivery
  BY DEF OnceInv, Quiet, NoRedelivery
<1> QED
  BY <1>1, InitTypeOK, NextTypeOK, InitChunkInHand, NextChunkInHand, InitOnce, NextOnce, PTL DEF Spec

(* A sequence in order stays so when a larger element is appended.         *)
LEMMA AscendingAppend ==
  ASSUME NEW S, NEW q \in Seq(S), Ascending(q), NEW m \in S, \A x \in Range(q) : x < m
  PROVE  Ascending(Append(q, m))
<1>1. /\ DOMAIN Append(q, m) = 1 .. Len(q) + 1
      /\ DOMAIN q = 1 .. Len(q) /\ Len(q) \in Nat
      /\ Append(q, m)[Len(q) + 1] = m
      /\ \A i \in 1 .. Len(q) : Append(q, m)[i] = q[i]
  OBVIOUS
<1>2. \A i \in 1 .. Len(q) : q[i] < m
  BY <1>1 DEF Range
<1> QED
  BY <1>1, <1>2 DEF Ascending

(* At the start nothing is out of order.                                   *)
LEMMA InitOrder == Init => OrderInv
<1> SUFFICES ASSUME Init PROVE OrderInv
  OBVIOUS
<1>1. Range(stream) = {} /\ Ascending(stream)
  BY DEF Init, Range, Ascending
<1> QED
  BY <1>1 DEF Init, OrderInv

(* Steps that take nothing in hand, hand nothing over and store nothing.   *)
LEMMA OrderKept ==
  ASSUME OrderInv, Quiet' => Quiet, stream' = stream, stored' \subseteq stored,
         loop' = "consume" => loop = "consume" /\ messages' = messages
  PROVE  OrderInv'
BY DEF OrderInv, Ascending

(* Every step over a Redis stream keeps the order.                         *)
LEMMA NextOrder ==
  ASSUME Ordered
  PROVE  TypeOK /\ ChunkInHand /\ OnceInv /\ OrderInv /\ [Next]_vars => OrderInv'
<1> SUFFICES ASSUME TypeOK, ChunkInHand, OnceInv, OrderInv, [Next]_vars PROVE OrderInv'
  OBVIOUS
<1>0. Quiet' => Quiet
  BY QuietBefore
<1>1. ASSUME NEW m \in Id, Produce(m) PROVE OrderInv'
  <2>1. /\ stored' = stored \cup {m} /\ UNCHANGED <<loop, messages, stream>>
        /\ \A k \in produced : k < m
    BY <1>1 DEF Produce, loopVars
  <2>2. \A x \in Range(stream) : x < m
    BY <2>1 DEF OnceInv
  <2>3. ASSUME loop = "consume", NEW i \in DOMAIN messages PROVE messages[i] < m
    <3>1. messages[i] \in produced
      BY <2>3 DEF ChunkInHand, TypeOK, Range
    <3> QED
      BY <2>1, <3>1
  <2> QED
    BY <1>0, <2>1, <2>2, <2>3 DEF OrderInv, Ascending
<1>2. CASE GetNext
  <2>1. PICK c \in Chunks(stored) : messages' = c
    BY <1>2 DEF GetNext
  <2>2. UNCHANGED <<stored, stream>>
    BY <1>2 DEF GetNext
  <2> QED
    BY <1>0, <2>1, <2>2, ChunkOrder DEF OrderInv, Ascending
<1>3. CASE Consume \/ ConsumeThrows
  <2> DEFINE m == messages[pos]
  <2>0. loop = "consume" /\ stream' = Append(stream, m) /\ UNCHANGED <<stored, messages>>
    BY <1>3 DEF Consume, ConsumeThrows
  <2>1. /\ loop = "consume" /\ pos \in 1 .. Len(messages) /\ m \in Id
        /\ DOMAIN messages = 1 .. Len(messages)
        /\ stream' = Append(stream, m) /\ UNCHANGED <<stored, messages>>
        /\ Range(stream') = Range(stream) \cup {m}
    BY <2>0, AtPos, RangeAppend DEF TypeOK
  <2>2. ASSUME NEW y \in stored \ Range(stream') PROVE m < y
    <3>1. CASE y \in Range(messages)
      <4>1. PICK j \in 1 .. Len(messages) : y = messages[j]
        BY <2>1, <3>1 DEF Range
      <4>2. j # pos /\ ~(j \in 1 .. pos - 1)
        BY <2>1, <2>2, <4>1 DEF ChunkInHand
      <4>3. pos < j
        BY <2>1, <4>2
      <4> QED
        BY <2>1, <4>1, <4>3 DEF OnceInv, Ascending
    <3>2. CASE y \notin Range(messages)
      BY <2>1, <2>2, <3>2 DEF OrderInv
    <3> QED
      BY <3>1, <3>2
  <2>3. \A x \in Range(stream'), y \in stored' \ Range(stream') : x < y
    BY <2>1, <2>2 DEF OrderInv
  <2>4. ASSUME Quiet' PROVE Ascending(stream')
    <3>1. m \in stored \ Range(stream)
      BY <1>0, <2>1, <2>4, NextIsNew
    <3>2. Ascending(stream) /\ \A x \in Range(stream) : x < m
      BY <1>0, <2>4, <3>1 DEF OrderInv
    <3> QED
      BY <2>1, <3>2, AscendingAppend DEF TypeOK
  <2> QED
    BY <2>1, <2>3, <2>4 DEF OrderInv
<1>4. CASE GetNextThrows \/ MarkConsumed \/ MarkConsumedThrows \/ Wake \/ LeaveLoop
  BY <1>0, <1>4, OrderKept
  DEF GetNextThrows, MarkConsumed, MarkConsumedThrows, Wake, AfterPause, LeaveLoop
<1>5. CASE Signal \/ Join \/ Exit \/ Crash
  BY <1>0, <1>5, OrderKept DEF Signal, Join, loopVars, Exit, Crash, LoseMemory
<1>6. CASE Start
  <2>1. stream' = <<>> /\ loop' = "while"
    BY <1>6 DEF Start
  <2>2. Range(stream') = {} /\ Ascending(stream')
    BY <2>1 DEF Range, Ascending
  <2> QED
    BY <2>1, <2>2 DEF OrderInv
<1>7. ASSUME NEW s \in DOMAIN savers, SaverSteps(s) \/ SaverFails(s) PROVE OrderInv'
  BY <1>0, <1>7, OrderKept DEF SaverSteps, SaverFails, loopVars
<1>8. CASE UNCHANGED vars
  BY <1>0, <1>8, OrderKept DEF vars, loopVars
<1> QED
  BY <1>1, <1>2, <1>3, <1>4, <1>5, <1>6, <1>7, <1>8 DEF Next, RunLoop, Savers, Main

(* As long as no deletion and no flush fails, the consumer gets the        *)
(* messages of a Redis stream in stream order, once each, however          *)
(* getNext() fails and gwfront's writes interleave with it.                *)
THEOREM InOrderAlways ==
  ASSUME Ordered
  PROVE  Spec => []InOrder
<1>1. OrderInv => InOrder
  BY DEF OrderInv, Ascending, Quiet, InOrder
<1> QED
  BY <1>1, InitTypeOK, NextTypeOK, InitChunkInHand, NextChunkInHand, InitOnce, NextOnce,
     InitOrder, NextOrder, PTL DEF Spec
-----------------------------------------------------------------------------
(* Every set of naturals with a member has a least one.                    *)
LEMMA LeastNat ==
  ASSUME NEW T, T \subseteq Nat, T # {}
  PROVE  \E x \in T : \A y \in T : x <= y
<1> DEFINE Less == OpToRel(<, Nat)
<1>1. \E x \in T : \A y \in T : ~ (<<y, x>> \in Less)
  BY NatLessThanWellFounded, WFMin, Zenon
<1>2. \A x, y \in Nat : y < x => <<y, x>> \in Less
  BY DEF OpToRel
<1> HIDE DEF Less
<1>3. \E R : /\ \E x \in T : \A y \in T : ~ (<<y, x>> \in R)
           /\ \A x, y \in Nat : y < x => <<y, x>> \in R
  BY <1>1, <1>2, Zenon
<1> QED
  <2>1. SUFFICES ASSUME NEW R, NEW x \in T, \A y \in T : ~ (<<y, x>> \in R),
                        \A u, v \in Nat : v < u => <<v, u>> \in R
                 PROVE  \A y \in T : x <= y
    BY <1>3, Zenon
  <2>2. ASSUME NEW y \in T PROVE ~(y < x)
    BY <2>1, <2>2
  <2> QED
    BY <2>2

(* The smallest of the first n ids of a batch.                             *)
Smallest(b, n, v) == (\E j \in 1 .. n : b[j] = v) /\ \A j \in 1 .. n : v <= b[j]

(* One round of the loop keeps the smallest id so far and, as that is      *)
(* never above the current one, the current id as maxId.                   *)
LEMMA NameStepKeeps ==
  ASSUME NEW acc, NEW id \in Nat, acc.min \in Nat, NEW v \in Nat,
         v = IF acc.min <= id THEN acc.min ELSE id
  PROVE  NameStep(acc, id) = [min |-> v, max |-> id]
<1> DEFINE a == acc.min
<1>1. a \in Nat /\ v = IF a <= id THEN a ELSE id
  OBVIOUS
<1> HIDE DEF a
<1>2. Min({a, id}) = v
  <2>1. \A x \in {a, id} : (\A y \in {a, id} : x <= y) => x = v
    BY <1>1
  <2>2. \E x \in {a, id} : \A y \in {a, id} : x <= y
    BY <1>1
  <2>3. Min({a, id}) \in {a, id} /\ \A y \in {a, id} : Min({a, id}) <= y
    BY <2>2, Zenon DEF Min
  <2> QED
    BY <2>1, <2>3, Zenon
<1>3. Max({v, id}) = id
  <2>1. \A x \in {v, id} : (\A y \in {v, id} : x >= y) => x = id
    BY <1>1
  <2>2. \E x \in {v, id} : \A y \in {v, id} : x >= y
    BY <1>1
  <2>3. Max({v, id}) \in {v, id} /\ \A y \in {v, id} : Max({v, id}) >= y
    BY <2>2, Zenon DEF Max
  <2> QED
    BY <2>1, <2>3, Zenon
<1> QED
  BY <1>2, <1>3, Zenon DEF NameStep, a

(* The file of a batch is named after its smallest and its last id.        *)
LEMMA NameOfBatch ==
  ASSUME NEW b \in Seq(Id), b # <<>>
  PROVE  /\ Smallest(b, Len(b), FileName(b)[1])
         /\ FileName(b)[2] = b[Len(b)]
         /\ FileName(b) \in Id \X Id
<1> DEFINE n == Len(b)
           Zero == [min |-> IdMax, max |-> 0]
           Step(f) == [i \in 0 .. n |-> IF i = 0 THEN Zero ELSE NameStep(f[i - 1], b[i])]
           ids == CHOOSE f : f = Step(f)
<1>1. n \in Nat \ {0} /\ \A i \in 1 .. n : b[i] \in Id /\ b[i] \in Nat /\ b[i] <= IdMax
  <2>1. n \in Nat /\ n # 0 /\ \A i \in 1 .. n : b[i] \in Id
    OBVIOUS
  <2> QED
    BY <2>1, IdAssumption
<1>2. ASSUME NEW i \in 1 .. n PROVE \E v : Smallest(b, i, v)
  <2> DEFINE T == {b[j] : j \in 1 .. i}
  <2>1. T \subseteq Nat /\ b[1] \in T
    BY <1>1
  <2>2. PICK x \in T : \A y \in T : x <= y
    BY <2>1, LeastNat
  <2> QED
    BY <2>2 DEF Smallest
<1> DEFINE low == [i \in 1 .. n |-> CHOOSE v : Smallest(b, i, v)]
           g == [i \in 0 .. n |-> IF i = 0 THEN Zero ELSE [min |-> low[i], max |-> b[i]]]
<1>3. \A i \in 1 .. n : Smallest(b, i, low[i])
  BY <1>2, Zenon
<1> HIDE DEF low, n
<1>4. ASSUME NEW i \in 1 .. n PROVE low[i] \in Nat
  <2>1. PICK j \in 1 .. i : b[j] = low[i]
    BY <1>3 DEF Smallest
  <2> QED
    BY <1>1, <2>1
\* one round, whatever maxId was
<1>5. ASSUME NEW i \in 1 .. n, NEW acc, acc.min = IF i = 1 THEN IdMax ELSE low[i - 1]
      PROVE  NameStep(acc, b[i]) = [min |-> low[i], max |-> b[i]]
  <2>1. acc.min \in Nat
    BY <1>1, <1>4, <1>5, IdAssumption
  <2>2. low[i] = IF acc.min <= b[i] THEN acc.min ELSE b[i]
    <3>1. CASE i = 1
      <4>1. Smallest(b, 1, low[1])
        BY <1>3, <3>1
      <4>2. low[1] = b[1] /\ b[1] <= IdMax /\ b[1] \in Nat
        BY <1>1, <3>1, <4>1 DEF Smallest
      <4> QED
        BY <1>5, <3>1, <4>2, IdAssumption
    <3>2. CASE i # 1
      <4>1. i - 1 \in 1 .. n /\ Smallest(b, i - 1, low[i - 1]) /\ Smallest(b, i, low[i])
        BY <1>1, <1>3, <3>2
      <4> QED
        BY <1>1, <1>4, <1>5, <3>2, <4>1 DEF Smallest
    <3> QED
      BY <3>1, <3>2
  <2> QED
    BY <1>1, <1>4, <2>1, <2>2, NameStepKeeps
\* the loop has a result
<1>6. g = Step(g)
  <2>1. ASSUME NEW i \in 0 .. n PROVE g[i] = Step(g)[i]
    <3>1. CASE i = 0
      BY <3>1
    <3>2. CASE i # 0
      <4>1. i \in 1 .. n /\ i - 1 \in 0 .. n
        BY <1>1, <3>2
      <4>2. g[i - 1].min = IF i = 1 THEN IdMax ELSE low[i - 1]
        BY <1>1, <4>1
      <4>3. g[i] = [min |-> low[i], max |-> b[i]]
        BY <3>2
      <4>4. Step(g)[i] = NameStep(g[i - 1], b[i])
        BY <3>2
      <4> QED
        BY <1>5, <4>1, <4>2, <4>3, <4>4
    <3> QED
      BY <3>1, <3>2
  <2> QED
    BY <2>1
<1>7. ids = Step(ids)
  <2> HIDE DEF g
  <2> QED
    BY <1>6, Zenon
<1> HIDE DEF ids
<1>8. ids[0] = Zero /\ \A i \in 1 .. n : ids[i] = NameStep(ids[i - 1], b[i])
  <2>1. \A i \in 0 .. n : ids[i] = IF i = 0 THEN Zero ELSE NameStep(ids[i - 1], b[i])
    BY <1>7
  <2> HIDE DEF Zero
  <2> QED
    BY <1>1, <2>1
\* and only one
<1>9. \A i \in 1 .. n : ids[i] = [min |-> low[i], max |-> b[i]]
  <2> DEFINE T == {i \in 1 .. n : ids[i] # [min |-> low[i], max |-> b[i]]}
  <2>1. CASE T = {}
    BY <2>1
  <2>2. CASE T # {}
    <3>1. PICK i \in T : \A j \in T : i <= j
      <4>1. T \subseteq Nat
        BY <1>1
      <4> QED
        BY <2>2, <4>1, LeastNat, Zenon
    <3>2. ids[i - 1].min = IF i = 1 THEN IdMax ELSE low[i - 1]
      <4>1. CASE i = 1
        BY <1>8, <4>1
      <4>2. CASE i # 1
        <5>1. i - 1 \in 1 .. n /\ i - 1 \notin T
          BY <1>1, <3>1, <4>2
        <5>2. ids[i - 1] = [min |-> low[i - 1], max |-> b[i - 1]]
          BY <5>1
        <5> QED
          BY <4>2, <5>2
      <4> QED
        BY <4>1, <4>2
    <3>3. ids[i] = [min |-> low[i], max |-> b[i]]
      BY <1>5, <1>8, <3>1, <3>2
    <3> QED
      BY <3>1, <3>3
  <2> QED
    BY <2>1, <2>2
<1>10. FileName(b) = <<ids[n].min, ids[n].max>>
  BY Zenon DEF FileName, ids, n
<1>11. FileName(b) = <<low[n], b[n]>>
  <2>1. ids[n] = [min |-> low[n], max |-> b[n]]
    BY <1>1, <1>9
  <2> QED
    BY <1>10, <2>1
<1>12. Smallest(b, n, low[n]) /\ low[n] \in Id /\ b[n] \in Id
  BY <1>1, <1>3 DEF Smallest
<1> QED
  BY <1>11, <1>12 DEF n

(* NamesCoverContents made inductive: what waits in the consumer is part   *)
(* of what was handed over, in order, and so is every batch.               *)
CoverInv ==
  /\ ~Up => buffer = <<>>
  /\ Range(buffer) \subseteq Range(stream)
  /\ Quiet => /\ Ascending(buffer)
              /\ \A s \in DOMAIN savers : Ascending(savers[s].batch)
              /\ NamesCoverContents

(* At the start nothing is covered wrongly: there is no file.              *)
LEMMA InitCover == Init => CoverInv
<1> SUFFICES ASSUME Init PROVE CoverInv
  OBVIOUS
<1>1. buffer = <<>> /\ savers = <<>> /\ Range(buffer) = {} /\ Ascending(buffer) /\ Up
  BY DEF Init, ConsumerInit, Range, Ascending, Up
<1>2. NamesCoverContents
  <2>1. \A name \in DOMAIN files : Contents(name) = {}
    BY DEF Init, ConsumerInit, EmptyFile, Contents
  <2> QED
    BY <2>1 DEF NamesCoverContents
<1> QED
  BY <1>1, <1>2 DEF CoverInv

(* Of a batch in order the name covers every id.                           *)
LEMMA NameCovers ==
  ASSUME NEW b \in Seq(Id), Ascending(b), NEW k \in 1 .. Len(b)
  PROVE  FileName(b)[1] <= b[k] /\ b[k] <= FileName(b)[2]
<1>1. /\ Smallest(b, Len(b), FileName(b)[1])
      /\ FileName(b)[2] = b[Len(b)]
  BY NameOfBatch
<1>2. Len(b) \in 1 .. Len(b) /\ b[k] \in Nat /\ b[Len(b)] \in Nat
  <2>1. Len(b) \in 1 .. Len(b) /\ b[k] \in Id /\ b[Len(b)] \in Id
    OBVIOUS
  <2> QED
    BY <2>1, IdAssumption
<1>3. b[k] <= b[Len(b)]
  BY <1>2 DEF Ascending
<1> QED
  BY <1>1, <1>3 DEF Smallest

(* What a step of a saver makes of the contents of a file.                 *)
LEMMA ContentsOf ==
  ASSUME ConsumerTypeOK, NEW s \in DOMAIN savers, SaverSteps(s) \/ SaverFails(s), NEW name \in DOMAIN files
  PROVE  /\ DOMAIN files' = DOMAIN files
         /\ \/ Contents(name)' \subseteq Contents(name)
            \/ /\ HasMore(s) /\ name = FileName(savers[s].batch)
               /\ Contents(name)' \subseteq Contents(name) \cup {NextOf(s)}
<1>1. files \in [Id \X Id -> SUBSET (Nat \X Id)]
  BY DEF ConsumerTypeOK
<1>2. CASE SaverOpen(s)
  <2>1. files' = [files EXCEPT ![FileName(savers[s].batch)] = {}]
    BY <1>2 DEF SaverOpen, EmptyFile
  <2>2. DOMAIN files' = DOMAIN files /\ files'[name] \subseteq files[name]
    BY <1>1, <2>1
  <2> QED
    BY <2>2 DEF Contents
<1>3. CASE SaverWrite(s) \/ SaverWriteFails(s)
  <2> DEFINE own == FileName(savers[s].batch)
             at == savers[s].at
             m == NextOf(s)
  <2>1. /\ HasMore(s)
        /\ \E len : \/ files' = [files EXCEPT ![own] = WrittenOver(@, at, len, m) \cup {<<at, m>>}]
                    \/ files' = [files EXCEPT ![own] = WrittenOver(@, at, len, m)]
    BY <1>3 DEF SaverWrite, SaverWriteFails, NextOf
  <2> HIDE DEF own, at, m
  <2>2. DOMAIN files' = DOMAIN files /\ (name # own => files'[name] = files[name])
    BY <1>1, <2>1
  <2>3. ASSUME name = own PROVE files'[name] \subseteq files[name] \cup {<<at, m>>}
    <3>1. PICK len : \/ files' = [files EXCEPT ![own] = WrittenOver(@, at, len, m) \cup {<<at, m>>}]
                     \/ files' = [files EXCEPT ![own] = WrittenOver(@, at, len, m)]
      BY <2>1
    <3>2. WrittenOver(files[name], at, len, m) \subseteq files[name]
      BY DEF WrittenOver
    <3> QED
      BY <1>1, <2>3, <3>1, <3>2
  <2>4. <<at, m>>[2] = m
    OBVIOUS
  <2>5. CASE name = own
    <3>1. Contents(name)' \subseteq Contents(name) \cup {m}
      BY <2>3, <2>4, <2>5 DEF Contents
    <3> QED
      BY <2>1, <2>2, <2>5, <3>1 DEF own, m
  <2>6. CASE name # own
    BY <2>2, <2>6 DEF Contents
  <2> QED
    BY <2>5, <2>6
<1>4. CASE UNCHANGED files
  BY <1>4 DEF Contents
<1> QED
  BY <1>2, <1>3, <1>4 DEF SaverSteps, SaverFails, SaverDone, SaverOpenFails

(* The steps of a detached thread keep the contents within the names.      *)
LEMMA SaverCovers ==
  ASSUME ConsumerTypeOK, NEW s \in DOMAIN savers, Ascending(savers[s].batch),
         NEW name \in DOMAIN files, \A m \in Contents(name) : name[1] <= m /\ m <= name[2],
         SaverSteps(s) \/ SaverFails(s)
  PROVE  \A m \in Contents(name)' : name[1] <= m /\ m <= name[2]
<1>1. CASE Contents(name)' \subseteq Contents(name)
  BY <1>1
<1>2. CASE /\ HasMore(s) /\ name = FileName(savers[s].batch)
           /\ Contents(name)' \subseteq Contents(name) \cup {NextOf(s)}
  <2>1. savers[s].batch \in Seq(Id) /\ savers[s].n + 1 \in 1 .. Len(savers[s].batch)
    <3>1. savers[s] \in Saver
      BY DEF ConsumerTypeOK
    <3> QED
      BY <1>2, <3>1, NextIsId DEF Saver
  <2>2. name[1] <= NextOf(s) /\ NextOf(s) <= name[2]
    BY <1>2, <2>1, NameCovers DEF NextOf
  <2> QED
    BY <1>2, <2>2
<1> QED
  BY <1>1, <1>2, ContentsOf

(* What a step of a saver may change of it.                                *)
LEMMA SaverChange ==
  ASSUME ConsumerTypeOK, NEW s \in DOMAIN savers, SaverSteps(s) \/ SaverFails(s)
  PROVE  /\ buffer' = buffer /\ DOMAIN savers' = DOMAIN savers /\ Len(savers') = Len(savers)
         /\ \A t \in DOMAIN savers : savers'[t].batch = savers[t].batch /\ (t # s => savers'[t] = savers[t])
<1>1. savers \in Seq(Saver) /\ savers[s] \in Saver
  BY DEF ConsumerTypeOK
<1>2. \A p, n, at : /\ [savers[s] EXCEPT !.pc = p].batch = savers[s].batch
                    /\ [savers[s] EXCEPT !.n = n, !.at = at].batch = savers[s].batch
  BY <1>1 DEF Saver
<1>3. /\ buffer' = buffer
      /\ \E p, n, at : \/ savers' = [savers EXCEPT ![s].pc = p]
                       \/ savers' = [savers EXCEPT ![s] = [savers[s] EXCEPT !.n = n, !.at = at]]
  <2>1. ASSUME SaverWrite(s) PROVE \E n, at : savers' = [savers EXCEPT ![s] = [savers[s] EXCEPT !.n = n, !.at = at]]
    BY <1>1, <2>1 DEF SaverWrite
  <2> QED
    BY <2>1 DEF SaverSteps, SaverFails, SaverOpen, SaverWrite, SaverDone, SaverOpenFails, SaverWriteFails
<1>4. PICK r : savers' = [savers EXCEPT ![s] = r] /\ r.batch = savers[s].batch
  <2>1. ASSUME NEW p, savers' = [savers EXCEPT ![s].pc = p] PROVE savers' = [savers EXCEPT ![s] = [savers[s] EXCEPT !.pc = p]]
    BY <2>1
  <2>2. CASE \E p : savers' = [savers EXCEPT ![s].pc = p]
    BY <1>2, <2>1, <2>2
  <2>3. CASE \E n, at : savers' = [savers EXCEPT ![s] = [savers[s] EXCEPT !.n = n, !.at = at]]
    <3>1. PICK n, at : savers' = [savers EXCEPT ![s] = [savers[s] EXCEPT !.n = n, !.at = at]]
      BY <2>3
    <3>2. [savers[s] EXCEPT !.n = n, !.at = at].batch = savers[s].batch
      BY <1>2
    <3> QED
      BY <3>1, <3>2
  <2> QED
    BY <1>3, <2>2, <2>3
<1>5. DOMAIN savers' = DOMAIN savers /\ savers'[s] = r /\ \A t \in DOMAIN savers : t # s => savers'[t] = savers[t]
  BY <1>1, <1>4
<1>6. Len(savers') = Len(savers)
  <2>1. Len(savers) \in Nat /\ DOMAIN savers' = 1 .. Len(savers)
    BY <1>1, <1>5
  <2>2. savers' \in Seq(Saver)
    BY SaverType DEF SaverSteps, SaverFails, ConsumerTypeOK
  <2> QED
    BY <2>1, <2>2
<1> QED
  BY <1>3, <1>4, <1>5, <1>6

(* Every step over a Redis stream keeps the contents within the names.     *)
LEMMA NextCover ==
  ASSUME Ordered
  PROVE  TypeOK /\ ChunkInHand /\ OnceInv /\ OrderInv /\ CoverInv /\ [Next]_vars => CoverInv'
<1> SUFFICES ASSUME TypeOK, ChunkInHand, OnceInv, OrderInv, CoverInv, [Next]_vars PROVE CoverInv'
  OBVIOUS
<1>0. Quiet' => Quiet
  BY QuietBefore
<1>1. ASSUME UNCHANGED consumerVars, Range(stream) \subseteq Range(stream'), main' = main PROVE CoverInv'
  BY <1>0, <1>1 DEF CoverInv, consumerVars, Up, NamesCoverContents, Contents, Quiet
<1>2. CASE Consume
  <2> DEFINE m == messages[pos]
             b == Append(buffer, m)
  <2>1. /\ m \in Id /\ buffer \in Seq(Id) /\ savers \in Seq(Saver)
        /\ Range(stream') = Range(stream) \cup {m} /\ Range(b) = Range(buffer) \cup {m}
    BY <1>2, AtPos, RangeAppend DEF Consume, TypeOK, ConsumerTypeOK
  <2>2. /\ UNCHANGED <<files, main>>
        /\ \/ buffer' = b /\ savers' = savers
           \/ buffer' = <<>> /\ savers' = Append(savers, NewSaver(b))
    BY <1>2 DEF Consume, Push
  <2>3. Up /\ loop = "consume"
    BY <1>2 DEF Consume, OnceInv
  <2>4. ASSUME Quiet' PROVE Ascending(b)
    <3>1. m \in stored \ Range(stream)
      BY <1>0, <2>3, <2>4, NextIsNew
    <3>2. \A x \in Range(buffer) : x < m
      BY <3>1 DEF OrderInv, CoverInv
    <3> QED
      BY <1>0, <2>1, <2>4, <3>2, AscendingAppend DEF CoverInv
  <2>5. Range(<<>>) = {} /\ Ascending(<<>>)
    BY DEF Range, Ascending
  <2>6. /\ Up' /\ Range(buffer') \subseteq Range(stream')
        /\ Quiet' => Ascending(buffer')
    BY <2>1, <2>2, <2>3, <2>4, <2>5 DEF CoverInv, Up
  <2>7. ASSUME Quiet' PROVE \A s \in DOMAIN savers' : Ascending(savers'[s].batch)
    <3>1. \A s \in DOMAIN savers : Ascending(savers[s].batch)
      BY <1>0, <2>7 DEF CoverInv
    <3>2. NewSaver(b).batch = b
      BY DEF NewSaver
    <3> HIDE DEF b
    <3>3. ASSUME NEW s \in DOMAIN savers', savers' = Append(savers, NewSaver(b))
          PROVE  (s \in DOMAIN savers /\ savers'[s] = savers[s]) \/ savers'[s] = NewSaver(b)
      BY <2>1, <3>3
    <3> QED
      BY <2>2, <2>4, <2>7, <3>1, <3>2, <3>3
  <2>8. Quiet' => NamesCoverContents'
    BY <1>0, <2>2 DEF CoverInv, NamesCoverContents, Contents, Quiet
  <2> QED
    BY <2>6, <2>7, <2>8 DEF CoverInv
<1>3. CASE ConsumeThrows
  <2>1. ~Quiet' /\ buffer' = <<>>
    BY <1>3, Noticed DEF ConsumeThrows, PushSpawnFails
  <2>2. Range(<<>>) = {}
    BY DEF Range
  <2> QED
    BY <2>1, <2>2 DEF CoverInv
<1>4. ASSUME NEW s \in DOMAIN savers, SaverSteps(s) \/ SaverFails(s) PROVE CoverInv'
  <2>1. UNCHANGED <<stream, main>>
    BY <1>4 DEF SaverSteps, SaverFails
  <2>2. buffer' = buffer /\ DOMAIN savers' = DOMAIN savers /\ \A t \in DOMAIN savers : savers'[t].batch = savers[t].batch
    BY <1>4, SaverChange DEF TypeOK
  <2>3. ASSUME Quiet' PROVE NamesCoverContents'
    <3>1. Ascending(savers[s].batch) /\ NamesCoverContents /\ Quiet
      BY <1>0, <2>3 DEF CoverInv
    <3>2. \A name \in DOMAIN files : \A m \in Contents(name)' : name[1] <= m /\ m <= name[2]
      BY <1>4, <3>1, SaverCovers DEF TypeOK, NamesCoverContents, Contents, Quiet
    <3>3. DOMAIN files' = DOMAIN files
      BY <1>4 DEF SaverSteps, SaverFails, SaverOpen, SaverWrite, SaverDone, SaverOpenFails, SaverWriteFails
    <3> QED
      BY <3>2, <3>3 DEF NamesCoverContents
  <2> QED
    BY <1>0, <2>1, <2>2, <2>3 DEF CoverInv, Up
<1>5. CASE Join
  <2>1. /\ buffer' = <<>> /\ UNCHANGED <<files, stream>> /\ Up'
        /\ \E last \in Saver : savers' = Append(savers, last) /\ (last.batch = <<>> \/ last.batch = buffer)
    <3>1. <<>> \in Seq(Id) /\ buffer \in Seq(Id)
      BY DEF TypeOK, ConsumerTypeOK
    <3>2. NewSaver(buffer).batch = buffer /\ [NewSaver(<<>>) EXCEPT !.pc = "done"].batch = <<>>
      BY DEF NewSaver
    <3> QED
      BY <1>5, <3>1, <3>2, NewSaverType DEF Join, Up
  <2>2. Range(<<>>) = {} /\ Ascending(<<>>)
    BY DEF Range, Ascending
  <2>3. ASSUME Quiet', NEW s \in DOMAIN savers' PROVE Ascending(savers'[s].batch)
    <3>1. PICK last \in Saver : savers' = Append(savers, last) /\ (last.batch = <<>> \/ last.batch = buffer)
      BY <2>1
    <3>2. savers'[s] = last \/ (s \in DOMAIN savers /\ savers'[s] = savers[s])
      BY <3>1, <2>3 DEF TypeOK, ConsumerTypeOK
    <3> QED
      BY <1>0, <2>2, <2>3, <3>1, <3>2 DEF CoverInv
  <2>4. Quiet' => NamesCoverContents'
    BY <1>0, <2>1 DEF CoverInv, NamesCoverContents, Contents, Quiet
  <2> QED
    BY <2>1, <2>2, <2>3, <2>4 DEF CoverInv
<1>6. CASE Exit \/ Crash
  <2>1. buffer' = <<>> /\ savers' = <<>> /\ UNCHANGED <<files, stream>>
    BY <1>6 DEF Exit, Crash, LoseMemory
  <2>2. Range(<<>>) = {} /\ Ascending(<<>>)
    BY DEF Range, Ascending
  <2>3. Quiet' => NamesCoverContents'
    BY <1>0, <2>1 DEF CoverInv, NamesCoverContents, Contents, Quiet
  <2> QED
    BY <2>1, <2>2, <2>3 DEF CoverInv
<1>7. CASE Start
  <2>1. buffer = <<>> /\ UNCHANGED consumerVars
    BY <1>7 DEF Start, CoverInv
  <2>2. Range(<<>>) = {}
    BY DEF Range
  <2> QED
    BY <1>0, <2>1, <2>2 DEF CoverInv, consumerVars, NamesCoverContents, Contents, Quiet
<1>8. CASE (\E m \in Id : Produce(m)) \/ GetNext \/ GetNextThrows \/ MarkConsumed \/ MarkConsumedThrows
           \/ Wake \/ LeaveLoop \/ UNCHANGED vars
  BY <1>1, <1>8 DEF Produce, GetNext, GetNextThrows, MarkConsumed, MarkConsumedThrows, Wake, LeaveLoop, vars
<1>9. CASE Signal
  BY <1>0, <1>9 DEF Signal, CoverInv, consumerVars, Up, NamesCoverContents, Contents, Quiet
<1> QED
  BY <1>2, <1>3, <1>4, <1>5, <1>6, <1>7, <1>8, <1>9 DEF Next, RunLoop, Savers, Main

(* As long as no deletion and no flush fails, the two ids in the name of a *)
(* file bound all that is in it, over a Redis stream, through every stop,  *)
(* kill, restart and failed file: although maxId is only the last id.      *)
THEOREM NamesCoverContentsAlways ==
  ASSUME Ordered
  PROVE  Spec => []NamesCoverContents
<1>1. CoverInv => NamesCoverContents
  BY DEF CoverInv, Quiet, NamesCoverContents
<1> QED
  BY <1>1, InitTypeOK, NextTypeOK, InitChunkInHand, NextChunkInHand, InitOnce, NextOnce,
     InitOrder, NextOrder, InitCover, NextCover, PTL DEF Spec
-----------------------------------------------------------------------------
(* What NothingLost counts out has not happened.                           *)
Calm == \A e \in {"spawn", "crash", "signal"} : Never(e)

(* The chunk in hand, or the last one: the oldest messages of the storage. *)
OldestFirst ==
  /\ Ascending(messages) /\ Len(messages) <= ProducerChunk /\ Range(messages) \subseteq produced
  /\ \A y \in stored \ Range(messages) : \A i \in DOMAIN messages : messages[i] < y
  /\ \A x \in produced \ stored, y \in stored : x < y
  /\ loop \in {"consume", "mark"} => Range(messages) \subseteq stored
  /\ produced \ stored \subseteq Range(stream)

(* The i messages of the stream up to position p are the first i of the    *)
(* chunk.                                                                  *)
Aligned(p, i) == \A e \in 0 .. i - 1 : p - e \in DOMAIN stream /\ stream[p - e] = messages[i - e]

(* What was handed over and is stored still, because its deletion failed,  *)
(* is the beginning of the chunk, and was handed over in that order, with  *)
(* nothing after it that is not stored.                                    *)
Redelivery ==
  /\ Range(stream) \cap stored \subseteq Range(messages)
  /\ Range(stream) \cap stored # {} => Range(messages) \subseteq stored
  /\ \A i, j \in DOMAIN stream : i < j /\ stream[i] \in stored => stream[j] \in stored
  /\ \A p \in DOMAIN stream, i \in DOMAIN messages :
       stream[p] \in stored /\ stream[p] = messages[i] => Aligned(p, i)
  /\ loop \in {"consume", "mark"} => Aligned(Len(stream), pos - 1)
  /\ loop = "mark" => pos = Len(messages) + 1

(* Position f of the stream is the last one of a message that is deleted.  *)
Settled(f) ==
  /\ f \in DOMAIN stream /\ stream[f] \notin stored
  /\ \A j \in DOMAIN stream : j > f => stream[j] # stream[f]

(* After a settled message come only younger ones; and a message handed    *)
(* over both before and after it had it at the same distance before.       *)
SettledOrder ==
  \A f \in DOMAIN stream : Settled(f) =>
    /\ \A q \in DOMAIN stream : f < q => stream[f] < stream[q]
    /\ \A p, q \in DOMAIN stream : p < f /\ f <= q /\ stream[p] = stream[q] =>
         p - (q - f) \in DOMAIN stream /\ stream[p - (q - f)] = stream[f]

(* Where batch s begins in the stream.                                     *)
Offset(s) == (s - 1) * ConsumerChunk

(* The batches and then the buffer are the stream, cut into pieces.        *)
Cut ==
  /\ \A s \in DOMAIN savers : Len(savers[s].batch) = ConsumerChunk
  /\ \A s \in DOMAIN savers : \A k \in Slots :
       Offset(s) + k \in DOMAIN stream /\ stream[Offset(s) + k] = savers[s].batch[k]
  /\ \A k \in DOMAIN buffer : stream[Offset(Len(savers) + 1) + k] = buffer[k]
  /\ Len(buffer) < ConsumerChunk /\ Len(stream) = Offset(Len(savers) + 1) + Len(buffer)
  /\ \A f \in DOMAIN stream :
       \/ f > Offset(Len(savers) + 1)
       \/ \E s \in DOMAIN savers, k \in Slots : f = Offset(s) + k

SameFile(s, t) == FileName(savers[s].batch) = FileName(savers[t].batch)

(* Saver t has yet to write slot k, or will never do it.                   *)
Lacks(t, k) ==
  \/ savers[t].pc = "start"
  \/ savers[t].pc = "open" /\ savers[t].n < k
  \/ savers[t].pc = "done" /\ savers[t].n < Len(savers[t].batch)

(* The length of every message, if there is but one.                       *)
Unit == Length[CHOOSE i \in Id : TRUE]

(* A slot in which all batches of a file have the same message has it in   *)
(* the file too, unless one of them has still to write it or cannot.       *)
SlotsKept ==
  /\ \A s \in DOMAIN savers : savers[s].pc = "start" => savers[s].n = 0
  /\ \A s \in DOMAIN savers : savers[s].at = savers[s].n * Unit
  /\ \A s \in DOMAIN savers, k \in Slots :
       (\A t \in DOMAIN savers : SameFile(s, t) => savers[t].batch[k] = savers[s].batch[k]) =>
         \/ \E t \in DOMAIN savers : SameFile(s, t) /\ Lacks(t, k)
         \/ <<(k - 1) * Unit, savers[s].batch[k]>> \in files[FileName(savers[s].batch)]

(* Message k of saver s is whole in its file, before the byte s has come   *)
(* to.                                                                     *)
WrittenBy(s, k) ==
  \E o \in Nat : /\ <<o, savers[s].batch[k]>> \in files[FileName(savers[s].batch)]
                 /\ o + Length[savers[s].batch[k]] <= savers[s].at

(* What a saver has written stays written, while no other has its file.    *)
KeptBy(s) ==
  /\ savers[s].pc = "start" => savers[s].n = 0
  /\ savers[s].n <= Len(savers[s].batch)
  /\ \A k \in 1 .. savers[s].n : WrittenBy(s, k)

AloneKept == \A s \in DOMAIN savers : KeptBy(s)

(* NothingLost made inductive: what is gone from the storage was handed    *)
(* over, what was handed over is cut into batches, and the files keep the  *)
(* batches; because none shares its file, while no deletion has failed, or *)
(* because those that do agree on what is gone from the storage.           *)
LostInv ==
  Calm =>
    /\ main = "wait" /\ produced \ stored \subseteq Range(stream) /\ Cut
    /\ Ordered /\ EqualLengths => OldestFirst /\ Redelivery /\ SettledOrder /\ SlotsKept
    /\ Never("mark") => AloneKept

(* What is calm at the end was calm all along.                             *)
LEMMA CalmBefore ==
  ASSUME TypeOK, [Next]_vars, Calm'
  PROVE  Calm
<1>1. {"spawn", "crash", "signal"} \subseteq Event
  BY DEF Event
<1> QED
  BY <1>1, NeverBefore DEF Calm

(* A step that leaves the storage, the chunk and the stream alone, and     *)
(* takes nothing in hand.                                                  *)
Aside ==
  /\ UNCHANGED <<stored, produced, messages, pos, stream>>
  /\ loop' = loop \/ loop' \notin {"consume", "mark"}

(* What markConsumed does, whether it throws or not.                       *)
Marks ==
  /\ loop = "mark" /\ loop' \in {"while", "sleep"}
  /\ stored' \in {stored, stored \ Range(messages)}
  /\ UNCHANGED <<produced, messages, pos, stream>>

(* The steps of a process that nobody stops.                               *)
LEMMA CalmStep ==
  ASSUME TypeOK, main = "wait", [Next]_vars, Calm'
  PROVE  /\ main' = "wait"
         /\ \/ (\E m \in Id : Produce(m)) \/ GetNext \/ Consume
            \/ Marks /\ UNCHANGED consumerVars
            \/ Aside /\ UNCHANGED consumerVars
            \/ \E s \in DOMAIN savers : Aside /\ (SaverSteps(s) \/ SaverFails(s))
<1>1. events \in [Event -> Nat]
  BY DEF TypeOK
<1>2. ASSUME NEW e \in {"spawn", "crash", "signal"} PROVE ~Happens(e)
  <2>1. e \in Event
    BY DEF Event
  <2> QED
    BY <1>1, <2>1 DEF Happens, Calm, Never
<1>3. ~ConsumeThrows /\ ~Crash /\ ~Signal
  BY <1>2 DEF ConsumeThrows, Crash, Signal
<1>4. ~Join /\ ~Exit /\ ~Start
  BY DEF Join, Exit, Start, Up
<1>5. CASE (\E m \in Id : Produce(m)) \/ GetNext \/ Consume
  BY <1>5 DEF Produce, GetNext, Consume
<1>6. CASE MarkConsumed \/ MarkConsumedThrows
  <2>1. Marks /\ UNCHANGED consumerVars /\ main' = main
    BY <1>6 DEF MarkConsumed, MarkConsumedThrows, ToDelete, Marks
  <2> QED
    BY <2>1
<1>7. CASE GetNextThrows \/ Wake \/ LeaveLoop \/ UNCHANGED vars
  <2>1. Aside /\ UNCHANGED consumerVars /\ main' = main
    BY <1>7 DEF GetNextThrows, Wake, AfterPause, LeaveLoop, vars, loopVars, Aside
  <2> QED
    BY <2>1
<1>8. ASSUME NEW s \in DOMAIN savers, SaverSteps(s) \/ SaverFails(s) PROVE Aside /\ main' = main
  BY <1>8 DEF SaverSteps, SaverFails, loopVars, Aside
<1> QED
  BY <1>3, <1>4, <1>5, <1>6, <1>7, <1>8 DEF Next, RunLoop, Savers, Main

(* A chunk is not longer than chunkSize.                                   *)
LEMMA ChunkLength ==
  ASSUME NEW S, NEW c \in Chunks(S)
  PROVE  Len(c) <= ProducerChunk
<1>1. c \in BoundedSeq(S, ProducerChunk)
  BY DEF Chunks
<1>2. PICK n \in 0 .. ProducerChunk : c \in [1 .. n -> S]
  BY <1>1, ProducerChunkAssumption DEF BoundedSeq, SeqOf
<1> QED
  BY <1>2

(* Every step keeps the order in which messages leave the storage.         *)
LEMMA NextOldest ==
  ASSUME Ordered, TypeOK, ChunkInHand, OnceInv, OldestFirst,
         \/ (\E m \in Id : Produce(m)) \/ GetNext \/ Consume \/ Marks \/ Aside
  PROVE  OldestFirst'
<1>1. ASSUME NEW m \in Id, Produce(m) PROVE OldestFirst'
  <2>1. /\ stored' = stored \cup {m} /\ produced' = produced \cup {m} /\ UNCHANGED <<loop, messages, stream>>
        /\ \A x \in produced : x < m
    BY <1>1 DEF Produce, loopVars
  <2>2. \A i \in DOMAIN messages : messages[i] \in produced
    BY DEF OldestFirst, Range
  <2> QED
    BY <2>1, <2>2 DEF OldestFirst
<1>2. CASE GetNext
  <2>1. PICK c \in Chunks(stored) : messages' = c
    BY <1>2 DEF GetNext
  <2>2. UNCHANGED <<stored, produced, stream>> /\ stored \subseteq produced
    BY <1>2 DEF GetNext, TypeOK
  <2>3. /\ Ascending(c) /\ Len(c) <= ProducerChunk /\ Range(c) \subseteq stored
        /\ \A y \in stored \ Range(c) : \A i \in DOMAIN c : c[i] < y
    BY <2>1, ChunkOrder, ChunkLength, ChunkType
  <2> QED
    BY <2>1, <2>2, <2>3 DEF OldestFirst
<1>3. CASE Consume
  <2>1. loop = "consume" /\ UNCHANGED <<stored, produced, messages>> /\ Range(stream) \subseteq Range(stream')
    BY <1>3, AtPos, RangeAppend DEF Consume, TypeOK
  <2> QED
    BY <2>1 DEF OldestFirst
<1>4. CASE Marks
  <2>1. Range(messages) \subseteq Range(stream)
    BY <1>4 DEF Marks, ChunkInHand
  <2>2. ASSUME NEW x \in Range(messages), NEW y \in stored \ Range(messages) PROVE x < y
    BY DEF OldestFirst, Range
  <2>3. \A x \in produced' \ stored', y \in stored' : x < y
    BY <1>4, <2>2 DEF Marks, OldestFirst
  <2> QED
    BY <1>4, <2>1, <2>3 DEF Marks, OldestFirst
<1>5. CASE Aside
  BY <1>5 DEF Aside, OldestFirst
<1> QED
  BY <1>1, <1>2, <1>3, <1>4, <1>5

(* After a deletion without effect, the next chunk begins with the last    *)
(* one.                                                                    *)
LEMMA ChunkExtends ==
  ASSUME TypeOK, OldestFirst, Range(messages) \subseteq stored, NEW c \in Chunks(stored)
  PROVE  Len(messages) <= Len(c) /\ \A i \in 1 .. Len(messages) : c[i] = messages[i]
<1>1. /\ messages \in Seq(Id) /\ c \in Seq(Id) /\ Ascending(messages) /\ Ascending(c)
      /\ Range(c) \subseteq stored /\ Len(messages) <= ProducerChunk
      /\ DOMAIN messages = 1 .. Len(messages) /\ DOMAIN c = 1 .. Len(c)
  BY ChunkType, ChunkOrder DEF TypeOK, OldestFirst
<1>2. \A y \in stored \ Range(c) : Len(c) = ProducerChunk /\ \A i \in DOMAIN c : c[i] < y
  BY DEF Chunks
<1>3. /\ \A i \in 1 .. Len(messages) : messages[i] \in Nat /\ messages[i] \in stored
      /\ \A i \in 1 .. Len(c) : c[i] \in Nat /\ c[i] \in stored
  <2>1. /\ \A i \in 1 .. Len(messages) : messages[i] \in Id /\ messages[i] \in Range(messages)
        /\ \A i \in 1 .. Len(c) : c[i] \in Id /\ c[i] \in Range(c)
    BY <1>1 DEF Range
  <2> QED
    BY <1>1, <2>1, IdAssumption
<1> DEFINE Bad == {i \in 1 .. Len(messages) : i > Len(c) \/ c[i] # messages[i]}
<1>4. CASE Bad = {}
  <2>1. \A i \in 1 .. Len(messages) : i <= Len(c) /\ c[i] = messages[i]
    BY <1>1, <1>4
  <2> QED
    BY <1>1, <2>1
<1>5. CASE Bad # {}
  <2>1. Bad \subseteq Nat
    BY <1>1
  <2>2. PICK i \in Bad : \A j \in Bad : i <= j
    BY <1>5, <2>1, LeastNat, Zenon
  <2>3. \A j \in 1 .. i - 1 : j <= Len(c) /\ c[j] = messages[j]
    BY <1>1, <2>2
  <2>4. i \in 1 .. Len(messages) /\ \A j \in 1 .. i - 1 : messages[j] < messages[i]
    BY <1>1, <2>2 DEF Ascending
  <2>5. CASE i > Len(c)
    <3>1. Len(c) = i - 1
      BY <1>1, <2>3, <2>4, <2>5
    <3>2. messages[i] \notin Range(c)
      BY <1>1, <1>3, <2>3, <2>4, <3>1 DEF Range
    <3> QED
      BY <1>1, <1>2, <1>3, <2>4, <3>1, <3>2
  <2>6. CASE i <= Len(c)
    <3>1. i \in 1 .. Len(c) /\ c[i] # messages[i]
      BY <1>1, <2>2, <2>4, <2>6
    <3>2. c[i] < messages[i]
      <4>1. CASE messages[i] \in Range(c)
        <5>1. PICK j \in 1 .. Len(c) : c[j] = messages[i]
          BY <1>1, <4>1 DEF Range
        <5>2. ~(j < i) /\ j # i
          BY <1>3, <2>3, <2>4, <3>1, <5>1
        <5> QED
          BY <1>1, <3>1, <5>1, <5>2 DEF Ascending
      <4>2. CASE messages[i] \notin Range(c)
        BY <1>1, <1>2, <1>3, <2>4, <3>1, <4>2
      <4> QED
        BY <4>1, <4>2
    <3>3. c[i] \in Range(messages)
      BY <1>1, <1>3, <2>4, <3>1, <3>2 DEF OldestFirst
    <3>4. PICK j \in 1 .. Len(messages) : c[i] = messages[j]
      BY <1>1, <3>3 DEF Range
    <3>5. j < i
      <4>1. i < j => messages[i] < messages[j]
        BY <1>1, <2>4 DEF Ascending
      <4>2. c[i] \in Nat /\ messages[i] \in Nat
        BY <1>3, <2>4, <3>1
      <4> QED
        BY <2>4, <3>1, <3>2, <3>4, <4>1, <4>2
    <3>6. c[j] = c[i] /\ j \in 1 .. Len(c)
      BY <2>3, <3>1, <3>4, <3>5
    <3>7. c[j] < c[i]
      BY <1>1, <3>1, <3>5, <3>6 DEF Ascending
    <3>8. c[i] \in Nat
      BY <1>3, <3>1
    <3> QED
      BY <3>6, <3>7, <3>8
  <2> QED
    BY <1>1, <2>4, <2>5, <2>6
<1> QED
  BY <1>4, <1>5

(* A stream that gets longer stays aligned.                                *)
LEMMA AlignedGrows ==
  ASSUME NEW S, stream \in Seq(S), NEW m \in S, stream' = Append(stream, m), UNCHANGED messages,
         NEW p \in Nat, NEW i \in Nat, Aligned(p, i)
  PROVE  Aligned(p, i)'
<1>1. \A q \in DOMAIN stream : q \in DOMAIN stream' /\ stream'[q] = stream[q]
  OBVIOUS
<1> QED
  BY <1>1 DEF Aligned

(* Every step keeps what is known of the messages handed over again.       *)
LEMMA NextRedelivery ==
  ASSUME TypeOK, ChunkInHand, OnceInv, OldestFirst, Redelivery,
         \/ (\E m \in Id : Produce(m)) \/ GetNext \/ Consume \/ Marks \/ Aside
  PROVE  Redelivery'
<1>0. stream \in Seq(Id) /\ DOMAIN stream = 1 .. Len(stream) /\ Len(stream) \in Nat /\ Range(stream) \subseteq produced
  BY DEF TypeOK, OnceInv
<1>1. ASSUME NEW m \in Id, Produce(m) PROVE Redelivery'
  <2>1. stored' = stored \cup {m} /\ UNCHANGED <<loop, messages, pos, stream>> /\ m \notin Range(stream)
    BY <1>0, <1>1 DEF Produce, loopVars
  <2>2. \A i \in DOMAIN stream : stream[i] \in stored' => stream[i] \in stored
    BY <2>1 DEF Range
  <2>3. Range(stream) \cap stored' = Range(stream) \cap stored
    BY <2>1
  <2> QED
    BY <2>1, <2>2, <2>3 DEF Redelivery, Aligned
<1>2. CASE GetNext
  <2>1. PICK c \in Chunks(stored) : messages' = c /\ loop' = IF c = <<>> THEN "sleep" ELSE "consume"
    BY <1>2 DEF GetNext
  <2>2. UNCHANGED <<stored, stream>> /\ pos' = 1
    BY <1>2 DEF GetNext
  <2>3. Aligned(Len(stream), pos - 1)' /\ loop' # "mark"
    BY <2>1, <2>2 DEF Aligned
  <2>4. CASE Range(stream) \cap stored = {}
    <3>1. \A i \in DOMAIN stream : stream[i] \notin stored
      BY <2>4 DEF Range
    <3> QED
      BY <2>2, <2>3, <2>4, <3>1 DEF Redelivery
  <2>5. CASE Range(stream) \cap stored # {}
    <3>1. /\ messages \in Seq(Id) /\ Range(messages) \subseteq stored
          /\ Len(messages) <= Len(c) /\ \A i \in 1 .. Len(messages) : c[i] = messages[i]
      BY <2>5, ChunkExtends DEF Redelivery, TypeOK
    <3>2. c \in Seq(Id) /\ Range(c) \subseteq stored /\ Ascending(c)
      BY ChunkType, ChunkOrder DEF TypeOK
    <3>3. Range(messages) \subseteq Range(c)
      BY <3>1, <3>2 DEF Range
    <3>4. ASSUME NEW p \in DOMAIN stream, NEW i \in DOMAIN c, stream[p] \in stored, stream[p] = c[i]
          PROVE  Aligned(p, i)'
      <4>1. PICK j \in 1 .. Len(messages) : stream[p] = messages[j]
        BY <3>1, <3>4 DEF Redelivery, Range
      <4>2. j = i
        <5>1. c[j] = c[i] /\ j \in 1 .. Len(c) /\ i \in 1 .. Len(c) /\ DOMAIN c = 1 .. Len(c)
          BY <3>1, <3>2, <3>4, <4>1
        <5>2. c[j] \in Nat /\ c[i] \in Nat
          <6>1. c[j] \in Id /\ c[i] \in Id
            BY <3>2, <5>1
          <6> QED
            BY <6>1, IdAssumption
        <5> QED
          BY <3>2, <5>1, <5>2 DEF Ascending
      <4>3. Aligned(p, i)
        BY <3>1, <3>4, <4>1, <4>2 DEF Redelivery
      <4>4. \A e \in 0 .. i - 1 : c[i - e] = messages[i - e]
        BY <3>1, <4>1, <4>2
      <4> QED
        BY <2>1, <2>2, <4>3, <4>4 DEF Aligned
    <3> QED
      BY <2>1, <2>2, <2>3, <3>2, <3>3, <3>4 DEF Redelivery
  <2> QED
    BY <2>4, <2>5
<1>3. CASE Consume
  <2> DEFINE m == messages[pos]
             L == Len(stream)
  <2>1. /\ loop = "consume" /\ stream' = Append(stream, m) /\ pos' = pos + 1
        /\ loop' = IF pos = Len(messages) THEN "mark" ELSE "consume"
        /\ UNCHANGED <<stored, messages>>
    BY <1>3 DEF Consume, AtEnd
  <2>2. /\ m \in Id /\ pos \in 1 .. Len(messages) /\ Range(messages) \subseteq stored /\ m \in stored
        /\ messages \in Seq(Id) /\ Range(stream') = Range(stream) \cup {m} /\ m \in Range(messages)
    BY <2>1, AtPos, RangeAppend DEF TypeOK, OldestFirst
  <2>3. /\ DOMAIN stream' = 1 .. L + 1 /\ Len(stream') = L + 1 /\ stream'[L + 1] = m
        /\ \A i \in 1 .. L : stream'[i] = stream[i]
    BY <1>0, <2>1, <2>2
  <2>4. \A e \in 0 .. pos - 1 : L + 1 - e \in DOMAIN stream' /\ stream'[L + 1 - e] = messages[pos - e]
    <3>1. Aligned(L, pos - 1)
      BY <2>1 DEF Redelivery
    <3>2. ASSUME NEW e \in 0 .. pos - 1
          PROVE  L + 1 - e \in DOMAIN stream' /\ stream'[L + 1 - e] = messages[pos - e]
      <4>1. CASE e = 0
        BY <1>0, <2>2, <2>3, <4>1
      <4>2. CASE e # 0
        <5>1. e - 1 \in 0 .. pos - 1 - 1
          BY <2>2, <4>2
        <5>2. L - (e - 1) \in DOMAIN stream /\ stream[L - (e - 1)] = messages[pos - 1 - (e - 1)]
          BY <3>1, <5>1 DEF Aligned
        <5>3. L - (e - 1) = L + 1 - e /\ pos - 1 - (e - 1) = pos - e
          BY <1>0, <2>2
        <5> QED
          BY <1>0, <2>3, <5>2, <5>3
      <4> QED
        BY <4>1, <4>2
    <3> QED
      BY <3>2
  <2>5. ASSUME NEW p \in DOMAIN stream', NEW i \in DOMAIN messages, stream'[p] \in stored, stream'[p] = messages[i]
        PROVE  Aligned(p, i)'
    <3>1. CASE p = L + 1
      <4>1. messages[i] = messages[pos] /\ i \in 1 .. Len(messages) /\ DOMAIN messages = 1 .. Len(messages)
        BY <2>2, <2>3, <2>5, <3>1
      <4>2. messages[i] \in Nat /\ messages[pos] \in Nat
        BY <2>2, <4>1, IdAssumption
      <4>3. i = pos
        BY <2>2, <4>1, <4>2 DEF OldestFirst, Ascending
      <4>4. \A e \in 0 .. i - 1 : p - e \in DOMAIN stream' /\ stream'[p - e] = messages[i - e]
        BY <2>4, <3>1, <4>3
      <4> QED
        BY <2>1, <4>4 DEF Aligned
    <3>2. CASE p # L + 1
      <4>1. p \in DOMAIN stream /\ stream[p] = stream'[p]
        BY <1>0, <2>3, <3>2
      <4>2. Aligned(p, i) /\ p \in Nat /\ i \in Nat
        BY <1>0, <2>2, <2>5, <4>1 DEF Redelivery
      <4> QED
        BY <1>0, <2>1, <2>2, <4>2, AlignedGrows
    <3> QED
      BY <3>1, <3>2
  <2>6. ASSUME NEW i \in DOMAIN stream', NEW j \in DOMAIN stream', i < j, stream'[i] \in stored
        PROVE  stream'[j] \in stored
    <3>1. CASE j = L + 1
      BY <2>2, <2>3, <3>1
    <3>2. CASE j # L + 1
      BY <1>0, <2>3, <2>6, <3>2 DEF Redelivery
    <3> QED
      BY <3>1, <3>2
  <2>7. Range(stream') \cap stored \subseteq Range(messages)
    BY <2>2 DEF Redelivery
  <2>8. pos' - 1 = pos /\ (loop' = "mark" => pos' = Len(messages) + 1)
    BY <2>1, <2>2
  <2>9. Aligned(Len(stream), pos - 1)'
    <3>1. Len(stream') = L + 1 /\ pos' - 1 = pos /\ messages' = messages
      BY <2>1, <2>3, <2>8
    <3>2. \A e \in 0 .. (pos' - 1) - 1 :
            Len(stream') - e \in DOMAIN stream' /\ stream'[Len(stream') - e] = messages'[(pos' - 1) - e]
      BY <2>4, <3>1
    <3> QED
      BY <3>2, Zenon DEF Aligned
  <2> QED
    BY <2>1, <2>2, <2>5, <2>6, <2>7, <2>8, <2>9 DEF Redelivery
<1>4. CASE Marks
  <2>1. CASE stored' = stored
    BY <1>4, <2>1 DEF Marks, Redelivery, Aligned
  <2>2. CASE stored' = stored \ Range(messages)
    <3>1. Range(stream) \cap stored' = {}
      BY <2>2 DEF Redelivery
    <3>2. \A i \in DOMAIN stream : stream[i] \notin stored'
      BY <3>1 DEF Range
    <3> QED
      BY <1>4, <3>1, <3>2 DEF Marks, Redelivery
  <2> QED
    BY <1>4, <2>1, <2>2 DEF Marks
<1>5. CASE Aside
  BY <1>5 DEF Aside, Redelivery, Aligned
<1> QED
  BY <1>1, <1>2, <1>3, <1>4, <1>5

(* The deletion settles the chunk: it is the end of the stream, and what   *)
(* of it was handed over before stood in the same order there.             *)
LEMMA MarkSettles ==
  ASSUME TypeOK, OldestFirst, Redelivery, loop = "mark",
         NEW f \in DOMAIN stream, stream[f] \in Range(messages),
         \A j \in DOMAIN stream : j > f => stream[j] # stream[f]
  PROVE  /\ \A q \in DOMAIN stream : f < q => stream[f] < stream[q]
         /\ \A p, q \in DOMAIN stream : p < f /\ f <= q /\ stream[p] = stream[q] =>
              p - (q - f) \in DOMAIN stream /\ stream[p - (q - f)] = stream[f]
<1> DEFINE L == Len(stream)
           n == Len(messages)
<1>1. /\ stream \in Seq(Id) /\ DOMAIN stream = 1 .. L /\ L \in Nat
      /\ messages \in Seq(Id) /\ DOMAIN messages = 1 .. n /\ n \in Nat
      /\ Range(messages) \subseteq stored /\ Ascending(messages)
  BY DEF TypeOK, OldestFirst
<1>2. \A e \in 0 .. n - 1 : L - e \in DOMAIN stream /\ stream[L - e] = messages[n - e]
  <2>1. pos - 1 = n /\ Aligned(L, pos - 1)
    BY <1>1 DEF Redelivery
  <2> QED
    BY <2>1 DEF Aligned
<1>3. \A i \in 1 .. n : messages[i] \in Nat /\ messages[i] \in stored
  <2>1. \A i \in 1 .. n : messages[i] \in Id /\ messages[i] \in Range(messages)
    BY <1>1 DEF Range
  <2> QED
    BY <1>1, <2>1, IdAssumption
<1> HIDE DEF L, n
\* the chunk is the end of the stream
<1>4. ASSUME NEW i \in 1 .. n PROVE L - n + i \in DOMAIN stream /\ stream[L - n + i] = messages[i]
  <2>1. n - i \in 0 .. n - 1 /\ L - (n - i) = L - n + i /\ n - (n - i) = i
    BY <1>1
  <2> QED
    BY <1>2, <2>1
<1>5. PICK g \in 1 .. n : stream[f] = messages[g]
  BY <1>1 DEF Range
<1>6. f = L - n + g
  <2>1. f >= L - n + g
    BY <1>1, <1>4, <1>5
  <2>2. f - (L - n) \in 1 .. n /\ L - n + (f - (L - n)) = f
    BY <1>1, <2>1
  <2>3. messages[f - (L - n)] = messages[g]
    BY <1>4, <1>5, <2>2
  <2>4. f - (L - n) = g
    <3> DEFINE h == f - (L - n)
    <3>1. h \in 1 .. n /\ messages[h] = messages[g] /\ messages[g] \in Nat
      BY <1>3, <2>2, <2>3
    <3> HIDE DEF h
    <3>2. (h < g => messages[h] < messages[g]) /\ (g < h => messages[g] < messages[h])
      BY <1>1, <3>1 DEF Ascending
    <3>3. h = g
      BY <3>1, <3>2
    <3> QED
      BY <3>3 DEF h
  <2> QED
    BY <1>1, <2>4
<1>7. ASSUME NEW q \in DOMAIN stream, f <= q
      PROVE  q - (L - n) \in g .. n /\ stream[q] = messages[q - (L - n)]
  <2>1. q - (L - n) \in g .. n /\ L - n + (q - (L - n)) = q
    BY <1>1, <1>6, <1>7
  <2> QED
    BY <1>1, <1>4, <2>1
<1>8. ASSUME NEW q \in DOMAIN stream, f < q PROVE stream[f] < stream[q]
  <2>1. q - (L - n) \in g + 1 .. n /\ stream[q] = messages[q - (L - n)]
    BY <1>1, <1>6, <1>7, <1>8
  <2>2. messages[g] < messages[q - (L - n)]
    BY <1>1, <2>1 DEF Ascending
  <2> QED
    BY <1>5, <2>1, <2>2
<1>9. ASSUME NEW p \in DOMAIN stream, NEW q \in DOMAIN stream, p < f, f <= q, stream[p] = stream[q]
      PROVE  p - (q - f) \in DOMAIN stream /\ stream[p - (q - f)] = stream[f]
  <2> DEFINE i == q - (L - n)
  <2>1. i \in g .. n /\ i \in DOMAIN messages /\ stream[q] = messages[i]
    BY <1>1, <1>7, <1>9
  <2>2. Aligned(p, i)
    BY <1>1, <1>3, <1>9, <2>1 DEF Redelivery
  <2>3. q - f \in 0 .. i - 1 /\ i - (q - f) = g
    BY <1>1, <1>6, <2>1
  <2> HIDE DEF i
  <2> QED
    BY <1>5, <2>2, <2>3 DEF Aligned
<1> QED
  BY <1>8, <1>9

(* Every step keeps the order around what is settled.                      *)
LEMMA NextSettled ==
  ASSUME TypeOK, ChunkInHand, OnceInv, OldestFirst, Redelivery, SettledOrder,
         \/ (\E m \in Id : Produce(m)) \/ GetNext \/ Consume \/ Marks \/ Aside
  PROVE  SettledOrder'
<1>0. stream \in Seq(Id) /\ DOMAIN stream = 1 .. Len(stream) /\ Len(stream) \in Nat /\ Range(stream) \subseteq produced
  BY DEF TypeOK, OnceInv
<1>1. CASE stream' = stream /\ stored \subseteq stored'
  <2>1. \A f \in DOMAIN stream : Settled(f)' => Settled(f)
    BY <1>1 DEF Settled
  <2> QED
    BY <1>1, <2>1 DEF SettledOrder
<1>2. CASE Consume
  <2> DEFINE m == messages[pos]
             L == Len(stream)
  <2>1. stream' = Append(stream, m) /\ m \in Id /\ m \in stored /\ UNCHANGED stored
    BY <1>2, AtPos DEF Consume, OldestFirst
  <2>2. /\ DOMAIN stream' = 1 .. L + 1 /\ stream'[L + 1] = m
        /\ \A i \in 1 .. L : stream'[i] = stream[i]
    BY <1>0, <2>1
  <2> HIDE DEF m, L
  <2>3. ASSUME NEW f \in DOMAIN stream', Settled(f)'
        PROVE  f \in DOMAIN stream /\ Settled(f) /\ stream'[f] = stream[f]
    <3>1. f # L + 1
      BY <2>1, <2>2, <2>3 DEF Settled
    <3>2. f \in DOMAIN stream /\ stream'[f] = stream[f]
      BY <1>0, <2>2, <3>1 DEF L
    <3>3. \A j \in DOMAIN stream : j \in DOMAIN stream' /\ stream'[j] = stream[j]
      BY <1>0, <2>2 DEF L
    <3> QED
      BY <2>1, <2>3, <3>2, <3>3 DEF Settled
  <2>4. ASSUME NEW f \in DOMAIN stream', Settled(f)', NEW q \in DOMAIN stream', f < q
        PROVE  stream'[f] < stream'[q]
    <3>1. CASE q = L + 1
      <4>1. stream[f] \in produced \ stored
        BY <1>0, <2>3, <2>4 DEF Settled, Range
      <4> QED
        BY <2>1, <2>2, <2>3, <2>4, <3>1, <4>1 DEF OldestFirst
    <3>2. CASE q # L + 1
      <4>1. q \in DOMAIN stream /\ stream'[q] = stream[q]
        BY <1>0, <2>2, <3>2 DEF L
      <4> QED
        BY <2>3, <2>4, <4>1 DEF SettledOrder
    <3> QED
      BY <3>1, <3>2
  <2>5. ASSUME NEW f \in DOMAIN stream', Settled(f)', NEW p \in DOMAIN stream', NEW q \in DOMAIN stream',
               p < f, f <= q, stream'[p] = stream'[q]
        PROVE  p - (q - f) \in DOMAIN stream' /\ stream'[p - (q - f)] = stream'[f]
    <3>1. f \in DOMAIN stream /\ Settled(f) /\ stream'[f] = stream[f]
      BY <2>3, <2>5
    <3>2. p \in DOMAIN stream /\ stream'[p] = stream[p]
      BY <1>0, <2>2, <2>5, <3>1 DEF L
    <3>3. q # L + 1
      BY <2>1, <2>2, <2>5, <3>1, <3>2 DEF Redelivery, Settled
    <3>4. q \in DOMAIN stream /\ stream'[q] = stream[q]
      BY <1>0, <2>2, <3>3 DEF L
    <3>5. p - (q - f) \in DOMAIN stream /\ stream[p - (q - f)] = stream[f]
      BY <2>5, <3>1, <3>2, <3>4 DEF SettledOrder
    <3> QED
      BY <1>0, <2>2, <3>1, <3>5 DEF L
  <2> QED
    BY <2>4, <2>5 DEF SettledOrder
<1>3. CASE Marks /\ stored' = stored \ Range(messages)
  <2>1. ASSUME NEW f \in DOMAIN stream, Settled(f)'
        PROVE  /\ \A q \in DOMAIN stream : f < q => stream[f] < stream[q]
               /\ \A p, q \in DOMAIN stream : p < f /\ f <= q /\ stream[p] = stream[q] =>
                    p - (q - f) \in DOMAIN stream /\ stream[p - (q - f)] = stream[f]
    <3>1. \A j \in DOMAIN stream : j > f => stream[j] # stream[f]
      BY <1>3, <2>1 DEF Marks, Settled
    <3>2. CASE stream[f] \in Range(messages)
      BY <1>3, <3>1, <3>2, MarkSettles DEF Marks
    <3>3. CASE stream[f] \notin Range(messages)
      <4>1. Settled(f)
        BY <1>3, <2>1, <3>1, <3>3 DEF Marks, Settled
      <4> QED
        BY <4>1 DEF SettledOrder
    <3> QED
      BY <3>2, <3>3
  <2> QED
    BY <1>3, <2>1 DEF SettledOrder, Marks
<1> QED
  BY <1>1, <1>2, <1>3 DEF Produce, GetNext, Marks, Aside

(* Where the next batch begins.                                            *)
LEMMA OffsetStep ==
  ASSUME NEW s \in Nat \ {0}
  PROVE  /\ Offset(s) \in Nat
         /\ Offset(s + 1) = Offset(s) + ConsumerChunk
         /\ Offset(1) = 0
<1> DEFINE C == ConsumerChunk
<1>1. C \in Nat
  BY ConsumerChunkAssumption
<1>2. s * C = (s - 1) * C + C
  BY <1>1
<1>3. (s - 1) * C \in Nat
  BY <1>1
<1>4. s + 1 - 1 = s /\ (1 - 1) * C = 0
  BY <1>1
<1> QED
  BY <1>2, <1>3, <1>4 DEF Offset

(* An earlier batch ends before a later one begins.                        *)
LEMMA OffsetOrder ==
  ASSUME NEW s \in Nat \ {0}, NEW t \in Nat \ {0}, s < t
  PROVE  Offset(s) + ConsumerChunk <= Offset(t)
<1> DEFINE C == ConsumerChunk
<1>1. C \in Nat
  BY ConsumerChunkAssumption
<1>2. PICK d \in Nat : t = s + 1 + d
  <2>1. t - s - 1 \in Nat /\ t = s + 1 + (t - s - 1)
    OBVIOUS
  <2> QED
    BY <2>1
<1>3. (t - 1) * C = (s - 1) * C + C + d * C /\ d * C \in Nat /\ (s - 1) * C \in Nat
  BY <1>1, <1>2
<1> QED
  BY <1>1, <1>3 DEF Offset

(* The stream stays cut into batches.                                      *)
LEMMA NextCut ==
  ASSUME TypeOK, Cut,
         \/ (\E m \in Id : Produce(m)) \/ GetNext \/ Consume
         \/ (Marks \/ Aside) /\ UNCHANGED consumerVars
         \/ \E s \in DOMAIN savers : Aside /\ (SaverSteps(s) \/ SaverFails(s))
  PROVE  Cut'
<1>0. /\ stream \in Seq(Id) /\ DOMAIN stream = 1 .. Len(stream) /\ Len(stream) \in Nat
      /\ buffer \in Seq(Id) /\ DOMAIN buffer = 1 .. Len(buffer) /\ Len(buffer) \in Nat
      /\ savers \in Seq(Saver) /\ DOMAIN savers = 1 .. Len(savers) /\ Len(savers) \in Nat
      /\ ConsumerChunk \in Nat \ {0}
  BY ConsumerChunkAssumption DEF TypeOK, ConsumerTypeOK
<1>1. CASE UNCHANGED <<consumerVars, stream>>
  BY <1>1 DEF Cut, consumerVars
<1>2. ASSUME NEW s \in DOMAIN savers, Aside, SaverSteps(s) \/ SaverFails(s) PROVE Cut'
  <2>1. /\ UNCHANGED <<buffer, stream>> /\ DOMAIN savers' = DOMAIN savers /\ Len(savers') = Len(savers)
        /\ \A t \in DOMAIN savers : savers'[t].batch = savers[t].batch
    BY <1>2, SaverChange DEF Aside, TypeOK
  <2> QED
    BY <2>1 DEF Cut
<1>3. CASE Consume
  <2> DEFINE m == messages[pos]
             L == Len(stream)
             b == Append(buffer, m)
             N == Len(savers)
             O == Offset(N + 1)
  <2>1. m \in Id /\ stream' = Append(stream, m)
    BY <1>3, AtPos DEF Consume
  <2>2. /\ DOMAIN stream' = 1 .. L + 1 /\ Len(stream') = L + 1 /\ stream'[L + 1] = m
        /\ \A i \in 1 .. L : stream'[i] = stream[i]
    BY <1>0, <2>1
  <2>3. /\ b \in Seq(Id) /\ DOMAIN b = 1 .. Len(buffer) + 1 /\ Len(b) = Len(buffer) + 1
        /\ b[Len(buffer) + 1] = m /\ \A i \in 1 .. Len(buffer) : b[i] = buffer[i]
    BY <1>0, <2>1
  <2>4. O \in Nat /\ Offset(N + 2) = O + ConsumerChunk /\ L = O + Len(buffer) /\ Len(buffer) < ConsumerChunk
    <3>1. N + 1 \in Nat \ {0} /\ N + 1 + 1 = N + 2
      BY <1>0
    <3> QED
      BY <3>1, OffsetStep DEF Cut
  <2>5. \/ Len(b) < ConsumerChunk /\ buffer' = b /\ savers' = savers
        \/ Len(b) = ConsumerChunk /\ buffer' = <<>> /\ savers' = Append(savers, NewSaver(b))
    <3>1. \/ ~(Len(b) >= ConsumerChunk) /\ buffer' = b /\ savers' = savers
          \/ Len(b) >= ConsumerChunk /\ buffer' = <<>> /\ savers' = Append(savers, NewSaver(b))
      BY <1>3 DEF Consume, Push, IsFull
    <3> HIDE DEF b
    <3> QED
      BY <1>0, <2>3, <2>4, <3>1
  <2> HIDE DEF m, b
  <2>6. ASSUME NEW k \in 1 .. Len(b) PROVE O + k \in 1 .. L + 1 /\ stream'[O + k] = b[k]
    <3>1. CASE k = Len(buffer) + 1
      <4>1. O + k = L + 1 /\ L \in Nat
        BY <1>0, <2>4, <3>1
      <4> QED
        BY <2>2, <2>3, <3>1, <4>1
    <3>2. CASE k # Len(buffer) + 1
      <4>1. k \in 1 .. Len(buffer) /\ O + k \in 1 .. L
        BY <1>0, <2>3, <2>4, <3>2
      <4>2. stream[O + k] = buffer[k]
        BY <1>0, <4>1 DEF Cut
      <4> QED
        BY <1>0, <2>2, <2>3, <4>1, <4>2
    <3> QED
      BY <3>1, <3>2
  <2>7. ASSUME NEW s \in DOMAIN savers, NEW k \in Slots
        PROVE  Offset(s) + k \in DOMAIN stream' /\ stream'[Offset(s) + k] = savers[s].batch[k]
    <3>1. Offset(s) + k \in DOMAIN stream /\ stream[Offset(s) + k] = savers[s].batch[k]
      BY DEF Cut
    <3> HIDE DEF O, L
    <3> QED
      BY <1>0, <2>2, <3>1 DEF L
  <2>8. ASSUME NEW f \in DOMAIN stream'
        PROVE  f > O \/ \E s \in DOMAIN savers, k \in Slots : f = Offset(s) + k
    <3>1. CASE f = L + 1
      BY <1>0, <2>4, <3>1
    <3>2. CASE f # L + 1
      BY <1>0, <2>2, <3>2 DEF Cut
    <3> QED
      BY <3>1, <3>2
  <2>9. CASE Len(b) < ConsumerChunk /\ buffer' = b /\ savers' = savers
    <3>1. Len(stream') = O + Len(b)
      BY <1>0, <2>2, <2>3, <2>4
    <3> HIDE DEF O
    <3>2. \A k \in DOMAIN b : stream'[O + k] = b[k]
      BY <2>3, <2>6
    <3> QED
      BY <2>7, <2>8, <2>9, <3>1, <3>2 DEF Cut, O
  <2>10. CASE Len(b) = ConsumerChunk /\ buffer' = <<>> /\ savers' = Append(savers, NewSaver(b))
    <3>1. NewSaver(b).batch = b
      BY DEF NewSaver
    <3>2. /\ DOMAIN savers' = 1 .. N + 1 /\ Len(savers') = N + 1 /\ savers'[N + 1] = NewSaver(b)
          /\ \A s \in 1 .. N : savers'[s] = savers[s]
      <4>1. NewSaver(b) \in Saver
        BY <2>3, NewSaverType
      <4> QED
        BY <1>0, <2>10, <4>1
    <3>3. ASSUME NEW s \in DOMAIN savers'
          PROVE  \/ s \in DOMAIN savers /\ savers'[s] = savers[s]
                 \/ s = N + 1 /\ savers'[s].batch = b
      <4>1. CASE s = N + 1
        BY <3>1, <3>2, <4>1
      <4>2. CASE s # N + 1
        <5>1. s \in 1 .. N
          BY <1>0, <3>2, <4>2
        <5>2. savers'[s] = savers[s]
          BY <3>2, <5>1
        <5>3. s \in DOMAIN savers
          BY <1>0, <5>1
        <5> QED
          BY <5>2, <5>3
      <4> QED
        BY <4>1, <4>2
    <3> HIDE DEF N, O, L
    <3>4. \A s \in DOMAIN savers' : Len(savers'[s].batch) = ConsumerChunk
      BY <2>10, <3>3 DEF Cut
    <3>5. ASSUME NEW s \in DOMAIN savers', NEW k \in Slots
          PROVE  Offset(s) + k \in DOMAIN stream' /\ stream'[Offset(s) + k] = savers'[s].batch[k]
      <4>1. CASE s \in DOMAIN savers /\ savers'[s] = savers[s]
        BY <2>7, <4>1
      <4>2. CASE s = N + 1 /\ savers'[s].batch = b
        BY <2>2, <2>6, <2>10, <4>2 DEF O, Slots
      <4> QED
        BY <3>3, <4>1, <4>2
    <3>6. /\ buffer' = <<>> /\ Len(buffer') = 0 /\ DOMAIN buffer' = {}
          /\ Len(stream') = Offset(Len(savers') + 1) + 0
      <4>1. Len(savers') + 1 = N + 2
        BY <1>0, <3>2 DEF N
      <4>2. Len(stream') = O + ConsumerChunk
        BY <1>0, <2>2, <2>3, <2>4, <2>10
      <4>3. Len(stream') = Offset(Len(savers') + 1) + 0
        BY <1>0, <2>4, <4>1, <4>2
      <4> QED
        BY <2>10, <4>3
    <3>7. ASSUME NEW f \in DOMAIN stream'
          PROVE  \E s \in DOMAIN savers', k \in Slots : f = Offset(s) + k
      <4>1. CASE f > O
        <5>1. f - O \in Slots /\ f = O + (f - O) /\ N + 1 \in DOMAIN savers'
          BY <1>0, <2>2, <2>3, <2>4, <2>10, <3>2, <4>1 DEF Slots, N
        <5> QED
          BY <5>1 DEF O
      <4>2. CASE ~(f > O)
        <5>1. PICK s \in DOMAIN savers, k \in Slots : f = Offset(s) + k
          BY <2>8, <4>2
        <5>2. s \in DOMAIN savers'
          BY <1>0, <3>2 DEF N
        <5> QED
          BY <5>1, <5>2
      <4> QED
        BY <4>1, <4>2
    <3>8. Len(buffer') < ConsumerChunk /\ Len(stream') = Offset(Len(savers') + 1) + Len(buffer')
      BY <1>0, <3>6
    <3> QED
      BY <3>4, <3>5, <3>6, <3>7, <3>8 DEF Cut
  <2> QED
    BY <2>5, <2>9, <2>10
<1> QED
  BY <1>1, <1>2, <1>3 DEF Produce, GetNext, Marks, Aside, consumerVars

(* What each kind of step makes of a saver.                                *)
LEMMA SaverFields ==
  ASSUME ConsumerTypeOK, NEW s \in DOMAIN savers
  PROVE  /\ \A p : savers' = [savers EXCEPT ![s].pc = p] =>
                   savers'[s].pc = p /\ savers'[s].n = savers[s].n /\ savers'[s].at = savers[s].at
         /\ SaverWrite(s) => /\ savers'[s].pc = "open" /\ savers'[s].n = savers[s].n + 1
                             /\ savers'[s].at = savers[s].at + Length[NextOf(s)]
<1>1. savers \in Seq(Saver) /\ savers[s] \in Saver
  BY DEF ConsumerTypeOK
<1>2. \A p : /\ [savers[s] EXCEPT !.pc = p].pc = p /\ [savers[s] EXCEPT !.pc = p].n = savers[s].n
             /\ [savers[s] EXCEPT !.pc = p].at = savers[s].at
  BY <1>1 DEF Saver
<1>3. ASSUME NEW p, savers' = [savers EXCEPT ![s].pc = p] PROVE savers'[s] = [savers[s] EXCEPT !.pc = p]
  BY <1>1, <1>3
<1>4. ASSUME NEW p, savers' = [savers EXCEPT ![s].pc = p]
      PROVE  savers'[s].pc = p /\ savers'[s].n = savers[s].n /\ savers'[s].at = savers[s].at
  BY <1>2, <1>3, <1>4, Zenon
<1>5. ASSUME SaverWrite(s)
      PROVE  /\ savers'[s].pc = "open" /\ savers'[s].n = savers[s].n + 1
             /\ savers'[s].at = savers[s].at + Length[NextOf(s)]
  <2>1. savers[s].pc = "open"
    BY <1>5 DEF SaverWrite
  <2>2. savers'[s] = [savers[s] EXCEPT !.n = savers[s].n + 1, !.at = savers[s].at + Length[NextOf(s)]]
    BY <1>1, <1>5 DEF SaverWrite, NextOf
  <2> DEFINE n == savers[s].n + 1
             at == savers[s].at + Length[NextOf(s)]
  <2>3. savers'[s] = [savers[s] EXCEPT !.n = n, !.at = at]
    BY <2>2
  <2> HIDE DEF n, at
  <2>4. savers'[s].pc = "open" /\ savers'[s].n = n /\ savers'[s].at = at
    BY <1>1, <2>1, <2>3 DEF Saver
  <2> QED
    BY <2>4 DEF n, at
<1> QED
  BY <1>4, <1>5, Zenon

(* A batch has a file.                                                     *)
LEMMA BatchHasFile ==
  ASSUME ConsumerTypeOK, Cut, NEW s \in DOMAIN savers
  PROVE  /\ savers[s] \in Saver /\ savers[s].batch \in Seq(Id) /\ savers[s].batch # <<>>
         /\ savers[s].n \in Nat /\ Len(savers[s].batch) = ConsumerChunk
         /\ FileName(savers[s].batch) \in Id \X Id
<1>1. savers[s] \in Saver /\ savers[s].batch \in Seq(Id) /\ savers[s].n \in Nat
  <2>1. savers[s] \in Saver
    BY DEF ConsumerTypeOK
  <2> QED
    BY <2>1 DEF Saver
<1>2. Len(savers[s].batch) = ConsumerChunk /\ savers[s].batch # <<>>
  BY <1>1, ConsumerChunkAssumption DEF Cut
<1> QED
  BY <1>1, <1>2, NameOfBatch

(* Of messages of one length each has the length Unit.                     *)
LEMMA UnitLength ==
  ASSUME EqualLengths, NEW i \in Id
  PROVE  Length[i] = Unit /\ Unit \in Nat \ {0}
<1> DEFINE j == CHOOSE j \in Id : TRUE
<1>1. j \in Id
  OBVIOUS
<1>2. Unit = Length[j]
  BY DEF Unit
<1> HIDE DEF j
<1> QED
  BY <1>1, <1>2, LengthAssumption DEF EqualLengths

(* Slots of a file do not overlap.                                         *)
LEMMA SlotOrder ==
  ASSUME NEW u \in Nat \ {0}, NEW i \in Nat, NEW j \in Nat, i < j
  PROVE  i * u + u <= j * u
<1>1. PICK d \in Nat : j = i + 1 + d
  <2>1. j - i - 1 \in Nat /\ j = i + 1 + (j - i - 1)
    OBVIOUS
  <2> QED
    BY <2>1
<1>2. j * u = i * u + u + d * u /\ d * u \in Nat /\ i * u \in Nat
  BY <1>1
<1> QED
  BY <1>2

(* What a write into a file leaves of it.                                  *)
LEMMA FileAfter ==
  ASSUME ConsumerTypeOK, NEW a \in DOMAIN savers, SaverWrite(a) \/ SaverWriteFails(a),
         NEW name \in Id \X Id
  PROVE  /\ name # FileName(savers[a].batch) => files'[name] = files[name]
         /\ SaverWrite(a) /\ name = FileName(savers[a].batch) => <<savers[a].at, NextOf(a)>> \in files'[name]
         /\ \A o \in Nat, m \in Id :
              /\ <<o, m>> \in files[name]
              /\ \/ o = savers[a].at /\ m = NextOf(a)
                 \/ savers[a].at + Length[NextOf(a)] <= o \/ o + Length[m] <= savers[a].at
              => <<o, m>> \in files'[name]
<1> DEFINE own == FileName(savers[a].batch)
           at == savers[a].at
           x == NextOf(a)
<1>1. HasMore(a) /\ files \in [Id \X Id -> SUBSET (Nat \X Id)] /\ x \in Id /\ Length[x] \in Nat \ {0} /\ at \in Nat
  <2>1. HasMore(a)
    BY DEF SaverWrite, SaverWriteFails
  <2>2. savers[a] \in Saver
    BY DEF ConsumerTypeOK
  <2> QED
    BY <2>1, <2>2, NextIsId DEF ConsumerTypeOK, Saver
<1>2. SaverWrite(a) => files' = [files EXCEPT ![own] = WrittenOver(@, at, Length[x], x) \cup {<<at, x>>}]
  BY DEF SaverWrite, NextOf
<1>3. SaverWriteFails(a) => \E len \in 0 .. Length[x] - 1 : files' = [files EXCEPT ![own] = WrittenOver(@, at, len, x)]
  BY DEF SaverWriteFails, NextOf
<1> HIDE DEF own, at, x
<1>4. \E len \in 0 .. Length[x] : \/ files' = [files EXCEPT ![own] = WrittenOver(@, at, len, x) \cup {<<at, x>>}]
                                 \/ files' = [files EXCEPT ![own] = WrittenOver(@, at, len, x)]
  <2>1. Length[x] \in 0 .. Length[x] /\ 0 .. Length[x] - 1 \subseteq 0 .. Length[x]
    BY <1>1
  <2> QED
    BY <1>2, <1>3, <2>1
<1>5. PICK len \in 0 .. Length[x] : \/ files' = [files EXCEPT ![own] = WrittenOver(@, at, len, x) \cup {<<at, x>>}]
                                    \/ files' = [files EXCEPT ![own] = WrittenOver(@, at, len, x)]
  BY <1>4
<1>6. name # own => files'[name] = files[name]
  BY <1>1, <1>5
<1>7. name = own => WrittenOver(files[name], at, len, x) \subseteq files'[name]
  BY <1>1, <1>5
<1>8. SaverWrite(a) /\ name = own => <<at, x>> \in files'[name]
  BY <1>1, <1>2
<1>9. ASSUME NEW o \in Nat, NEW m \in Id, <<o, m>> \in files[name],
             (o = at /\ m = x) \/ at + Length[x] <= o \/ o + Length[m] <= at
      PROVE  <<o, m>> \in files'[name]
  <2>1. <<o, m>> = <<at, x>> \/ at + len <= o \/ o + Length[m] <= at
    BY <1>1, <1>5, <1>9
  <2>2. <<o, m>> \in WrittenOver(files[name], at, len, x)
    BY <1>9, <2>1 DEF WrittenOver
  <2> QED
    BY <1>6, <1>7, <1>9, <2>2
<1> QED
  BY <1>6, <1>8, <1>9 DEF own, at, x

(* A step of a saver keeps a slot that all batches of its file agree on.   *)
LEMMA SaverKeepsSlot ==
  ASSUME EqualLengths, ConsumerTypeOK, Cut, SlotsKept, NEW a \in DOMAIN savers, SaverSteps(a) \/ SaverFails(a),
         NEW s \in DOMAIN savers, NEW k \in Slots,
         \A t \in DOMAIN savers : SameFile(s, t) => savers[t].batch[k] = savers[s].batch[k]
  PROVE  \/ \E t \in DOMAIN savers : SameFile(s, t) /\ Lacks(t, k)'
         \/ <<(k - 1) * Unit, savers[s].batch[k]>> \in files'[FileName(savers[s].batch)]
<1> DEFINE name == FileName(savers[s].batch)
           batch == savers[a].batch
           n == savers[a].n
           m == savers[s].batch[k]
<1>1. /\ files \in [Id \X Id -> SUBSET (Nat \X Id)]
      /\ name \in Id \X Id /\ FileName(batch) \in Id \X Id
      /\ n \in Nat /\ Len(batch) = ConsumerChunk /\ k \in 1 .. ConsumerChunk
      /\ ConsumerChunk \in Nat \ {0} /\ m \in Id
  BY BatchHasFile, ConsumerChunkAssumption DEF ConsumerTypeOK, Slots
<1>2. /\ \A t \in DOMAIN savers : t # a => savers'[t] = savers[t]
      /\ savers'[a].batch = batch
  BY SaverChange
<1>3. ASSUME NEW t \in DOMAIN savers, t # a, Lacks(t, k) PROVE Lacks(t, k)'
  BY <1>2, <1>3 DEF Lacks
<1>4. \/ \E t \in DOMAIN savers : SameFile(s, t) /\ Lacks(t, k)
      \/ <<(k - 1) * Unit, m>> \in files[name]
  BY DEF SlotsKept
<1> HIDE DEF name, batch, n, m
<1>5. CASE SaverOpen(a)
  <2>1. CASE SameFile(s, a)
    <3>1. savers[a].pc = "start" /\ savers' = [savers EXCEPT ![a].pc = "open"]
      BY <1>5 DEF SaverOpen
    <3>2. savers'[a].pc = "open" /\ savers'[a].n = 0
      <4>1. savers[a].n = 0
        BY <3>1 DEF SlotsKept
      <4> QED
        BY <3>1, <4>1, SaverFields, Zenon
    <3>3. Lacks(a, k)'
      BY <1>1, <3>2 DEF Lacks
    <3> QED
      BY <2>1, <3>3
  <2>2. CASE ~SameFile(s, a)
    <3>1. name # FileName(batch)
      BY <2>2 DEF SameFile, name, batch
    <3>2. files' = [files EXCEPT ![FileName(batch)] = EmptyFile]
      BY <1>5 DEF SaverOpen, batch
    <3>3. files'[name] = files[name]
      BY <1>1, <3>1, <3>2
    <3> QED
      BY <1>3, <1>4, <2>2, <3>3 DEF name, m
  <2> QED
    BY <2>1, <2>2
<1>6. CASE SaverWrite(a) \/ SaverWriteFails(a)
  <2> DEFINE u == Unit
             o == (k - 1) * u
             x == NextOf(a)
  <2>1. savers[a].pc = "open" /\ HasMore(a) /\ n < Len(batch) /\ x = batch[n + 1] /\ x \in Id
    BY <1>6, NextIsId DEF SaverWrite, SaverWriteFails, HasMore, batch, n, NextOf
  <2>2. u \in Nat \ {0} /\ Length[x] = u /\ Length[m] = u /\ savers[a].at = n * u
    BY <1>1, <2>1, UnitLength DEF SlotsKept, n
  <2> HIDE DEF u
  <2>3. o \in Nat /\ n * u \in Nat
    BY <1>1, <2>2
  <2>4. \/ n + 1 = k /\ o = n * u
        \/ n + 1 < k /\ n * u + u <= o
        \/ k < n + 1 /\ o + u <= n * u
    <3>1. CASE n + 1 = k
      <4>1. k - 1 = n
        BY <1>1, <3>1
      <4> QED
        BY <3>1, <4>1
    <3>2. CASE n + 1 < k
      <4>1. n < k - 1 /\ k - 1 \in Nat
        BY <1>1, <3>2
      <4> QED
        BY <1>1, <2>2, <3>2, <4>1, SlotOrder
    <3>3. CASE k < n + 1
      <4>1. k - 1 < n /\ k - 1 \in Nat
        BY <1>1, <3>3
      <4> QED
        BY <1>1, <2>2, <3>3, <4>1, SlotOrder
    <3> QED
      BY <1>1, <3>1, <3>2, <3>3
  <2> HIDE DEF o, x
  <2>5. SameFile(s, a) => (n + 1 = k => x = m)
    BY <2>1 DEF m, batch
  <2>6. SameFile(s, a) <=> name = FileName(batch)
    BY DEF SameFile, name, batch
  <2>7. ASSUME <<o, m>> \in files[name] PROVE <<o, m>> \in files'[name]
    <3>1. CASE name # FileName(batch)
      BY <1>1, <1>6, <2>7, <3>1, FileAfter DEF batch
    <3>2. CASE name = FileName(batch)
      <4>1. \/ o = savers[a].at /\ m = x
            \/ savers[a].at + Length[x] <= o \/ o + Length[m] <= savers[a].at
        BY <2>2, <2>4, <2>5, <2>6, <3>2
      <4> QED
        BY <1>1, <1>6, <2>3, <2>7, <4>1, FileAfter DEF x
    <3> QED
      BY <3>1, <3>2
  <2>8. CASE SaverWriteFails(a)
    <3>1. savers' = [savers EXCEPT ![a].pc = "done"]
      BY <2>8 DEF SaverWriteFails
    <3>2. savers'[a].pc = "done" /\ savers'[a].n = n
      BY <3>1, SaverFields DEF n
    <3>3. Lacks(a, k)'
      BY <1>2, <2>1, <3>2 DEF Lacks
    <3> QED
      BY <1>3, <1>4, <2>7, <3>3 DEF name, m, o, u
  <2>9. CASE SaverWrite(a)
    <3>1. savers'[a].pc = "open" /\ savers'[a].n = n + 1
      BY <2>9, SaverFields DEF n
    <3>2. CASE SameFile(s, a) /\ n + 1 = k
      <4>1. x = m /\ o = savers[a].at /\ name = FileName(batch)
        <5>1. o = n * u
          BY <1>1, <2>4, <3>2
        <5> QED
          BY <2>2, <2>5, <2>6, <3>2, <5>1
      <4>2. <<o, m>> \in files'[name]
        BY <1>1, <2>9, <4>1, FileAfter DEF x, batch
      <4> QED
        BY <4>2 DEF name, m, o, u
    <3>3. CASE ~(SameFile(s, a) /\ n + 1 = k)
      <4>1. SameFile(s, a) /\ Lacks(a, k) => Lacks(a, k)'
        <5>1. Lacks(a, k) => n < k
          BY <2>1 DEF Lacks, n
        <5>2. n < k /\ n + 1 # k => n + 1 < k
          BY <1>1
        <5> QED
          BY <3>1, <3>3, <5>1, <5>2 DEF Lacks
      <4> QED
        BY <1>3, <1>4, <2>7, <4>1 DEF name, m, o, u
    <3> QED
      BY <3>2, <3>3
  <2> QED
    BY <1>6, <2>8, <2>9
<1>7. CASE SaverDone(a)
  <2>1. savers[a].pc = "open" /\ ~(n < Len(batch)) /\ files' = files
    BY <1>7 DEF SaverDone, HasMore, n, batch
  <2>2. ~Lacks(a, k)
    BY <1>1, <2>1 DEF Lacks, n
  <2> QED
    BY <1>3, <1>4, <2>1, <2>2 DEF name, m
<1>8. CASE SaverOpenFails(a)
  <2>1. /\ files' = files /\ savers' = [savers EXCEPT ![a].pc = "done"] /\ n < Len(batch)
    <3>1. savers[a].pc = "start" => n = 0
      BY DEF SlotsKept, n
    <3> QED
      BY <1>1, <1>8, <3>1 DEF SaverOpenFails
  <2>2. savers'[a].pc = "done" /\ savers'[a].n = n
    BY <2>1, SaverFields DEF n
  <2>3. Lacks(a, k)'
    BY <1>2, <2>1, <2>2 DEF Lacks
  <2> QED
    BY <1>3, <1>4, <2>1, <2>3 DEF name, m
<1> QED
  BY <1>5, <1>6, <1>7, <1>8 DEF SaverSteps, SaverFails

(* Every step keeps what is known of the slots.                            *)
LEMMA NextSlots ==
  ASSUME EqualLengths, TypeOK, Cut, SlotsKept,
         \/ (\E m \in Id : Produce(m)) \/ GetNext \/ Consume
         \/ (Marks \/ Aside) /\ UNCHANGED consumerVars
         \/ \E s \in DOMAIN savers : Aside /\ (SaverSteps(s) \/ SaverFails(s))
  PROVE  SlotsKept'
<1>0. ConsumerTypeOK /\ savers \in Seq(Saver) /\ DOMAIN savers = 1 .. Len(savers) /\ Len(savers) \in Nat
  BY DEF TypeOK, ConsumerTypeOK
<1>1. CASE UNCHANGED <<savers, files>>
  BY <1>1 DEF SlotsKept, SameFile, Lacks
<1>2. ASSUME NEW a \in DOMAIN savers, SaverSteps(a) \/ SaverFails(a) PROVE SlotsKept'
  <2>1. /\ DOMAIN savers' = DOMAIN savers
        /\ \A t \in DOMAIN savers : savers'[t].batch = savers[t].batch /\ (t # a => savers'[t] = savers[t])
    BY <1>0, <1>2, SaverChange
  <2>2. \A s, t \in DOMAIN savers : SameFile(s, t)' <=> SameFile(s, t)
    BY <2>1 DEF SameFile
  <2>3. \A s \in DOMAIN savers' : savers'[s].pc = "start" => savers'[s].n = 0
    <3>1. savers'[a].pc # "start"
      <4>1. savers[a].pc = "start" => SaverOpen(a) \/ SaverOpenFails(a)
        BY <1>2 DEF SaverSteps, SaverFails, SaverWrite, SaverDone, SaverWriteFails
      <4>2. \/ savers' = [savers EXCEPT ![a].pc = "open"] \/ savers' = [savers EXCEPT ![a].pc = "done"]
            \/ SaverWrite(a)
        BY <1>2 DEF SaverSteps, SaverFails, SaverOpen, SaverDone, SaverOpenFails, SaverWriteFails
      <4>3. savers'[a].pc \in {"open", "done"}
        BY <1>0, <4>2, SaverFields
      <4> QED
        BY <4>3
    <3> QED
      BY <2>1, <3>1 DEF SlotsKept
  <2>4. ASSUME NEW s \in DOMAIN savers', NEW k \in Slots,
               \A t \in DOMAIN savers' : SameFile(s, t)' => savers'[t].batch[k] = savers'[s].batch[k]
        PROVE  \/ \E t \in DOMAIN savers' : SameFile(s, t)' /\ Lacks(t, k)'
               \/ <<(k - 1) * Unit, savers'[s].batch[k]>> \in files'[FileName(savers'[s].batch)]
    <3>1. s \in DOMAIN savers /\ \A t \in DOMAIN savers : SameFile(s, t) => savers[t].batch[k] = savers[s].batch[k]
      BY <2>1, <2>2, <2>4
    <3>2. \/ \E t \in DOMAIN savers : SameFile(s, t) /\ Lacks(t, k)'
          \/ <<(k - 1) * Unit, savers[s].batch[k]>> \in files'[FileName(savers[s].batch)]
      BY <1>0, <1>2, <3>1, SaverKeepsSlot
    <3> QED
      BY <2>1, <2>2, <3>1, <3>2
  <2>5. ASSUME NEW s \in DOMAIN savers' PROVE savers'[s].at = savers'[s].n * Unit
    <3>1. s \in DOMAIN savers /\ savers[s].at = savers[s].n * Unit
      BY <2>1, <2>5 DEF SlotsKept
    <3>2. CASE s # a
      BY <2>1, <3>1, <3>2
    <3>3. CASE s = a /\ SaverWrite(a)
      <4>1. savers'[a].n = savers[a].n + 1 /\ savers'[a].at = savers[a].at + Length[NextOf(a)]
        BY <1>0, <3>3, SaverFields
      <4>2. Length[NextOf(a)] = Unit /\ Unit \in Nat
        BY <1>0, <3>3, NextIsId, UnitLength DEF SaverWrite
      <4>3. savers[a].n \in Nat
        <5>1. savers[a] \in Saver
          BY <1>0
        <5> QED
          BY <5>1 DEF Saver
      <4>4. (savers[a].n + 1) * Unit = savers[a].n * Unit + Unit
        BY <4>2, <4>3
      <4> QED
        BY <3>1, <3>3, <4>1, <4>2, <4>4
    <3>4. CASE s = a /\ ~SaverWrite(a)
      <4>1. savers' = [savers EXCEPT ![a].pc = "open"] \/ savers' = [savers EXCEPT ![a].pc = "done"]
        BY <1>2, <3>4 DEF SaverSteps, SaverFails, SaverOpen, SaverDone, SaverOpenFails, SaverWriteFails
      <4>2. savers'[a].n = savers[a].n /\ savers'[a].at = savers[a].at
        BY <1>0, <4>1, SaverFields
      <4> QED
        BY <3>1, <3>4, <4>2
    <3> QED
      BY <3>2, <3>3, <3>4
  <2> QED
    BY <2>3, <2>4, <2>5 DEF SlotsKept
<1>3. ASSUME NEW i \in Id, NEW b \in Seq(Id), savers' = Append(savers, NewSaver(b)), files' = files PROVE SlotsKept'
  <2> DEFINE N == Len(savers)
  <2>1. /\ DOMAIN savers' = 1 .. N + 1 /\ savers'[N + 1] = NewSaver(b)
        /\ \A s \in DOMAIN savers : savers'[s] = savers[s]
    BY <1>0, <1>3, NewSaverType
  <2>2. savers'[N + 1].pc = "start" /\ savers'[N + 1].n = 0 /\ savers'[N + 1].at = 0 /\ N + 1 \in DOMAIN savers'
    BY <1>0, <2>1 DEF NewSaver
  <2> HIDE DEF N
  <2>3. ASSUME NEW s \in DOMAIN savers' PROVE s \in DOMAIN savers \/ s = N + 1
    BY <1>0, <2>1 DEF N
  <2>4. \A s \in DOMAIN savers : s \in DOMAIN savers'
    BY <1>0, <2>1 DEF N
  <2>5. \A s, t \in DOMAIN savers : SameFile(s, t)' <=> SameFile(s, t)
    BY <2>1 DEF SameFile
  <2>6. \A s \in DOMAIN savers' : savers'[s].pc = "start" => savers'[s].n = 0
    BY <2>1, <2>2, <2>3 DEF SlotsKept
  <2>7. ASSUME NEW s \in DOMAIN savers', NEW k \in Slots,
               \A t \in DOMAIN savers' : SameFile(s, t)' => savers'[t].batch[k] = savers'[s].batch[k]
        PROVE  \/ \E t \in DOMAIN savers' : SameFile(s, t)' /\ Lacks(t, k)'
               \/ <<(k - 1) * Unit, savers'[s].batch[k]>> \in files'[FileName(savers'[s].batch)]
    <3>1. ASSUME NEW t, t = N + 1, SameFile(s, t)' PROVE t \in DOMAIN savers' /\ Lacks(t, k)'
      BY <2>2, <3>1 DEF Lacks
    <3>2. CASE \E t : t = N + 1 /\ SameFile(s, t)'
      BY <3>1, <3>2
    <3>3. CASE ~\E t : t = N + 1 /\ SameFile(s, t)'
      <4>1. s \in DOMAIN savers
        BY <2>3, <3>3 DEF SameFile
      <4>2. \A t \in DOMAIN savers : SameFile(s, t) => savers[t].batch[k] = savers[s].batch[k]
        BY <2>1, <2>4, <2>5, <2>7, <4>1
      <4>3. \/ \E t \in DOMAIN savers : SameFile(s, t) /\ Lacks(t, k)
            \/ <<(k - 1) * Unit, savers[s].batch[k]>> \in files[FileName(savers[s].batch)]
        BY <4>1, <4>2 DEF SlotsKept
      <4>4. \A t \in DOMAIN savers : Lacks(t, k) => Lacks(t, k)'
        BY <2>1 DEF Lacks
      <4> QED
        BY <1>3, <2>1, <2>4, <2>5, <4>1, <4>3, <4>4
    <3> QED
      BY <3>2, <3>3
  <2>8. \A s \in DOMAIN savers' : savers'[s].at = savers'[s].n * Unit
    <3>1. Unit \in Nat /\ 0 * Unit = 0
      BY UnitLength
    <3> QED
      BY <2>1, <2>2, <2>3, <3>1 DEF SlotsKept
  <2> QED
    BY <2>6, <2>7, <2>8 DEF SlotsKept
<1>4. CASE Consume
  <2>1. messages[pos] \in Id /\ Append(buffer, messages[pos]) \in Seq(Id)
    BY <1>4, AtPos DEF Consume, TypeOK, ConsumerTypeOK
  <2>2. files' = files /\ (savers' = savers \/ savers' = Append(savers, NewSaver(Append(buffer, messages[pos]))))
    BY <1>4 DEF Consume, Push
  <2> QED
    BY <1>1, <1>3, <2>1, <2>2
<1> QED
  BY <1>1, <1>2, <1>4 DEF Produce, GetNext, consumerVars

(* Savers of a stream in which nothing comes twice do not share a file.    *)
LEMMA OwnFile ==
  ASSUME TypeOK, Cut, IsInjective(stream), NEW s \in DOMAIN savers, NEW t \in DOMAIN savers, SameFile(s, t)
  PROVE  s = t
<1> DEFINE C == ConsumerChunk
<1>1. /\ s \in Nat \ {0} /\ t \in Nat \ {0} /\ C \in Nat \ {0} /\ C \in Slots
      /\ Offset(s) \in Nat /\ Offset(t) \in Nat
  <2>1. s \in Nat \ {0} /\ t \in Nat \ {0}
    BY DEF TypeOK, ConsumerTypeOK
  <2>2. C \in Nat \ {0} /\ C \in Slots
    BY ConsumerChunkAssumption DEF Slots
  <2> QED
    BY <2>1, <2>2, OffsetStep
<1>2. FileName(savers[s].batch)[2] = savers[s].batch[C] /\ FileName(savers[t].batch)[2] = savers[t].batch[C]
  <2>1. ASSUME NEW i \in DOMAIN savers PROVE FileName(savers[i].batch)[2] = savers[i].batch[C]
    <3>1. savers[i].batch \in Seq(Id) /\ savers[i].batch # <<>> /\ Len(savers[i].batch) = C
      BY <2>1, BatchHasFile DEF TypeOK
    <3>2. FileName(savers[i].batch)[2] = savers[i].batch[Len(savers[i].batch)]
      BY <3>1, NameOfBatch
    <3> QED
      BY <3>1, <3>2
  <2> QED
    BY <2>1
<1>3. savers[s].batch[C] = savers[t].batch[C]
  BY <1>2 DEF SameFile
<1>4. /\ Offset(s) + C \in DOMAIN stream /\ stream[Offset(s) + C] = savers[s].batch[C]
      /\ Offset(t) + C \in DOMAIN stream /\ stream[Offset(t) + C] = savers[t].batch[C]
  BY <1>1 DEF Cut
<1>5. Offset(s) + C = Offset(t) + C
  BY <1>3, <1>4 DEF IsInjective
<1>6. ~(s < t) /\ ~(t < s)
  BY <1>1, <1>5, OffsetOrder
<1> QED
  BY <1>1, <1>6

(* Every step keeps what was written, while no two savers share a file.    *)
LEMMA NextAlone ==
  ASSUME TypeOK, Cut, IsInjective(stream), AloneKept,
         \/ (\E m \in Id : Produce(m)) \/ GetNext \/ Consume
         \/ (Marks \/ Aside) /\ UNCHANGED consumerVars
         \/ \E s \in DOMAIN savers : Aside /\ (SaverSteps(s) \/ SaverFails(s))
  PROVE  AloneKept'
<1>0. ConsumerTypeOK /\ savers \in Seq(Saver) /\ DOMAIN savers = 1 .. Len(savers) /\ Len(savers) \in Nat
  BY DEF TypeOK, ConsumerTypeOK
<1>1. CASE UNCHANGED <<savers, files>>
  BY <1>1 DEF AloneKept, KeptBy, WrittenBy
<1>2. ASSUME NEW a \in DOMAIN savers, SaverSteps(a) \/ SaverFails(a), NEW s \in DOMAIN savers'
      PROVE  KeptBy(s)'
  <2>1. /\ s \in DOMAIN savers /\ savers'[s].batch = savers[s].batch
        /\ s # a => savers'[s] = savers[s]
    BY <1>0, <1>2, SaverChange
  <2>2. /\ savers[s].batch \in Seq(Id) /\ savers[s].n \in Nat /\ savers[s].at \in Nat
        /\ FileName(savers[s].batch) \in Id \X Id
    <3>1. savers[s] \in Saver
      BY <1>0, <2>1
    <3> QED
      BY <1>0, <2>1, <3>1, BatchHasFile DEF Saver
  <2>3. /\ savers[s].pc = "start" => savers[s].n = 0
        /\ savers[s].n <= Len(savers[s].batch)
        /\ \A k \in 1 .. savers[s].n : WrittenBy(s, k)
    BY <2>1 DEF AloneKept, KeptBy
  <2> DEFINE name == FileName(savers[s].batch)
  <2>4. CASE s # a
    <3>1. name # FileName(savers[a].batch)
      BY <1>2, <2>1, <2>4, OwnFile DEF SameFile
    <3>2. files'[name] = files[name]
      <4>1. files \in [Id \X Id -> SUBSET (Nat \X Id)]
        BY <1>0 DEF ConsumerTypeOK
      <4>2. CASE SaverWrite(a) \/ SaverWriteFails(a)
        BY <1>0, <1>2, <2>2, <3>1, <4>2, FileAfter
      <4>3. CASE SaverOpen(a)
        BY <2>2, <3>1, <4>1, <4>3 DEF SaverOpen
      <4>4. CASE UNCHANGED files
        BY <4>4
      <4> QED
        BY <1>2, <4>2, <4>3, <4>4 DEF SaverSteps, SaverFails, SaverDone, SaverOpenFails
    <3> QED
      BY <2>1, <2>3, <2>4, <3>2 DEF WrittenBy, KeptBy
  <2>5. CASE s = a /\ SaverWrite(a)
    <3>1. /\ savers'[s].pc = "open" /\ savers'[s].n = savers[s].n + 1
          /\ savers'[s].at = savers[s].at + Length[NextOf(s)]
      BY <1>0, <2>1, <2>5, SaverFields
    <3>2. /\ NextOf(s) \in Id /\ Length[NextOf(s)] \in Nat \ {0}
          /\ savers[s].n + 1 \in 1 .. Len(savers[s].batch)
      BY <1>0, <2>1, <2>5, NextIsId DEF SaverWrite
    <3>3. ASSUME NEW k \in 1 .. savers[s].n PROVE WrittenBy(s, k)'
      <4> DEFINE m == savers[s].batch[k]
      <4>1. PICK o \in Nat : <<o, m>> \in files[name] /\ o + Length[m] <= savers[s].at
        BY <2>3, <3>3 DEF WrittenBy
      <4>2. m \in Id /\ Length[m] \in Nat
        <5>1. m \in Id
          BY <2>2, <2>3, <3>3
        <5> QED
          BY <5>1, LengthAssumption
      <4> HIDE DEF m
      <4>3. <<o, m>> \in files'[name]
        BY <1>0, <2>1, <2>2, <2>5, <4>1, <4>2, FileAfter
      <4>4. o + Length[m] <= savers'[s].at
        BY <2>2, <3>1, <3>2, <4>1, <4>2
      <4> QED
        BY <2>1, <4>3, <4>4 DEF WrittenBy, m
    <3>4. ASSUME NEW k, k = savers[s].n + 1 PROVE WrittenBy(s, k)'
      <4>1. <<savers[s].at, NextOf(s)>> \in files'[name]
        BY <1>0, <2>1, <2>2, <2>5, FileAfter
      <4>2. savers[s].at + Length[NextOf(s)] <= savers'[s].at
        BY <2>2, <3>1, <3>2
      <4> QED
        BY <2>1, <2>2, <3>4, <4>1, <4>2 DEF WrittenBy, NextOf
    <3>5. \A k \in 1 .. savers'[s].n : k \in 1 .. savers[s].n \/ k = savers[s].n + 1
      BY <2>2, <3>1
    <3> QED
      BY <2>1, <2>2, <3>1, <3>2, <3>3, <3>4, <3>5 DEF KeptBy
  <2>6. CASE s = a /\ ~SaverWrite(a)
    <3>1. \E p \in {"open", "done"} : savers' = [savers EXCEPT ![a].pc = p]
      BY <1>2, <2>6 DEF SaverSteps, SaverFails, SaverOpen, SaverDone, SaverOpenFails, SaverWriteFails
    <3>2. savers'[s].pc # "start" /\ savers'[s].n = savers[s].n /\ savers'[s].at = savers[s].at
      <4>1. PICK p \in {"open", "done"} : savers' = [savers EXCEPT ![a].pc = p]
        BY <3>1
      <4>2. savers'[s] = [savers[s] EXCEPT !.pc = p]
        BY <2>1, <2>6, <4>1 DEF ConsumerTypeOK
      <4>3. savers[s] \in Saver
        BY <1>0, <2>1 DEF ConsumerTypeOK
      <4> QED
        BY <4>1, <4>2, <4>3 DEF Saver
    <3>3. ASSUME NEW k \in 1 .. savers[s].n PROVE WrittenBy(s, k)'
      <4> DEFINE m == savers[s].batch[k]
      <4>1. PICK o \in Nat : <<o, m>> \in files[name] /\ o + Length[m] <= savers[s].at
        BY <2>3, <3>3 DEF WrittenBy
      <4>2. m \in Id
        BY <2>2, <2>3, <3>3
      <4> HIDE DEF m
      <4>3. CASE SaverWriteFails(a)
        <5>1. <<o, m>> \in files'[name]
          BY <1>0, <2>1, <2>2, <2>6, <4>1, <4>2, <4>3, FileAfter
        <5> QED
          BY <2>1, <3>2, <4>1, <5>1 DEF WrittenBy, m
      <4>4. CASE SaverOpen(a)
        <5>1. savers[s].n = 0
          BY <2>3, <2>6, <4>4 DEF SaverOpen
        <5> QED
          BY <3>3, <5>1
      <4>5. CASE UNCHANGED files
        BY <2>1, <3>2, <4>1, <4>5 DEF WrittenBy, m
      <4> QED
        BY <1>2, <2>6, <4>3, <4>4, <4>5 DEF SaverSteps, SaverFails, SaverDone, SaverOpenFails
    <3> QED
      BY <2>1, <2>3, <3>2, <3>3 DEF KeptBy
  <2> QED
    BY <2>4, <2>5, <2>6
<1>3. ASSUME NEW b \in Seq(Id), savers' = Append(savers, NewSaver(b)), files' = files PROVE AloneKept'
  <2> DEFINE N == Len(savers)
  <2>1. /\ DOMAIN savers' = 1 .. N + 1 /\ savers'[N + 1] = NewSaver(b)
        /\ \A s \in DOMAIN savers : savers'[s] = savers[s]
    BY <1>0, <1>3, NewSaverType
  <2>2. savers'[N + 1].n = 0 /\ savers'[N + 1].batch = b /\ Len(b) \in Nat
    BY <2>1 DEF NewSaver
  <2> HIDE DEF N
  <2>3. ASSUME NEW s \in DOMAIN savers' PROVE s \in DOMAIN savers \/ s = N + 1
    BY <1>0, <2>1 DEF N
  <2>4. ASSUME NEW s \in DOMAIN savers', s = N + 1
        PROVE  KeptBy(s)'
    BY <2>2, <2>4 DEF KeptBy
  <2>5. ASSUME NEW s \in DOMAIN savers
        PROVE  KeptBy(s)'
    <3>1. \A k : WrittenBy(s, k)' <=> WrittenBy(s, k)
      BY <1>3, <2>1, <2>5 DEF WrittenBy
    <3> QED
      BY <2>1, <2>5, <3>1 DEF AloneKept, KeptBy
  <2> QED
    BY <2>3, <2>4, <2>5 DEF AloneKept
<1>4. CASE Consume
  <2>1. Append(buffer, messages[pos]) \in Seq(Id)
    BY <1>4, AtPos DEF Consume, TypeOK, ConsumerTypeOK
  <2>2. files' = files /\ (savers' = savers \/ savers' = Append(savers, NewSaver(Append(buffer, messages[pos]))))
    BY <1>4 DEF Consume, Push
  <2> QED
    BY <1>1, <1>3, <2>1, <2>2
<1>5. ASSUME NEW a \in DOMAIN savers, SaverSteps(a) \/ SaverFails(a) PROVE AloneKept'
  BY <1>2, <1>5 DEF AloneKept
<1> QED
  BY <1>1, <1>4, <1>5 DEF Produce, GetNext, consumerVars

(* At the start nothing was handed over.                                   *)
LEMMA InitLost == Init => LostInv
<1> SUFFICES ASSUME Init PROVE LostInv
  OBVIOUS
<1>1. /\ stream = <<>> /\ messages = <<>> /\ buffer = <<>> /\ savers = <<>> /\ stored = {} /\ produced = {}
      /\ loop = "while" /\ main = "wait"
  BY DEF Init, ConsumerInit
<1>2. Range(<<>>) = {} /\ Ascending(<<>>)
  BY DEF Range, Ascending
<1>3. Len(<<>>) = 0 /\ Offset(0 + 1) = 0 /\ ConsumerChunk > 0 /\ Len(<<>>) <= ProducerChunk
  BY OffsetStep, ConsumerChunkAssumption, ProducerChunkAssumption
<1>4. OldestFirst /\ Redelivery /\ SettledOrder
  BY <1>1, <1>2, <1>3 DEF OldestFirst, Redelivery, SettledOrder
<1>5. Cut
  BY <1>1, <1>3 DEF Cut
<1>6. SlotsKept /\ AloneKept
  BY <1>1 DEF SlotsKept, AloneKept
<1>7. produced \ stored \subseteq Range(stream)
  BY <1>1
<1> QED
  BY <1>1, <1>4, <1>5, <1>6, <1>7 DEF LostInv

(* What leaves the storage was handed over.                                *)
LEMMA NextHanded ==
  ASSUME TypeOK, ChunkInHand, produced \ stored \subseteq Range(stream),
         (\E m \in Id : Produce(m)) \/ GetNext \/ Consume \/ Marks \/ Aside
  PROVE  (produced \ stored \subseteq Range(stream))'
<1>1. CASE Consume
  <2>1. Range(stream) \subseteq Range(stream') /\ UNCHANGED <<produced, stored>>
    BY <1>1, AtPos, RangeAppend DEF Consume, TypeOK
  <2> QED
    BY <2>1
<1>2. CASE Marks
  BY <1>2 DEF Marks, ChunkInHand, ToDelete
<1>3. CASE (\E m \in Id : Produce(m)) \/ GetNext \/ Aside
  BY <1>3 DEF Produce, GetNext, Aside
<1> QED
  BY <1>1, <1>2, <1>3

(* Every step keeps the invariant.                                         *)
LEMMA NextLost == TypeOK /\ ChunkInHand /\ OnceInv /\ LostInv /\ [Next]_vars => LostInv'
<1> SUFFICES ASSUME TypeOK, ChunkInHand, OnceInv, LostInv, [Next]_vars, Calm'
             PROVE  /\ main' = "wait" /\ (produced \ stored \subseteq Range(stream))' /\ Cut'
                    /\ Ordered /\ EqualLengths => OldestFirst' /\ Redelivery' /\ SettledOrder' /\ SlotsKept'
                    /\ Never("mark")' => AloneKept'
  BY DEF LostInv
<1>1. /\ Calm /\ main = "wait" /\ produced \ stored \subseteq Range(stream) /\ Cut
      /\ Ordered /\ EqualLengths => OldestFirst /\ Redelivery /\ SettledOrder /\ SlotsKept
      /\ Never("mark") => AloneKept
  BY CalmBefore DEF LostInv
<1>2. /\ main' = "wait"
      /\ \/ (\E m \in Id : Produce(m)) \/ GetNext \/ Consume
         \/ Marks /\ UNCHANGED consumerVars
         \/ Aside /\ UNCHANGED consumerVars
         \/ \E s \in DOMAIN savers : Aside /\ (SaverSteps(s) \/ SaverFails(s))
  BY <1>1, CalmStep
<1>3. (\E m \in Id : Produce(m)) \/ GetNext \/ Consume \/ Marks \/ Aside
  BY <1>2
<1>4. (produced \ stored \subseteq Range(stream))' /\ Cut'
  BY <1>1, <1>2, <1>3, NextHanded, NextCut
<1>5. ASSUME Ordered, EqualLengths PROVE OldestFirst' /\ Redelivery' /\ SettledOrder' /\ SlotsKept'
  <2>1. OldestFirst /\ Redelivery /\ SettledOrder /\ SlotsKept
    BY <1>1, <1>5
  <2>2. OldestFirst'
    BY <1>1, <1>3, <1>5, <2>1, NextOldest
  <2>3. Redelivery'
    BY <1>1, <1>3, <1>5, <2>1, NextRedelivery
  <2>4. SettledOrder'
    BY <1>1, <1>3, <1>5, <2>1, NextSettled
  <2>5. SlotsKept'
    BY <1>1, <1>2, <1>5, <2>1, NextSlots
  <2> QED
    BY <2>2, <2>3, <2>4, <2>5
<1>6. ASSUME Never("mark")' PROVE AloneKept'
  <2>1. Quiet
    BY <1>6, QuietBefore DEF Quiet, Calm
  <2>2. AloneKept /\ IsInjective(stream)
    BY <1>1, <2>1 DEF Quiet, OnceInv
  <2> QED
    BY <1>1, <1>2, <2>2, NextAlone
<1> QED
  BY <1>2, <1>4, <1>5, <1>6

(* A message that was handed over has a last position in the stream.       *)
LEMMA LastPosition ==
  ASSUME TypeOK, NEW m \in Range(stream)
  PROVE  \E f \in DOMAIN stream : stream[f] = m /\ \A j \in DOMAIN stream : j > f => stream[j] # m
<1> DEFINE L == Len(stream)
           Far == {e \in 0 .. L : L - e \in DOMAIN stream /\ stream[L - e] = m}
<1>1. L \in Nat /\ DOMAIN stream = 1 .. L
  BY DEF TypeOK
<1>2. PICK i \in 1 .. L : stream[i] = m
  BY <1>1 DEF Range
<1>3. L - i \in Far
  <2>1. L - i \in 0 .. L /\ L - (L - i) = i
    BY <1>1
  <2> QED
    BY <1>1, <1>2, <2>1
<1>4. Far \subseteq Nat
  BY <1>1
<1>5. PICK e \in Far : \A d \in Far : e <= d
  BY <1>3, <1>4, LeastNat, Zenon
<1>6. ASSUME NEW j \in DOMAIN stream, j > L - e PROVE stream[j] # m
  <2>1. L - j \in 0 .. L /\ L - (L - j) = j /\ L - j < e
    BY <1>1, <1>5, <1>6
  <2>2. L - j \notin Far
    BY <1>1, <1>5, <2>1
  <2> QED
    BY <1>1, <2>1, <2>2
<1> QED
  BY <1>5, <1>6

(* All batches of the file of a settled message have it in the same slot.  *)
LEMMA SettledAgrees ==
  ASSUME TypeOK, SettledOrder, Cut, NEW s \in DOMAIN savers, NEW k \in Slots, Settled(Offset(s) + k),
         NEW t \in DOMAIN savers, SameFile(s, t)
  PROVE  savers[t].batch[k] = savers[s].batch[k]
<1> DEFINE C == ConsumerChunk
           f == Offset(s) + k
           b == savers[s].batch
           c == savers[t].batch
<1>1. /\ s \in Nat \ {0} /\ t \in Nat \ {0} /\ C \in Nat \ {0} /\ k \in 1 .. C /\ C \in Slots
      /\ Offset(s) \in Nat /\ Offset(t) \in Nat
  <2>1. s \in Nat \ {0} /\ t \in Nat \ {0}
    BY DEF TypeOK, ConsumerTypeOK
  <2>2. C \in Nat \ {0} /\ Slots = 1 .. C
    BY ConsumerChunkAssumption DEF Slots
  <2>3. Offset(s) \in Nat /\ Offset(t) \in Nat
    BY <2>1, OffsetStep
  <2>4. k \in 1 .. C /\ C \in Slots
    BY <2>2
  <2> HIDE DEF C
  <2> QED
    BY <2>1, <2>2, <2>3, <2>4
<1>2. /\ b \in Seq(Id) /\ b # <<>> /\ Len(b) = C
      /\ c \in Seq(Id) /\ c # <<>> /\ Len(c) = C
  BY BatchHasFile DEF TypeOK
<1>3. /\ Smallest(b, C, FileName(b)[1]) /\ FileName(b)[2] = b[C]
      /\ Smallest(c, C, FileName(c)[1]) /\ FileName(c)[2] = c[C]
  <2>1. Smallest(b, Len(b), FileName(b)[1]) /\ FileName(b)[2] = b[Len(b)]
    BY <1>2, NameOfBatch
  <2>2. Smallest(c, Len(c), FileName(c)[1]) /\ FileName(c)[2] = c[Len(c)]
    BY <1>2, NameOfBatch
  <2> QED
    BY <1>2, <2>1, <2>2
<1>4. FileName(b) = FileName(c)
  BY DEF SameFile
<1>5. \A i \in Slots : /\ Offset(s) + i \in DOMAIN stream /\ stream[Offset(s) + i] = b[i]
                       /\ Offset(t) + i \in DOMAIN stream /\ stream[Offset(t) + i] = c[i]
  BY DEF Cut
<1>6. \A i \in 1 .. C : b[i] \in Nat /\ c[i] \in Nat
  <2>1. \A i \in 1 .. C : b[i] \in Id /\ c[i] \in Id
    BY <1>2
  <2> QED
    BY <2>1, IdAssumption
<1> HIDE DEF b, c
<1>7. CASE t < s
  <2> DEFINE p == Offset(t) + C
             q == Offset(s) + C
  <2>1. p < f /\ f <= q /\ p \in DOMAIN stream /\ q \in DOMAIN stream /\ f \in DOMAIN stream
    <3>1. Offset(t) + C <= Offset(s)
      BY <1>1, <1>7, OffsetOrder
    <3> QED
      BY <1>1, <1>5, <3>1 DEF Slots
  <2>2. stream[p] = stream[q]
    BY <1>1, <1>3, <1>4, <1>5
  <2>3. p - (q - f) \in DOMAIN stream /\ stream[p - (q - f)] = stream[f]
    BY <2>1, <2>2 DEF SettledOrder
  <2>4. p - (q - f) = Offset(t) + k
    BY <1>1
  <2> QED
    BY <1>5, <2>3, <2>4 DEF b, c
<1>8. CASE s < t
  <2>1. PICK i \in 1 .. C : c[i] = FileName(c)[1]
    BY <1>3 DEF Smallest
  <2>2. c[i] <= b[k]
    BY <1>1, <1>3, <1>4, <2>1 DEF Smallest
  <2>3. f < Offset(t) + i
    <3>1. Offset(s) + C <= Offset(t)
      BY <1>1, <1>8, OffsetOrder
    <3> QED
      BY <1>1, <2>1, <3>1
  <2>4. /\ f \in DOMAIN stream /\ stream[f] = b[k]
        /\ Offset(t) + i \in DOMAIN stream /\ stream[Offset(t) + i] = c[i]
    BY <1>5, <2>1 DEF Slots
  <2>5. stream[f] < stream[Offset(t) + i]
    BY <2>3, <2>4 DEF SettledOrder
  <2>6. b[k] \in Nat /\ c[i] \in Nat
    BY <1>1, <1>6, <2>1
  <2> QED
    BY <2>2, <2>4, <2>5, <2>6
<1>9. CASE s = t
  BY <1>9
<1> QED
  BY <1>1, <1>7, <1>8, <1>9

(* The invariant implies the property.                                     *)
LEMMA LostImplies ==
  ASSUME TypeOK, OnceInv, LostInv
  PROVE  NothingLost
<1> SUFFICES ASSUME Calm, Never("mark") \/ (Ordered /\ EqualLengths), NEW m \in produced \ stored
             PROVE  m \in Range(buffer) \cup InSavers \cup InFiles \cup Unwritten
  BY DEF NothingLost, Calm, Reachable
<1>1. Cut /\ ConsumerTypeOK
  BY DEF LostInv, TypeOK
<1>2. PICK f \in DOMAIN stream : stream[f] = m /\ \A j \in DOMAIN stream : j > f => stream[j] # m
  BY LastPosition DEF LostInv
<1>3. Settled(f)
  BY <1>2 DEF Settled
<1>4. CASE f > Offset(Len(savers) + 1)
  <2> DEFINE O == Offset(Len(savers) + 1)
             k == f - O
  <2>1. O \in Nat /\ f \in 1 .. Len(stream) /\ Len(stream) \in Nat /\ Len(stream) = O + Len(buffer) /\ Len(buffer) \in Nat
    <3>1. Len(savers) + 1 \in Nat \ {0}
      BY <1>1 DEF ConsumerTypeOK
    <3> QED
      BY <1>1, <3>1, OffsetStep DEF Cut, TypeOK, ConsumerTypeOK
  <2>2. k \in 1 .. Len(buffer) /\ f = O + k
    BY <1>4, <2>1
  <2>3. k \in DOMAIN buffer
    BY <1>1, <2>2 DEF ConsumerTypeOK
  <2>4. buffer[k] = m
    BY <1>1, <1>2, <2>2, <2>3 DEF Cut
  <2> QED
    BY <2>3, <2>4 DEF Range
<1>5. ASSUME NEW s \in DOMAIN savers, NEW k \in Slots, f = Offset(s) + k
      PROVE  m \in InSavers \cup InFiles \cup Unwritten
  <2> DEFINE name == FileName(savers[s].batch)
  <2>1. savers[s].batch[k] = m
    BY <1>1, <1>2, <1>5 DEF Cut
  <2>2. ASSUME NEW o \in Nat, <<o, m>> \in files[name] PROVE m \in InFiles
    <3>1. name \in DOMAIN files
      BY <1>1, BatchHasFile DEF ConsumerTypeOK
    <3>2. m \in Contents(name)
      <4>1. <<o, m>>[2] = m
        OBVIOUS
      <4> QED
        BY <2>2, <4>1 DEF Contents
    <3> QED
      BY <3>1, <3>2 DEF InFiles
  <2> HIDE DEF name
  <2>3. ASSUME NEW t \in DOMAIN savers, savers[t].batch[k] = m,
               savers[t].pc # "done" \/ savers[t].n < Len(savers[t].batch)
        PROVE  m \in InSavers \cup Unwritten
    <3>1. k \in DOMAIN savers[t].batch
      BY <1>1, BatchHasFile DEF Slots
    <3>2. m \in Range(savers[t].batch)
      BY <2>3, <3>1 DEF Range
    <3>3. CASE savers[t].pc = "done" /\ savers[t].n < Len(savers[t].batch)
      BY <3>2, <3>3 DEF Unwritten
    <3>4. CASE savers[t].pc # "done"
      BY <3>2, <3>4 DEF InSavers, Pending
    <3> QED
      BY <2>3, <3>3, <3>4
  <2>4. CASE Never("mark")
    <3>1. AloneKept
      BY <2>4 DEF LostInv
    <3>2. savers[s].n \in Nat /\ Len(savers[s].batch) = ConsumerChunk /\ ConsumerChunk \in Nat
      BY <1>1, BatchHasFile, ConsumerChunkAssumption
    <3>3. CASE savers[s].pc # "done" \/ savers[s].n < Len(savers[s].batch)
      BY <2>1, <2>3, <3>3
    <3>4. CASE ~(savers[s].n < Len(savers[s].batch))
      <4>1. k \in 1 .. savers[s].n
        BY <3>2, <3>4 DEF Slots
      <4>2. WrittenBy(s, k)
        BY <3>1, <4>1 DEF AloneKept, KeptBy
      <4> QED
        BY <2>1, <2>2, <4>2 DEF WrittenBy, name
    <3> QED
      BY <3>3, <3>4
  <2>5. CASE Ordered /\ EqualLengths
    <3>1. SettledOrder /\ SlotsKept
      BY <2>5 DEF LostInv
    <3>2. \A t \in DOMAIN savers : SameFile(s, t) => savers[t].batch[k] = savers[s].batch[k]
      BY <1>1, <1>3, <1>5, <3>1, SettledAgrees
    <3>3. CASE <<(k - 1) * Unit, m>> \in files[name]
      <4>1. (k - 1) * Unit \in Nat
        <5>1. m \in Id /\ k - 1 \in Nat
          BY ConsumerChunkAssumption DEF TypeOK, Slots
        <5>2. Unit \in Nat
          BY <2>5, <5>1, UnitLength
        <5> QED
          BY <5>1, <5>2
      <4> QED
        BY <2>2, <3>3, <4>1
    <3>4. ASSUME NEW t \in DOMAIN savers, SameFile(s, t), Lacks(t, k)
          PROVE  m \in InSavers \cup Unwritten
      BY <2>1, <2>3, <3>2, <3>4 DEF Lacks
    <3> QED
      BY <2>1, <3>1, <3>2, <3>3, <3>4 DEF SlotsKept, name
  <2> QED
    BY <2>4, <2>5
<1>6. f > Offset(Len(savers) + 1) \/ \E s \in DOMAIN savers, k \in Slots : f = Offset(s) + k
  BY <1>1 DEF Cut
<1> QED
  BY <1>4, <1>5, <1>6

(* Nothing is lost as long as no thread fails to start and nobody stops or *)
(* kills the process, but the batches whose own file could not be written: *)
(* for all chunk sizes, any number of failing fetches and every            *)
(* interleaving of detached threads, over both storages and for messages   *)
(* of any lengths if no deletion fails; and if deletions fail or are in    *)
(* doubt, over a Redis stream of messages that all have the same length.   *)
THEOREM NothingLostAlways == Spec => []NothingLost
<1>1. TypeOK /\ OnceInv /\ LostInv => NothingLost
  BY LostImplies
<1> QED
  BY <1>1, InitTypeOK, NextTypeOK, InitChunkInHand, NextChunkInHand, InitOnce, NextOnce,
     InitLost, NextLost, PTL DEF Spec
=============================================================================
