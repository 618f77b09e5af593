------------------------------- MODULE GwBack -------------------------------
(***************************************************************************)
(* The gwback process: main(), the run loop thread and its MessageConsumer *)
(* against the storage that gwfront fills.  The producer is modelled by    *)
(* what its two calls do to the storage or by the exception they throw.    *)
(***************************************************************************)
EXTENDS MessageConsumer, Chunking, FiniteSets

CONSTANTS
  Ordered,        \* TRUE: ids become visible in increasing order (a Redis
                  \* stream); FALSE: in any order (a BIGSERIAL whose
                  \* transactions commit concurrently)
  MaxEvents       \* how often each kind of Event may happen

Event == {"get", "mark", "spawn", "disk", "crash", "signal"}

ASSUME OrderedAssumption == Ordered \in BOOLEAN
ASSUME EventsAssumption == MaxEvents \in [Event -> Nat]

VARIABLES
  stored,    \* ids in the messages table / stream
  produced,  \* history: ids ever committed there
  run,       \* the flag `run'
  loop,      \* where the run loop thread is
  messages,  \* ids of the local `messages' of the run loop
  pos,       \* position in messages of the next one operator() takes
  main,      \* where main() is
  stream,    \* history: every id this process moved into buffer_, in order
  events     \* how often each kind of event has happened

loopVars == <<run, loop, messages, pos>>
vars == <<consumerVars, stored, produced, loopVars, main, stream, events>>

LoopPc == {"while", "consume", "mark", "sleep", "exited"}
MainPc == {"wait", "join", "save", "down"}

Up == main # "down"

(* A bounded event of the environment, or a fault.                         *)
Happens(e) ==
  /\ events[e] < MaxEvents[e]
  /\ events' = [events EXCEPT ![e] = @ + 1]

Never(e) == events[e] = 0

(* gwfront commits a message; the storage gave it the id m.                *)
Produce(m) ==
  /\ m \notin produced
  /\ Ordered => \A k \in produced : k < m
  /\ produced' = produced \cup {m}
  /\ stored' = stored \cup {m}
  /\ UNCHANGED <<consumerVars, loopVars, main, stream, events>>

(***************************************************************************)
(* runLoop                                                                 *)
(***************************************************************************)
GetNext ==
  /\ loop = "while" /\ run
  /\ \E c \in Chunks(stored) :
       /\ messages' = c
       /\ loop' = IF c = <<>> THEN "sleep" ELSE "consume"
  /\ pos' = 1
  /\ UNCHANGED <<consumerVars, stored, produced, run, main, stream, events>>

GetNextThrows ==
  /\ loop = "while" /\ run
  /\ Happens("get")
  /\ loop' = "sleep"
  /\ UNCHANGED <<consumerVars, stored, produced, run, messages, pos, main, stream>>

(* Mutants: the iteration runs past the end of messages; operator()        *)
(* returns after a flush, in the middle of the chunk.                      *)
PastEnd == pos > Len(messages)
AtEndOrFlush == pos = Len(messages) \/ IsFull(Append(buffer, messages[pos]))

AtEnd == pos = Len(messages)

Consume ==
  /\ loop = "consume"
  /\ Push(messages[pos])
  /\ stream' = Append(stream, messages[pos])
  /\ pos' = pos + 1
  /\ loop' = IF AtEnd THEN "mark" ELSE "consume"
  /\ UNCHANGED <<files, stored, produced, run, messages, main, events>>

ConsumeThrows ==
  /\ loop = "consume"
  /\ Happens("spawn")
  /\ PushSpawnFails(messages[pos])
  /\ stream' = Append(stream, messages[pos])
  /\ loop' = "sleep"
  /\ UNCHANGED <<files, stored, produced, run, messages, pos, main>>

(* Mutants: the list of ids stops before messages.back(); everything up to *)
(* messages.back() is deleted.                                             *)
AllButLast == Range(Front(messages))
UpToLast == {m \in Id : m <= Last(messages)}

ToDelete == Range(messages)

MarkConsumed ==
  /\ loop = "mark"
  /\ stored' = stored \ ToDelete
  /\ loop' = "while"
  /\ UNCHANGED <<consumerVars, produced, run, messages, pos, main, stream, events>>

(* markConsumed throws; the connection may have failed after the storage   *)
(* carried out the deletion, so its effect is in doubt.                    *)
MarkConsumedThrows ==
  /\ loop = "mark"
  /\ Happens("mark")
  /\ stored' \in {stored, stored \ ToDelete}
  /\ loop' = "sleep"
  /\ UNCHANGED <<consumerVars, produced, run, messages, pos, main, stream>>

(* Mutant: the exception leaves the loop.                                  *)
AfterPauseLeave == "exited"

AfterPause == "while"

Wake ==
  /\ loop = "sleep"
  /\ loop' = AfterPause
  /\ UNCHANGED <<consumerVars, stored, produced, run, messages, pos, main, stream, events>>

LeaveLoop ==
  /\ loop = "while" /\ ~run
  /\ loop' = "exited"
  /\ UNCHANGED <<consumerVars, stored, produced, run, messages, pos, main, stream, events>>

(***************************************************************************)
(* The detached threads.                                                   *)
(***************************************************************************)
SaverSteps(s) ==
  /\ SaverOpen(s) \/ SaverWrite(s) \/ SaverDone(s)
  /\ UNCHANGED <<stored, produced, loopVars, main, stream, events>>

SaverFails(s) ==
  /\ Happens("disk")
  /\ SaverOpenFails(s) \/ SaverWriteFails(s)
  /\ UNCHANGED <<stored, produced, loopVars, main, stream>>

(***************************************************************************)
(* main(): waitSignal() returns, run = false, join, then the destructor of *)
(* the consumer saves the rest of buffer_ in the main thread (the last     *)
(* element of savers while main = "save"), and the process ends with every *)
(* detached thread that is still at work.                                  *)
(***************************************************************************)
(* Mutant: run is not reset.                                               *)
KeepRunning == UNCHANGED run

StopRunning == run' = FALSE

Signal ==
  /\ main = "wait"
  /\ Happens("signal")
  /\ StopRunning
  /\ main' = "join"
  /\ UNCHANGED <<consumerVars, stored, produced, loop, messages, pos, stream>>

Join ==
  /\ main = "join" /\ loop = "exited"
  /\ main' = "save"
  /\ savers' = Append(savers, IF buffer = <<>>
                                THEN [NewSaver(<<>>) EXCEPT !.pc = "done"]
                                ELSE NewSaver(buffer))
  /\ buffer' = <<>>
  /\ UNCHANGED <<files, stored, produced, loopVars, stream, events>>

LoseMemory ==
  /\ buffer' = <<>> /\ savers' = <<>> /\ messages' = <<>> /\ pos' = 1
  /\ loop' = "exited" /\ run' = FALSE
  /\ main' = "down"

Exit ==
  /\ main = "save" /\ Last(savers).pc = "done"
  /\ LoseMemory
  /\ UNCHANGED <<files, stored, produced, stream, events>>

(* The process is killed, or a second signal reaches an unmasked thread.   *)
Crash ==
  /\ Up
  /\ Happens("crash")
  /\ LoseMemory
  /\ UNCHANGED <<files, stored, produced, stream>>

Start ==
  /\ ~Up
  /\ main' = "wait" /\ run' = TRUE /\ loop' = "while"
  /\ stream' = <<>>
  /\ UNCHANGED <<consumerVars, stored, produced, messages, pos, events>>

Init ==
  /\ ConsumerInit
  /\ stored = {} /\ produced = {}
  /\ run = TRUE /\ loop = "while" /\ messages = <<>> /\ pos = 1
  /\ main = "wait"
  /\ stream = <<>>
  /\ events = [e \in Event |-> 0]

RunLoop ==
  \/ GetNext \/ GetNextThrows
  \/ Consume \/ ConsumeThrows
  \/ MarkConsumed \/ MarkConsumedThrows
  \/ Wake \/ LeaveLoop

Main == Join \/ Exit
Savers == \E s \in DOMAIN savers : SaverSteps(s) \/ SaverFails(s)

Next ==
  \/ \E m \in Id : Produce(m)
  \/ RunLoop
  \/ Savers
  \/ Main \/ Signal \/ Crash \/ Start

Spec == Init /\ [][Next]_vars

(* The operating system schedules every thread; nobody promises a signal, a
   crash, a new message or a restart.                                      *)
Fairness == WF_vars(RunLoop) /\ WF_vars(Main) /\ WF_vars(Savers)

FairSpec == Spec /\ Fairness
-----------------------------------------------------------------------------
(***************************************************************************)
(* Properties                                                              *)
(***************************************************************************)

(* Every variable has its type; a chunk being consumed is never exhausted  *)
(* before the loop moves on to markConsumed, and only a process that has   *)
(* ended has no messages in memory.                                        *)
TypeOK ==
  /\ ConsumerTypeOK
  /\ produced \subseteq Id /\ stored \subseteq produced
  /\ run \in BOOLEAN /\ loop \in LoopPc /\ main \in MainPc
  /\ messages \in Seq(Id)
  /\ pos \in Nat \ {0}
  /\ loop = "consume" => pos \in DOMAIN messages
  /\ stream \in Seq(Id)
  /\ events \in [Event -> Nat]

Reachable == stored \cup Range(buffer) \cup InSavers \cup InFiles

(* README.md: "asynchronous gateway with persistent state".  Every message *)
(* gwfront got into the storage is in the storage, in the memory of a      *)
(* running gwback, or readable in a file of the output folder.             *)
PersistentState == produced \subseteq Reachable

(* The messages of the batches that this process could not write in full.  *)
Unwritten ==
  UNION {Range(savers[s].batch) :
           s \in {t \in DOMAIN savers : savers[t].pc = "done" /\ savers[t].n < Len(savers[t].batch)}}

EqualLengths == \A a, b \in Id : Length[a] = Length[b]

(* Nothing but a failed thread creation, the end of the process or a kill  *)
(* loses a message other than those of a batch whose file could not be     *)
(* written, however its savers interleave: over either storage as long as  *)
(* no deletion fails, whatever the lengths of the messages; and over a     *)
(* Redis stream of messages of one length also through the redelivery that *)
(* follows a failed XDEL and the truncation of a file two batches share.   *)
NothingLost ==
  /\ \A e \in {"spawn", "crash", "signal"} : Never(e)
  /\ Never("mark") \/ (Ordered /\ EqualLengths)
  => produced \subseteq Reachable \cup Unwritten

(* As long as no deletion and no flush fails, a process hands the messages *)
(* of a Redis stream to its consumer once each and in stream order,        *)
(* however getNext fails and gwfront's writes interleave with it.          *)
InOrder ==
  Never("mark") /\ Never("spawn") =>
    \A i, j \in DOMAIN stream : i < j => stream[i] < stream[j]

(* The same for a table whose ids are committed in any order: no message   *)
(* is handed over twice, although a chunk may start below the last one.    *)
NoRedelivery == Never("mark") /\ Never("spawn") => IsInjective(stream)

(* saveMessages names a file after the smallest and, meant to be, largest  *)
(* id in it.  maxId really is the last id of the batch; without            *)
(* redelivery from an ordered storage the range in the name still covers   *)
(* everything in the file.                                                 *)
NamesCoverContents ==
  Never("mark") /\ Never("spawn") =>
    \A name \in DOMAIN files : \A m \in Contents(name) :
      name[1] <= m /\ m <= name[2]

(* The chunk in hand stays stored until it is marked consumed, and then    *)
(* all of it has been moved into the consumer: what markConsumed deletes,  *)
(* whether it then throws or not, is never more than what was handed over. *)
ChunkInHand ==
  /\ loop = "consume" =>
       /\ Range(messages) \subseteq stored
       /\ \A i \in 1 .. pos - 1 : messages[i] \in Range(stream)
  /\ loop = "mark" => Range(messages) \subseteq Range(stream)

(* A message leaves the storage only after this very process has moved it  *)
(* into its consumer: gwback implements at-least-once delivery.            *)
AtLeastOnce == INSTANCE AtLeastOnce WITH
  pending <- stored, accepted <- produced, taken <- Range(stream)
AtLeastOnceSpec == AtLeastOnce!Spec

(* A running process takes every stored message out of the storage, unless *)
(* it is told to stop or dies.                                             *)
Drained == \A m \in Id : m \in stored ~> m \notin stored \/ main # "wait"

(* A batch handed to a detached thread reaches its file, whatever the run  *)
(* loop and the other threads do meanwhile, unless the process ends first. *)
EventuallySaved ==
  \A m \in Id : m \in InSavers ~> m \in InFiles \/ main = "down"

(* Nothing flushes a buffer that is not full, but that is all that a quiet *)
(* period leaves in memory: of a stream that nobody adds to, fewer than    *)
(* ConsumerChunk messages stay out of the files, unless a stop comes.      *)
QuietTail == <>(main # "wait") \/ <>[](Cardinality(produced \ InFiles) < ConsumerChunk)

(* waitSignal() returning leads to the end of the process, whatever the    *)
(* run loop is doing: it is never stuck behind its own pause or a batch.   *)
StopTerminates == main = "join" ~> main = "down"

=============================================================================
