------------------------------ MODULE Gateway ------------------------------
(***************************************************************************)
(* Both halves of the gateway with the clients in front of them: gwfront   *)
(* as in HttpServer, stopped or killed at any time and started again; the  *)
(* storage; and gwback as what it promises, AtLeastOnce.  Every client has *)
(* one message, and sends it until it is told that it is stored or bad, or *)
(* has used up its attempts.                                               *)
(***************************************************************************)
EXTENDS Naturals, FiniteSets

CONSTANTS
  Worker, Client, Promise,  \* as in HttpServer
  RequestOf,                \* the request that carries each client's message
  MaxAttempts,              \* how often a client sends its message
  MaxFaults                 \* how many faults happen

ASSUME WorkerAssumption == IsFiniteSet(Worker) /\ Worker # {}
ASSUME ClientAssumption == Client \cap {"new", "poll", "check", "rearm", "left"} = {}
ASSUME PromiseAssumption ==
  /\ Promise \subseteq [error : {"OK", "GENERIC", "STORAGE_UNAVAILABLE"}, copies : Nat]
  /\ \A p \in Promise : p.error = "OK" => p.copies > 0
ASSUME RequestOfAssumption ==
  RequestOf \in [Client -> [post : BOOLEAN, path : BOOLEAN, valid : BOOLEAN, keepAlive : BOOLEAN]]
ASSUME BoundsAssumption == MaxAttempts \in Nat /\ MaxFaults \in Nat

VARIABLES
  mainPc, stopping, open, acceptOp, ioStopped, woken, task, session, acceptFailed,  \* gwfront
  pending, accepted, taken,  \* the storage, and gwback
  attempts,                  \* how often each client has sent its message
  answer,                    \* the status each client has read last, or 0
  delivered,                 \* history: all that any gwback has taken
  faults                     \* how many faults have happened

Request == {RequestOf[c] : c \in Client}
front == <<mainPc, stopping, open, acceptOp, ioStopped, woken, task, session, acceptFailed>>
back == <<pending, accepted, taken, delivered>>
clients == <<attempts, answer>>
vars == <<front, back, clients, faults>>

(* A copy of a message in the storage: whose message, and which copy.      *)
Id == Client \X (1 .. MaxAttempts * 2)

Front == INSTANCE HttpServer
Back == INSTANCE AtLeastOnce

Init ==
  /\ Front!Init /\ Back!Init
  /\ attempts = [c \in Client |-> 0]
  /\ answer = [c \in Client |-> 0]
  /\ delivered = {}
  /\ faults = 0

Fault(n) == faults + n <= MaxFaults /\ faults' = faults + n
Copies(c) == {id \in accepted : id[1] = c}

(* The client has its answer, or has sent its message for the last time.   *)
Settled(c) == answer[c] \in {202, 400, 405} \/ attempts[c] = MaxAttempts

(***************************************************************************)
(* gwfront and the clients                                                 *)
(***************************************************************************)
(* Steps that neither read a request nor store or answer a message.        *)
Quiet ==
  \/ Front!Listen \/ Front!Accept \/ Front!RunWorkers
  \/ Front!CloseAcceptor \/ Front!StopContext \/ Front!JoinWorkers
  \/ \E c \in Client :
       \/ ~Settled(c) /\ Front!Connect(c)
       \/ Settled(c) /\ Front!Leave(c)
       \/ Front!AcceptCompletes(c) \/ Front!WriteFails(c)
       \/ (session[c].late \/ session[c].gone) /\ Front!ReadFails(c)
       \/ Settled(c) /\ Front!Expire(c)
  \/ \E w \in Worker :
       \/ Front!OnAccept(w) \/ Front!OnAcceptThrows(w) \/ Front!OnAcceptError(w)
       \/ Front!CheckStopping(w) \/ Front!Rearm(w) \/ Front!LeaveRun(w)
       \/ \E c \in Client : Front!HandlesSession(w, c)

(* What goes wrong in front: no port, no thread, a client that leaves or   *)
(* sends rubbish, a slow one, a failing accept, a stop.                    *)
Mishap ==
  \/ Front!ListenFails \/ Front!RunWorkersFails \/ Front!AcceptFails \/ Front!Signal
  \/ \E c \in Client : ~Settled(c) /\ (Front!Leave(c) \/ Front!Expire(c) \/ Front!ReadFails(c))

FrontStep == Quiet /\ UNCHANGED <<back, clients, faults>>
FrontMishap == Mishap /\ Fault(1) /\ UNCHANGED <<back, clients>>

(* A process that has stopped serving: an accept failed, or its only       *)
(* worker missed the stop.                                                 *)
Useless == acceptFailed \/ (ioStopped /\ ~woken)

(* The process is killed; one that is of no use may be at any time.        *)
Kill ==
  /\ Front!Running
  /\ Fault(IF Useless THEN 0 ELSE 1)
  /\ mainPc' = "terminated"
  /\ UNCHANGED <<stopping, open, acceptOp, ioStopped, woken, task, session, acceptFailed, back, clients>>

(* It is started again; every connection has been closed meanwhile.        *)
Restart ==
  /\ ~Front!Running
  /\ mainPc' = "listen"
  /\ stopping' = FALSE /\ open' = FALSE /\ acceptOp' = "none"
  /\ ioStopped' = FALSE /\ woken' = FALSE
  /\ task' = [w \in Worker |-> "new"]
  /\ session' = [c \in Client |-> Front!NoSession]
  /\ acceptFailed' = FALSE
  /\ UNCHANGED <<back, clients, faults>>

Send(c) ==
  /\ ~Settled(c)
  /\ Front!ReadCompletes(c)
  /\ session'[c].request = RequestOf[c]
  /\ attempts' = [attempts EXCEPT ![c] = @ + 1]
  /\ UNCHANGED <<answer, back, faults>>

(* handleRequest; the storage holds the copies that the writer leaves.     *)
Handle(w, c) ==
  /\ Front!HandleRequest(w, c)
  /\ LET n == session'[c].copies
         new == {c} \X (Cardinality(Copies(c)) + 1 .. Cardinality(Copies(c)) + n) IN
     /\ pending' = pending \cup new
     /\ accepted' = accepted \cup new
     /\ Fault((IF session'[c].response.status \in {500, 503} THEN 1 ELSE 0) + (IF n > 1 THEN n - 1 ELSE 0))
  /\ UNCHANGED <<taken, delivered, clients>>

(* The response is written; a client that is still there reads it.         *)
Answer(c) ==
  /\ Front!WriteCompletes(c)
  /\ answer' = IF session[c].gone THEN answer ELSE [answer EXCEPT ![c] = session[c].response.status]
  /\ UNCHANGED <<attempts, back, faults>>

(***************************************************************************)
(* gwback                                                                  *)
(***************************************************************************)
Take(id) ==
  /\ Back!Take(id)
  /\ delivered' = delivered \cup {id}
  /\ UNCHANGED <<front, clients, faults>>

Acknowledge ==
  /\ taken \cap pending # {}
  /\ Back!Acknowledge(taken)
  /\ UNCHANGED <<front, clients, delivered, faults>>

NewReceiver ==
  /\ taken # {}
  /\ Back!NewReceiver
  /\ Fault(1)
  /\ UNCHANGED <<front, clients, delivered>>

BackStep == Acknowledge \/ \E id \in pending : Take(id)

(* Every message is settled and gwback has nothing left to fetch.          *)
Quiescent == (\A c \in Client : Settled(c)) /\ pending = {} /\ UNCHANGED vars

Next ==
  \/ FrontStep \/ FrontMishap \/ Kill \/ Restart
  \/ \E c \in Client : Send(c) \/ Answer(c) \/ \E w \in Worker : Handle(w, c)
  \/ BackStep \/ NewReceiver
  \/ Quiescent

Spec == Init /\ [][Next]_vars

(* Something happens as long as something can: the programs run, what ends *)
(* is started again, and the clients try again.                            *)
Progress ==
  \/ FrontStep \/ Restart \/ BackStep
  \/ \E c \in Client : Send(c) \/ Answer(c) \/ \E w \in Worker : Handle(w, c)
FairSpec == Spec /\ WF_vars(Progress)
-----------------------------------------------------------------------------
(* A message whose client was told 202 is in the storage or has been taken *)
(* by a gwback, whatever became of gwfront since: of the process killed by *)
(* another client's early departure (remote_endpoint() throws) as well.    *)
AnsweredKept ==
  \A c \in Client : answer[c] = 202 => Copies(c) # {} /\ Copies(c) \subseteq pending \cup delivered

Proper(c) == RequestOf[c].post /\ RequestOf[c].path /\ RequestOf[c].valid

(* Resending is safe up to duplicates, and each fault (a lost reply, an    *)
(* unwritten response, a kill) makes at most one: without any, a message   *)
(* is stored once, on a kept connection too.                               *)
OneDuplicatePerFault == \A c \in Client : Cardinality(Copies(c)) <= 1 + faults

(* A client that tries once more than there are faults gets its message to *)
(* a gwback, through kills, lost answers and a storage that fails, unless  *)
(* a gwfront that no longer accepts connections is left running for ever.  *)
EventuallyDelivered ==
  \A c \in Client : Proper(c) /\ MaxAttempts > MaxFaults =>
    <>(\E id \in delivered : id[1] = c) \/ <>[]Useless
=============================================================================
