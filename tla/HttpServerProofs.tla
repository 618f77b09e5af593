-------------------------- MODULE HttpServerProofs --------------------------
(***************************************************************************)
(* Proofs about HttpServer for any number of workers and clients, every    *)
(* set of requests and every promise of the writer.                        *)
(***************************************************************************)
EXTENDS HttpServer, FiniteSetTheorems, TLAPS

Task == {"new", "poll", "check", "rearm", "left"} \cup Client
Response == [status : {200, 202, 400, 405, 500, 503}, error : BOOLEAN, keepAlive : BOOLEAN]
Session == [phase : Phase, request : Request \cup {NoRequest}, response : Response,
            copies : Nat, late : BOOLEAN, gone : BOOLEAN]

(* TypeOK without the count of handlers.                                   *)
Types ==
  /\ mainPc \in MainPc
  /\ stopping \in BOOLEAN /\ open \in BOOLEAN /\ acceptFailed \in BOOLEAN
  /\ acceptOp \in {"none", "pending", "completed", "failed"}
  /\ ioStopped \in BOOLEAN /\ woken \in BOOLEAN
  /\ task \in [Worker -> Task]
  /\ session \in [Client -> Session]

(* The count of handlers without Cardinality.                              *)
OneHandler ==
  Running => \A c \in Client :
    /\ session[c].phase = "handling" => \E w \in Worker : \A v \in Worker : task[v] = c <=> v = w
    /\ session[c].phase # "handling" => \A w \in Worker : task[w] # c

(* Before the workers run, they have not started.                          *)
NotStarted == mainPc \in {"listen", "accept", "runWorkers"} => \A w \in Worker : task[w] = "new"

(* The accept chain without Cardinality: an accept is outstanding, or one  *)
(* worker is on its way to the next.                                       *)
OneAccept ==
  /\ \/ acceptOp # "none" /\ \A w \in Worker : task[w] \notin {"check", "rearm"}
     \/ acceptOp = "none" /\ \E w \in Worker : \A v \in Worker : task[v] \in {"check", "rearm"} <=> v = w
  /\ \A w \in Worker : task[w] # "left"

(* What start() builds up step by step, and what holds until stop().       *)
Chain ==
  /\ NotStarted
  /\ mainPc \in {"listen", "accept"} => acceptOp = "none"
  /\ mainPc = "runWorkers" => acceptOp # "none"
  /\ mainPc \in {"accept", "runWorkers", "serving"} => open
  /\ mainPc \in {"listen", "accept", "runWorkers", "serving"} =>
       ~stopping /\ (~acceptFailed => ~ioStopped /\ acceptOp # "failed")
  /\ mainPc = "serving" /\ ~acceptFailed => OneAccept

(* What a step does to one session: nothing; it leads to a phase in which  *)
(* no response is held; it is on its way out with the same response; or it *)
(* is the subject of onRead or handleRequest.                              *)
Moves(d) ==
  \/ session'[d] = session[d]
  \/ /\ session'[d].phase \notin {"handling", "writing", "written"}
     /\ session[d].phase = "handling" => ~Running'
  \/ /\ session'[d].phase = session[d].phase \/ (session[d].phase = "writing" /\ session'[d].phase = "written")
     /\ session'[d].request = session[d].request
     /\ session'[d].response = session[d].response
     /\ session'[d].copies = session[d].copies
  \/ \E w \in Worker : OnRead(w, d) \/ HandleRequest(w, d)

(* The changes the network, the clock and read() make to a session keep    *)
(* its type.                                                               *)
LEMMA SessionUpdates ==
  ASSUME NEW x \in Session
  PROVE  /\ \A p \in Phase : [x EXCEPT !.phase = p] \in Session
         /\ [x EXCEPT !.late = TRUE] \in Session
         /\ [x EXCEPT !.gone = TRUE] \in Session
         /\ \A r \in Request : [x EXCEPT !.phase = "read", !.request = r] \in Session
         /\ [x EXCEPT !.phase = "reading", !.request = NoRequest, !.copies = 0, !.late = FALSE] \in Session
BY DEF Session, Phase

(* A connection that is not there has the type of a session.               *)
LEMMA NoSessionType == NoSession \in Session
<1>1. Blank \in Response
  BY DEF Blank, Response
<1> QED
  BY <1>1 DEF NoSession, Session, Phase

(* Whatever a request is, its answer has a status the server knows, 202    *)
(* only for a stored message, and 400 and 405 only for one that is not:    *)
(* the writer is called only for a valid POST to the right path, and no    *)
(* result of it is answered with 4xx.                                      *)
LEMMA AnswerType ==
  ASSUME NEW r \in Request \cup {NoRequest}, NEW a \in Answers(r)
  PROVE  /\ a.status \in {202, 400, 405, 500, 503} /\ a.copies \in Nat
         /\ a.status = 202 => a.copies > 0
         /\ a.status \in {400, 405} => a.copies = 0
<1>1. CASE ~r.post
  BY <1>1 DEF Answers
<1>2. CASE r.post /\ ~r.path
  BY <1>2 DEF Answers
<1>3. CASE r.post /\ r.path
  <2>1. PICK p \in Handler(r.valid) : a = [status |-> Status(p.error), copies |-> p.copies]
    BY <1>3 DEF Answers
  <2>2. CASE r.valid
    <3>1. p \in Promise
      BY <2>2 DEF Handler
    <3>2. p.error \in {"OK", "GENERIC", "STORAGE_UNAVAILABLE"} /\ p.copies \in Nat /\ (p.error = "OK" => p.copies > 0)
      BY <3>1, PromiseAssumption
    <3> QED
      BY <2>1, <3>2 DEF Status
  <2>3. CASE ~r.valid
    <3>1. p = [error |-> "BAD_DATA", copies |-> 0]
      BY <2>3 DEF Handler
    <3> QED
      BY <2>1, <3>1 DEF Status
  <2> QED
    BY <2>2, <2>3
<1> QED
  BY <1>1, <1>2, <1>3

(* handleRequest writes three fields of one session: the response, which   *)
(* is built anew, the phase, and the number of copies the writer stored.   *)
LEMMA HandledSession ==
  ASSUME Types, NEW w \in Worker, NEW c \in Client, HandleRequest(w, c)
  PROVE  \E a \in Answers(session[c].request), x \in Session :
           /\ session' = [session EXCEPT ![c] = x]
           /\ x.phase = "writing" /\ x.copies = a.copies
           /\ x.request = session[c].request
           /\ x.late = session[c].late /\ x.gone = session[c].gone
           /\ x.response.status = a.status
           /\ x.response.error <=> a.status # 202
           /\ x.response.keepAlive <=> session[c].request.keepAlive
<1>1. session[c] \in Session /\ session[c].request \in Request \cup {NoRequest}
  BY DEF Types, Session
<1>2. PICK a \in Answers(session[c].request) :
        session' = [session EXCEPT
          ![c].phase = "writing",
          ![c].copies = a.copies,
          ![c].response = [status |-> a.status,
                           error |-> NewResponse(c).error \/ a.status # 202,
                           keepAlive |-> session[c].request.keepAlive]]
  BY DEF HandleRequest
<1> DEFINE e == NewResponse(c).error \/ a.status # 202
<1> DEFINE k == session[c].request.keepAlive
<1> DEFINE r == [status |-> a.status, error |-> e, keepAlive |-> k]
<1> DEFINE x == [session[c] EXCEPT !.phase = "writing", !.copies = a.copies, !.response = r]
<1>3. session' = [session EXCEPT ![c] = x]
  BY <1>2 DEF Types
<1>4. a.status \in {202, 400, 405, 500, 503} /\ a.copies \in Nat
  BY <1>1, AnswerType
<1>5. k \in BOOLEAN
  <2>1. CASE session[c].request \in Request
    BY <2>1, RequestAssumption
  <2>2. CASE session[c].request = NoRequest
    <3>1. NoRequest.keepAlive = FALSE
      BY Zenon DEF NoRequest
    <3> QED
      BY <2>2, <3>1, Zenon
  <2> QED
    BY <1>1, <2>1, <2>2
<1>6. e \in BOOLEAN /\ (e <=> a.status # 202)
  BY Zenon DEF NewResponse, Blank
<1>7. r \in Response
  <2> HIDE DEF e, k
  <2> QED
    BY <1>4, <1>5, <1>6, SMTT(30) DEF Response
<1>8. /\ x \in Session /\ x.phase = "writing" /\ x.copies = a.copies /\ x.request = session[c].request
      /\ x.response = r /\ x.late = session[c].late /\ x.gone = session[c].gone
  <2> HIDE DEF r
  <2>1. x \in Session
    <3>1. "writing" \in Phase
      BY DEF Phase
    <3> QED
      BY <1>1, <1>4, <1>7, <3>1, ZenonT(30) DEF Session
  <2>2. x.phase = "writing" /\ x.copies = a.copies /\ x.response = r
    BY <1>1 DEF Session
  <2>3. x.request = session[c].request /\ x.late = session[c].late /\ x.gone = session[c].gone
    BY <1>1 DEF Session
  <2> QED
    BY <2>1, <2>2, <2>3
<1>9. r.status = a.status /\ r.error = e /\ r.keepAlive = k
  <2> HIDE DEF e, k
  <2> QED
    BY Zenon
<1>10. /\ x.response.status = a.status /\ (x.response.error <=> a.status # 202)
       /\ x.response.keepAlive <=> session[c].request.keepAlive
  <2> HIDE DEF e, r, x
  <2> QED
    BY <1>6, <1>8, <1>9, Zenon
<1> HIDE DEF x, r, e, k
<1> QED
  BY <1>3, <1>8, <1>10, Zenon

(* The types hold before listen().                                         *)
LEMMA TypesInit == Init => Types
BY NoSessionType DEF Init, Types, MainPc, Task

(* No step of main, a worker, a client or the network takes a session out  *)
(* of its type.                                                            *)
LEMMA SessionsNext ==
  ASSUME Types, [Next]_vars
  PROVE  session' \in [Client -> Session]
<1>0. session \in [Client -> Session]
  BY DEF Types
<1>1. CASE Main
  BY <1>0, <1>1, NoSessionType
  DEF Main, Listen, ListenFails, Accept, RunWorkers, RunWorkersFails, CloseAcceptor, StopContext, JoinWorkers
<1>2. CASE Signal \/ Ended \/ AcceptFails \/ UNCHANGED vars
  BY <1>0, <1>2 DEF Signal, Ended, AcceptFails, vars
<1>3. ASSUME NEW c \in Client, Connect(c) \/ Leave(c) \/ Expire(c) \/ Network(c)
      PROVE  session' \in [Client -> Session]
  <2>1. session[c] \in Session
    BY <1>0
  <2>2. ASSUME NEW p \in Phase, Goto(c, p)
        PROVE  session' \in [Client -> Session]
    <3>1. session' = [session EXCEPT ![c] = [session[c] EXCEPT !.phase = p]]
      BY <1>0, <2>2 DEF Goto
    <3> QED
      BY <1>0, <2>1, <3>1, SessionUpdates
  <2>3. CASE Leave(c)
    <3>1. session' = [session EXCEPT ![c] = [session[c] EXCEPT !.gone = TRUE]]
      BY <1>0, <2>3 DEF Leave
    <3> QED
      BY <1>0, <2>1, <3>1, SessionUpdates
  <2>4. CASE Expire(c)
    <3>1. session' = [session EXCEPT ![c] = [session[c] EXCEPT !.late = TRUE]]
      BY <1>0, <2>4 DEF Expire
    <3> QED
      BY <1>0, <2>1, <3>1, SessionUpdates
  <2>5. CASE ReadCompletes(c)
    <3>1. PICK r \in Request :
            session' = [session EXCEPT ![c] = [session[c] EXCEPT !.phase = "read", !.request = r]]
      BY <1>0, <2>5 DEF ReadCompletes
    <3> QED
      BY <1>0, <2>1, <3>1, SessionUpdates
  <2>6. CASE Connect(c) \/ AcceptCompletes(c) \/ ReadFails(c) \/ WriteCompletes(c) \/ WriteFails(c)
    BY <2>2, <2>6 DEF Connect, AcceptCompletes, ReadFails, WriteCompletes, WriteFails, Phase
  <2> QED
    BY <1>3, <2>3, <2>4, <2>5, <2>6 DEF Network
<1>4. ASSUME NEW w \in Worker, HandlesAccept(w) \/ Busy(w) \/ LeaveRun(w)
      PROVE  session' \in [Client -> Session]
  <2>1. CASE OnAccept(w)
    <3>1. PICK c \in Client : session' = [session EXCEPT ![c] = Reading(c)]
      BY <2>1 DEF OnAccept, Phases
    <3>2. Reading(c) \in Session
      BY <1>0, SessionUpdates DEF Reading
    <3> QED
      BY <1>0, <3>1, <3>2
  <2>2. ASSUME NEW c \in Client, HandleRequest(w, c)
        PROVE  session' \in [Client -> Session]
    BY <1>0, <2>2, HandledSession
  <2>3. CASE OnAcceptThrows(w) \/ OnAcceptError(w) \/ CheckStopping(w) \/ Rearm(w) \/ LeaveRun(w)
    BY <1>0, <2>3 DEF OnAcceptThrows, OnAcceptError, CheckStopping, Rearm, LeaveRun
  <2> QED
    BY <1>4, <2>1, <2>2, <2>3 DEF HandlesAccept, Busy
<1>5. ASSUME NEW w \in Worker, NEW c \in Client, HandlesSession(w, c)
      PROVE  session' \in [Client -> Session]
  <2>1. CASE OnRead(w, c)
    <3>1. session' = [session EXCEPT ![c] = [session[c] EXCEPT !.phase = "handling"]]
      BY <1>0, <2>1 DEF OnRead, Goto
    <3> QED
      BY <1>0, <3>1, SessionUpdates DEF Phase
  <2>2. Reading(c) \in Session
    BY <1>0, SessionUpdates DEF Reading
  <2>3. CASE OnReadError(w, c) \/ OnWrite(w, c)
    BY <1>0, <2>2, <2>3, NoSessionType DEF OnReadError, OnWrite
  <2> QED
    BY <1>5, <2>1, <2>3 DEF HandlesSession
<1> QED
  BY <1>1, <1>2, <1>3, <1>4, <1>5 DEF Next

(* No step takes a variable of the server or a task out of its type.       *)
LEMMA ServerNext ==
  ASSUME Types, [Next]_vars
  PROVE  /\ mainPc' \in MainPc
         /\ stopping' \in BOOLEAN /\ open' \in BOOLEAN /\ acceptFailed' \in BOOLEAN
         /\ acceptOp' \in {"none", "pending", "completed", "failed"}
         /\ ioStopped' \in BOOLEAN /\ woken' \in BOOLEAN
         /\ task' \in [Worker -> Task]
<1> USE DEF Types
<1>1. CASE Main
  BY <1>1
  DEF Main, Listen, ListenFails, Accept, RunWorkers, RunWorkersFails, CloseAcceptor, StopContext, JoinWorkers,
      StartAfter, MainPc, Task, Seen
<1>2. CASE Signal \/ Ended \/ AcceptFails \/ UNCHANGED vars
  BY <1>2, ZenonT(30) DEF Signal, Ended, AcceptFails, vars, server, MainPc
<1>3. ASSUME NEW c \in Client, Connect(c) \/ Leave(c) \/ Expire(c) \/ Network(c)
      PROVE  (UNCHANGED server) \/ (acceptOp' = "completed" /\ UNCHANGED <<mainPc, stopping, open, ioStopped, woken, task, acceptFailed>>)
  BY <1>3 DEF Connect, Leave, Expire, Network, AcceptCompletes, ReadCompletes, ReadFails, WriteCompletes, WriteFails
<1>4. ASSUME NEW w \in Worker, HandlesAccept(w)
      PROVE  task' \in [Worker -> Task] /\ mainPc' \in MainPc /\ acceptOp' \in {"none", "completed"}
             /\ UNCHANGED <<stopping, open, ioStopped, woken, acceptFailed>>
  BY <1>4 DEF HandlesAccept, OnAccept, OnAcceptThrows, OnAcceptError, Do, Task, MainPc
<1>5. ASSUME NEW w \in Worker, Busy(w)
      PROVE  task' \in [Worker -> Task] /\ (UNCHANGED acceptOp \/ acceptOp' \in {"pending", "failed"})
             /\ UNCHANGED <<mainPc, stopping, open, ioStopped, woken, acceptFailed>>
  BY <1>5 DEF Busy, CheckStopping, Rearm, HandleRequest, Do, Task, Checked, ReturnsFromOnAccept
<1>6. ASSUME NEW w \in Worker, LeaveRun(w)
      PROVE  task' \in [Worker -> Task] /\ ioStopped' \in BOOLEAN /\ woken' \in BOOLEAN
             /\ UNCHANGED <<mainPc, stopping, open, acceptOp, acceptFailed>>
  BY <1>6 DEF LeaveRun, Do, Task
<1>7. ASSUME NEW w \in Worker, NEW c \in Client, HandlesSession(w, c)
      PROVE  task' \in [Worker -> Task] /\ UNCHANGED <<mainPc, stopping, open, acceptOp, ioStopped, woken, acceptFailed>>
  BY <1>7 DEF HandlesSession, OnRead, OnReadError, OnWrite, Do, Task, server
<1> QED
  BY <1>1, <1>2, <1>3, <1>4, <1>5, <1>6, <1>7 DEF Next, server

(* Types is inductive.                                                     *)
LEMMA TypesNext ==
  ASSUME Types, [Next]_vars
  PROVE  Types'
BY SessionsNext, ServerNext DEF Types

(* Every step moves every session in one of the ways of Moves.             *)
LEMMA SessionMoves ==
  ASSUME Types, [Next]_vars, NEW d \in Client
  PROVE  Moves(d)
<1>0. session \in [Client -> Session] /\ session[d] \in Session
  BY DEF Types
<1>1. CASE Main
  <2>1. CASE JoinWorkers
    BY <2>1 DEF JoinWorkers, Moves, NoSession, Running
  <2>2. CASE CloseAcceptor
    BY <2>2 DEF CloseAcceptor, Moves, NoSession
  <2> QED
    BY <1>1, <2>1, <2>2
    DEF Main, Listen, ListenFails, Accept, RunWorkers, RunWorkersFails, StopContext, Moves
<1>2. CASE Signal \/ Ended \/ AcceptFails \/ UNCHANGED vars
  BY <1>2 DEF Signal, Ended, AcceptFails, vars, Moves
<1>3. ASSUME NEW c \in Client, Connect(c) \/ Leave(c) \/ Expire(c) \/ Network(c)
      PROVE  Moves(d)
  <2>1. CASE c # d
    <3>1. session'[d] = session[d]
      BY <1>0, <1>3, <2>1
      DEF Connect, Leave, Expire, Network, AcceptCompletes, ReadCompletes, ReadFails, WriteCompletes, WriteFails, Goto
    <3> QED
      BY <3>1 DEF Moves
  <2>2. CASE c = d
    <3>1. CASE Leave(d) \/ Expire(d)
      BY <1>0, <3>1 DEF Leave, Expire, Moves, Session
    <3>2. CASE ReadCompletes(d)
      BY <1>0, <3>2 DEF ReadCompletes, Moves, Session
    <3>3. CASE Connect(d) \/ AcceptCompletes(d) \/ ReadFails(d) \/ WriteFails(d)
      BY <1>0, <3>3 DEF Connect, AcceptCompletes, ReadFails, WriteFails, Goto, Moves, Session
    <3>4. CASE WriteCompletes(d)
      BY <1>0, <3>4 DEF WriteCompletes, Goto, Moves, Session
    <3> QED
      BY <1>3, <2>2, <3>1, <3>2, <3>3, <3>4 DEF Network
  <2> QED
    BY <2>1, <2>2
<1>4. ASSUME NEW w \in Worker, HandlesAccept(w) \/ Busy(w) \/ LeaveRun(w)
      PROVE  Moves(d)
  <2>1. CASE OnAccept(w)
    <3>1. PICK c \in Phases({"accepted"}) : session' = [session EXCEPT ![c] = Reading(c)]
      BY <2>1 DEF OnAccept
    <3>2. Reading(c).phase = "reading" /\ session[c].phase = "accepted" /\ c \in Client
      BY <1>0, <3>1 DEF Reading, Phases, Session
    <3> QED
      BY <1>0, <3>1, <3>2 DEF Moves
  <2>2. ASSUME NEW c \in Client, HandleRequest(w, c)
        PROVE  Moves(d)
    <3>1. c # d => session'[d] = session[d]
      BY <1>0, <2>2, HandledSession
    <3> QED
      BY <2>2, <3>1 DEF Moves
  <2>3. CASE OnAcceptThrows(w) \/ OnAcceptError(w) \/ CheckStopping(w) \/ Rearm(w) \/ LeaveRun(w)
    BY <2>3 DEF OnAcceptThrows, OnAcceptError, CheckStopping, Rearm, LeaveRun, Moves
  <2> QED
    BY <1>4, <2>1, <2>2, <2>3 DEF HandlesAccept, Busy
<1>5. ASSUME NEW w \in Worker, NEW c \in Client, HandlesSession(w, c)
      PROVE  Moves(d)
  <2>1. CASE OnRead(w, c)
    <3>1. c # d => session'[d] = session[d]
      BY <1>0, <2>1 DEF OnRead, Goto
    <3> QED
      BY <2>1, <3>1 DEF Moves
  <2>2. Reading(c).phase = "reading" /\ NoSession.phase = "none"
    BY <1>0 DEF Reading, NoSession, Session
  <2>3. CASE OnReadError(w, c) \/ OnWrite(w, c)
    BY <1>0, <2>2, <2>3 DEF OnReadError, OnWrite, Moves
  <2> QED
    BY <1>5, <2>1, <2>3 DEF HandlesSession
<1> QED
  BY <1>1, <1>2, <1>3, <1>4, <1>5 DEF Next

(* A worker takes a client in onRead and lets go of it in handleRequest,   *)
(* and in no other step.                                                   *)
LEMMA TaskMoves ==
  ASSUME Types, NotStarted, [Next]_vars, NEW v \in Worker
  PROVE  \/ task'[v] = task[v]
         \/ task[v] \notin Client /\ task'[v] \notin Client
         \/ \E c \in Client : OnRead(v, c) \/ HandleRequest(v, c)
<1>0. task \in [Worker -> Task]
  BY DEF Types
<1>1. CASE Main
  BY <1>1, ClientAssumption
  DEF NotStarted, Main, Listen, ListenFails, Accept, RunWorkers, RunWorkersFails, CloseAcceptor, StopContext, JoinWorkers
<1>2. CASE Signal \/ Ended \/ AcceptFails \/ UNCHANGED vars
  BY <1>2 DEF Signal, Ended, AcceptFails, vars, server
<1>3. ASSUME NEW c \in Client, Connect(c) \/ Leave(c) \/ Expire(c) \/ Network(c)
      PROVE  task' = task
  BY <1>3 DEF Connect, Leave, Expire, Network, AcceptCompletes, ReadCompletes, ReadFails, WriteCompletes, WriteFails, server
<1>4. ASSUME NEW w \in Worker, HandlesAccept(w) \/ CheckStopping(w) \/ Rearm(w) \/ LeaveRun(w)
      PROVE  task'[v] = task[v] \/ (task[v] \notin Client /\ task'[v] \notin Client)
  BY <1>0, <1>4, ClientAssumption
  DEF HandlesAccept, OnAccept, OnAcceptThrows, OnAcceptError, CheckStopping, Rearm, LeaveRun, Do, Runs, Checked,
      ReturnsFromOnAccept
<1>5. ASSUME NEW w \in Worker, NEW c \in Client, HandleRequest(w, c) \/ OnRead(w, c)
      PROVE  v # w => task'[v] = task[v]
  BY <1>0, <1>5 DEF HandleRequest, OnRead, Do
<1>6. ASSUME NEW w \in Worker, NEW c \in Client, OnReadError(w, c) \/ OnWrite(w, c)
      PROVE  task' = task
  BY <1>6 DEF OnReadError, OnWrite, server
<1> QED
  BY <1>1, <1>2, <1>3, <1>4, <1>5, <1>6 DEF Next, Busy, HandlesSession

(* OneHandler is inductive: onRead takes a session out of "read", so that  *)
(* no second worker can take it, and handleRequest is run by the one       *)
(* worker that did.                                                        *)
LEMMA OneHandlerNext ==
  ASSUME Types, NotStarted, OneHandler, [Next]_vars
  PROVE  OneHandler'
<1> SUFFICES ASSUME Running', NEW d \in Client
             PROVE  /\ session'[d].phase = "handling" => \E w \in Worker : \A v \in Worker : task'[v] = d <=> v = w
                    /\ session'[d].phase # "handling" => \A w \in Worker : task'[w] # d
  BY DEF OneHandler
<1>0. Running /\ task \in [Worker -> Task] /\ session \in [Client -> Session]
  <2>1. Running
    BY DEF Running, Next, vars, server, Main, Listen, ListenFails, Accept, RunWorkers, RunWorkersFails, CloseAcceptor, StopContext,
           JoinWorkers, Signal, Ended, AcceptFails, Connect, Leave, Expire, Network, AcceptCompletes, ReadCompletes,
           ReadFails, WriteCompletes, WriteFails, HandlesAccept, OnAccept, OnAcceptThrows, OnAcceptError, Busy,
           CheckStopping, Rearm, HandleRequest, LeaveRun, HandlesSession, OnRead, OnReadError, OnWrite, Runs, Polling
  <2> QED
    BY <2>1 DEF Types
<1>1. ASSUME NEW w \in Worker, OnRead(w, d)
      PROVE  session'[d].phase = "handling" /\ \A v \in Worker : task'[v] = d <=> v = w
  <2>1. \A v \in Worker : task[v] # d
    BY <1>0, <1>1 DEF OneHandler, OnRead
  <2> QED
    BY <1>0, <1>1, <2>1 DEF OnRead, Do, Goto, Session
<1>2. ASSUME NEW w \in Worker, HandleRequest(w, d)
      PROVE  session'[d].phase = "writing" /\ \A v \in Worker : task'[v] # d
  <2>1. session[d].phase = "handling" /\ \A v \in Worker : task[v] = d <=> v = w
    BY <1>0, <1>2 DEF OneHandler, HandleRequest
  <2>2. session'[d].phase = "writing"
    BY <1>0, <1>2, HandledSession
  <2> QED
    BY <1>0, <1>2, <2>1, <2>2, ClientAssumption DEF HandleRequest, Do
<1>3. CASE ~\E w \in Worker : OnRead(w, d) \/ HandleRequest(w, d)
  <2>1. session'[d].phase = "handling" <=> session[d].phase = "handling"
    BY <1>3, SessionMoves DEF Moves
  <2>2. ASSUME NEW v \in Worker
        PROVE  task'[v] = d <=> task[v] = d
    <3>1. ASSUME NEW c \in Client, OnRead(v, c) \/ HandleRequest(v, c)
          PROVE  task'[v] # d /\ task[v] # d
      <4>1. c # d
        BY <1>3, <3>1
      <4>2. task[v] \in {"poll", c} /\ task'[v] \in {"poll", c}
        <5>1. CASE OnRead(v, c)
          BY <1>0, <5>1 DEF OnRead, Runs, Do
        <5>2. CASE HandleRequest(v, c)
          BY <1>0, <5>2 DEF HandleRequest, Do
        <5> QED
          BY <3>1, <5>1, <5>2
      <4> QED
        BY <4>1, <4>2, ClientAssumption
    <3> QED
      BY <3>1, TaskMoves
  <2> QED
    BY <1>0, <2>1, <2>2 DEF OneHandler
<1> QED
  BY <1>1, <1>2, <1>3

(* StatusTruthful is inductive: only handleRequest makes a response, and   *)
(* read() takes the session to another phase before the next request       *)
(* replaces the old one.                                                   *)
LEMMA StatusTruthfulNext ==
  ASSUME Types, StatusTruthful, [Next]_vars
  PROVE  StatusTruthful'
<1> DEFINE Truthful(x) ==
             /\ x.response.status = 202 => x.copies > 0
             /\ x.response.status \in {400, 405} => x.copies = 0
             /\ x.response.error <=> x.response.status # 202
             /\ x.response.keepAlive <=> x.request.keepAlive
<1> SUFFICES ASSUME NEW d \in Client, session'[d].phase \in {"writing", "written"}
             PROVE  Truthful(session'[d])
  BY DEF StatusTruthful, Phases
<1>1. session[d].phase \in {"writing", "written"} => Truthful(session[d])
  BY DEF StatusTruthful, Phases
<1>2. ASSUME NEW w \in Worker, HandleRequest(w, d)
      PROVE  Truthful(session'[d])
  <2>1. PICK a \in Answers(session[d].request), x \in Session :
           /\ session' = [session EXCEPT ![d] = x]
           /\ x.phase = "writing" /\ x.copies = a.copies
           /\ x.request = session[d].request
           /\ x.response.status = a.status
           /\ x.response.error <=> a.status # 202
           /\ x.response.keepAlive <=> session[d].request.keepAlive
    BY <1>2, HandledSession
  <2>2. session'[d] = x
    BY <2>1 DEF Types
  <2>3. session[d].request \in Request \cup {NoRequest}
    BY DEF Types, Session
  <2>4. (a.status = 202 => a.copies > 0) /\ (a.status \in {400, 405} => a.copies = 0)
    BY <2>1, <2>3, AnswerType
  <2>5. Truthful(x)
    BY <2>1, <2>4, SMTT(30)
  <2> HIDE DEF Truthful
  <2> QED
    BY <2>2, <2>5
<1>3. ASSUME NEW w \in Worker, OnRead(w, d)
      PROVE  FALSE
  BY <1>3 DEF OnRead, Goto, Types, Session
<1>4. CASE session'[d] = session[d]
  BY <1>1, <1>4
<1>5. CASE /\ session'[d].phase = session[d].phase \/ (session[d].phase = "writing" /\ session'[d].phase = "written")
           /\ session'[d].request = session[d].request
           /\ session'[d].response = session[d].response
           /\ session'[d].copies = session[d].copies
  BY <1>1, <1>5, SMTT(30)
<1> QED
  BY <1>2, <1>3, <1>4, <1>5, SessionMoves DEF Moves

(* Before listen() no accept is outstanding and no worker runs.            *)
LEMMA ChainInit == Init => Chain
BY DEF Init, Chain, NotStarted

(* Chain is inductive.  The step that could break it is LeaveRun of a      *)
(* worker that finds nothing to do: with ~acceptFailed either an accept is *)
(* outstanding or another worker is inside onAccept.                       *)
LEMMA ChainNext ==
  ASSUME Types, Chain, [Next]_vars
  PROVE  Chain'
<1>0. task \in [Worker -> Task]
  BY DEF Types
<1>1. CASE Main
  <2>1. CASE Listen \/ ListenFails \/ Accept \/ RunWorkersFails
    BY <2>1 DEF Chain, NotStarted, Listen, ListenFails, Accept, RunWorkersFails, StartAfter
  <2>2. CASE RunWorkers
    BY <2>2 DEF Chain, NotStarted, OneAccept, RunWorkers, StartAfter
  <2>3. CASE CloseAcceptor \/ StopContext \/ JoinWorkers
    BY <2>3 DEF Chain, NotStarted, CloseAcceptor, StopContext, JoinWorkers
  <2> QED
    BY <1>1, <2>1, <2>2, <2>3 DEF Main
<1>2. CASE Signal \/ AcceptFails
  BY <1>2 DEF Chain, NotStarted, Signal, AcceptFails
<1>3. CASE UNCHANGED server
  BY <1>3 DEF Chain, NotStarted, OneAccept, server
<1>4. ASSUME NEW c \in Client, AcceptCompletes(c)
      PROVE  Chain'
  BY <1>4 DEF Chain, NotStarted, OneAccept, AcceptCompletes
<1>5. ASSUME NEW w \in Worker, OnAccept(w)
      PROVE  Chain'
  <2>1. acceptOp = "completed" /\ acceptOp' = "none" /\ task[w] = "poll" /\ task' = [task EXCEPT ![w] = "check"]
        /\ UNCHANGED <<mainPc, stopping, open, ioStopped, woken, acceptFailed>>
    BY <1>5 DEF OnAccept, Runs, Do
  <2>2. mainPc \notin {"listen", "accept", "runWorkers"}
    BY <2>1 DEF Chain, NotStarted
  <2>3. ASSUME OneAccept
        PROVE  OneAccept'
    <3>1. \A v \in Worker : task'[v] \in {"check", "rearm"} <=> v = w
      BY <1>0, <2>1, <2>3 DEF OneAccept
    <3>2. \A v \in Worker : task'[v] # "left"
      BY <1>0, <2>1, <2>3 DEF OneAccept
    <3> QED
      BY <2>1, <3>1, <3>2 DEF OneAccept
  <2> QED
    BY <2>1, <2>2, <2>3 DEF Chain, NotStarted
<1>6. ASSUME NEW w \in Worker, OnAcceptThrows(w)
      PROVE  Chain'
  BY <1>6 DEF Chain, NotStarted, OnAcceptThrows
<1>7. ASSUME NEW w \in Worker, OnAcceptError(w)
      PROVE  Chain'
  BY <1>7 DEF Chain, NotStarted, OnAcceptError, Runs
<1>8. ASSUME NEW w \in Worker, CheckStopping(w)
      PROVE  Chain'
  <2>1. task[w] = "check" /\ task' = [task EXCEPT ![w] = Checked]
        /\ UNCHANGED <<mainPc, stopping, open, acceptOp, ioStopped, woken, acceptFailed>>
    BY <1>8 DEF CheckStopping, Do
  <2>2. mainPc \notin {"listen", "accept", "runWorkers"}
    BY <2>1 DEF Chain, NotStarted
  <2>3. ASSUME OneAccept, ~stopping
        PROVE  OneAccept'
    <3>1. task' = [task EXCEPT ![w] = "rearm"]
      BY <2>1, <2>3 DEF Checked
    <3>2. \A v \in Worker : (task'[v] \in {"check", "rearm"} <=> task[v] \in {"check", "rearm"}) /\ (task'[v] # "left" <=> task[v] # "left")
      BY <1>0, <2>1, <3>1
    <3> QED
      BY <2>1, <2>3, <3>2 DEF OneAccept
  <2> QED
    BY <2>1, <2>2, <2>3 DEF Chain, NotStarted
<1>9. ASSUME NEW w \in Worker, Rearm(w)
      PROVE  Chain'
  <2>1. task[w] = "rearm" /\ task' = [task EXCEPT ![w] = "poll"] /\ acceptOp' # "none" /\ (open => acceptOp' = "pending")
        /\ UNCHANGED <<mainPc, stopping, open, ioStopped, woken, acceptFailed>>
    BY <1>9 DEF Rearm, Do, ReturnsFromOnAccept
  <2>2. mainPc \notin {"listen", "accept", "runWorkers"}
    BY <2>1 DEF Chain, NotStarted
  <2>3. ASSUME OneAccept
        PROVE  OneAccept'
    <3>1. \A v \in Worker : task[v] \in {"check", "rearm"} <=> v = w
      BY <2>1, <2>3 DEF OneAccept
    <3>2. \A v \in Worker : task'[v] \notin {"check", "rearm"} /\ task'[v] # "left"
      BY <1>0, <2>1, <2>3, <3>1 DEF OneAccept
    <3> QED
      BY <2>1, <3>2 DEF OneAccept
  <2> QED
    BY <2>1, <2>2, <2>3 DEF Chain, NotStarted
<1>10. ASSUME NEW w \in Worker, NEW c \in Client, OnRead(w, c) \/ HandleRequest(w, c)
       PROVE  Chain'
  <2>1. UNCHANGED <<mainPc, stopping, open, acceptOp, ioStopped, woken, acceptFailed>>
    BY <1>10 DEF OnRead, HandleRequest
  <2>2. task[w] \in {"poll", c} /\ task' \in {[task EXCEPT ![w] = "poll"], [task EXCEPT ![w] = c]}
    BY <1>10 DEF OnRead, HandleRequest, Runs, Do
  <2>3. mainPc \notin {"listen", "accept", "runWorkers"}
    BY <2>2, ClientAssumption DEF Chain, NotStarted
  <2>4. ASSUME OneAccept
        PROVE  OneAccept'
    <3>1. \A v \in Worker : (task'[v] \in {"check", "rearm"} <=> task[v] \in {"check", "rearm"}) /\ (task'[v] # "left" <=> task[v] # "left")
      BY <1>0, <2>2, ClientAssumption
    <3> QED
      BY <2>1, <2>4, <3>1 DEF OneAccept
  <2> QED
    BY <2>1, <2>3, <2>4 DEF Chain, NotStarted
<1>11. ASSUME NEW w \in Worker, LeaveRun(w)
       PROVE  Chain'
  <2>1. task[w] = "poll" /\ UNCHANGED <<mainPc, stopping, open, acceptOp, acceptFailed>>
    BY <1>11 DEF LeaveRun
  <2>2. mainPc \notin {"listen", "accept", "runWorkers"}
    BY <2>1 DEF Chain, NotStarted
  <2>3. ASSUME mainPc = "serving", ~acceptFailed
        PROVE  FALSE
    <3>1. ~ioStopped /\ OneAccept
      BY <2>3 DEF Chain
    <3>2. acceptOp = "none" /\ \A v \in Worker : task[v] \in {"poll", "left"}
      BY <1>11, <3>1 DEF LeaveRun, OutOfWork
    <3> QED
      BY <3>1, <3>2 DEF OneAccept
  <2> QED
    BY <2>1, <2>2, <2>3 DEF Chain, NotStarted
<1>12. CASE Ended \/ UNCHANGED vars
  BY <1>3, <1>12 DEF Ended, vars
<1>13. ASSUME NEW c \in Client, Connect(c) \/ Leave(c) \/ Expire(c) \/ Network(c)
       PROVE  Chain'
  BY <1>3, <1>4, <1>13 DEF Connect, Leave, Expire, Network, ReadCompletes, ReadFails, WriteCompletes, WriteFails
<1>14. ASSUME NEW w \in Worker, HandlesAccept(w) \/ Busy(w) \/ LeaveRun(w)
       PROVE  Chain'
  BY <1>5, <1>6, <1>7, <1>8, <1>9, <1>10, <1>11, <1>14 DEF HandlesAccept, Busy
<1>15. ASSUME NEW w \in Worker, NEW c \in Client, HandlesSession(w, c)
       PROVE  Chain'
  BY <1>3, <1>10, <1>15 DEF HandlesSession, OnReadError, OnWrite
<1> QED
  BY <1>1, <1>2, <1>12, <1>13, <1>14, <1>15 DEF Next

(* The inductive invariant.                                                *)
Inv == Types /\ OneHandler /\ Chain /\ StatusTruthful

(* The invariant holds before listen().                                    *)
LEMMA InvInit == Init => Inv
<1>1. ASSUME Init
      PROVE  OneHandler /\ StatusTruthful
  BY <1>1, ClientAssumption DEF Init, OneHandler, StatusTruthful, Phases, NoSession
<1> QED
  BY <1>1, TypesInit, ChainInit DEF Inv

(* Every step keeps it.                                                    *)
LEMMA InvNext ==
  ASSUME Inv, [Next]_vars
  PROVE  Inv'
BY TypesNext, OneHandlerNext, ChainNext, StatusTruthfulNext DEF Inv, Chain

(* The inductive invariant holds in every reachable state.                 *)
THEOREM InvHolds == Spec => []Inv
BY InvInit, InvNext, PTL DEF Spec

(* Every variable has its type, and while the program runs a request in    *)
(* hand is handled by exactly one worker, for any number of workers.       *)
THEOREM TypeCorrect == Spec => []TypeOK
<1>1. Inv => TypeOK
  <2> SUFFICES ASSUME Inv
               PROVE  TypeOK
    OBVIOUS
  <2>1. ASSUME Running, NEW c \in Client
        PROVE  Cardinality({w \in Worker : task[w] = c}) = IF session[c].phase = "handling" THEN 1 ELSE 0
    <3>1. CASE session[c].phase = "handling"
      <4>1. PICK w \in Worker : \A v \in Worker : task[v] = c <=> v = w
        BY <2>1, <3>1 DEF Inv, OneHandler
      <4>2. {v \in Worker : task[v] = c} = {w}
        BY <4>1
      <4> QED
        BY <3>1, <4>2, FS_Singleton
    <3>2. CASE session[c].phase # "handling"
      <4>1. {v \in Worker : task[v] = c} = {}
        BY <2>1, <3>2 DEF Inv, OneHandler
      <4> QED
        BY <3>2, <4>1, FS_EmptySet
    <3> QED
      BY <3>1, <3>2
  <2> QED
    BY <2>1 DEF Inv, Types, TypeOK, Task, Session, Response
<1> QED
  BY <1>1, InvHolds, PTL

(* What HttpSession::handleRequest tells a client is true of the storage,  *)
(* whatever the handler returns and however sessions, timeouts and workers *)
(* interleave.                                                             *)
THEOREM StatusTruthfulAlways == Spec => []StatusTruthful
<1>1. Inv => StatusTruthful
  BY DEF Inv
<1> QED
  BY <1>1, InvHolds, PTL

(* Until stop() or a failed accept, exactly one accept is outstanding or   *)
(* being handled by onAccept, and no worker has left the io_context.       *)
THEOREM AcceptChainAlways == Spec => []AcceptChain
<1>1. Inv => AcceptChain
  <2> SUFFICES ASSUME Inv, mainPc = "serving", ~acceptFailed
               PROVE  /\ Cardinality({w \in Worker : task[w] \in {"check", "rearm"}})
                           + (IF acceptOp = "none" THEN 0 ELSE 1) = 1
                      /\ \A w \in Worker : task[w] # "left"
    BY DEF AcceptChain
  <2>1. OneAccept
    BY DEF Inv, Chain
  <2>2. CASE acceptOp # "none"
    <3>1. {w \in Worker : task[w] \in {"check", "rearm"}} = {}
      BY <2>1, <2>2 DEF OneAccept
    <3> QED
      BY <2>1, <2>2, <3>1, FS_EmptySet DEF OneAccept
  <2>3. CASE acceptOp = "none"
    <3>1. PICK w \in Worker : \A v \in Worker : task[v] \in {"check", "rearm"} <=> v = w
      BY <2>1, <2>3 DEF OneAccept
    <3>2. {v \in Worker : task[v] \in {"check", "rearm"}} = {w}
      BY <3>1
    <3>3. Cardinality({v \in Worker : task[v] \in {"check", "rearm"}}) = 1
      BY <3>2, FS_Singleton
    <3> QED
      BY <2>1, <2>3, <3>3 DEF OneAccept
  <2> QED
    BY <2>2, <2>3
<1> QED
  BY <1>1, InvHolds, PTL
=============================================================================
