----------------------------- MODULE HttpServer -----------------------------
(***************************************************************************)
(* gwfront's HttpServer with its HttpSessions and the handler they call,   *)
(* and main() around it.  The workers of the io_context run one completion *)
(* handler at a time each; main starts and stops the server from its own   *)
(* thread; the clients, the network and the clock complete operations.     *)
(***************************************************************************)
EXTENDS Naturals, FiniteSets

CONSTANTS
  Worker,   \* the threads that run the io_context
  Client,   \* a client has at most one connection at a time
  Request,  \* the requests clients send: is it a POST to the right path
            \* with a valid body, and does it ask to keep the connection
  Promise   \* the results [error, copies] of the writer behind the handler

ASSUME WorkerAssumption == IsFiniteSet(Worker) /\ Worker # {}
ASSUME RequestAssumption ==
  Request \subseteq [post : BOOLEAN, path : BOOLEAN, valid : BOOLEAN, keepAlive : BOOLEAN]
(* Both writers promise that OK means stored, see WriterSpec of each.      *)
ASSUME PromiseAssumption ==
  /\ Promise \subseteq [error : {"OK", "GENERIC", "STORAGE_UNAVAILABLE"}, copies : Nat]
  /\ \A p \in Promise : p.error = "OK" => p.copies > 0
(* A worker's task is the client it serves or one of the words.            *)
ASSUME ClientAssumption == Client \cap {"new", "poll", "check", "rearm", "left"} = {}

VARIABLES
  mainPc,        \* where main is
  stopping,      \* stopping_
  open,          \* acceptor_ is listening
  acceptOp,      \* the async_accept: none, pending, completed or failed
  ioStopped,     \* ioContext_ is stopped
  woken,         \* the stop has reached the workers
  task,          \* what each worker is doing
  session,       \* the connection of each client
  acceptFailed   \* history: an accept has failed

server == <<mainPc, stopping, open, acceptOp, ioStopped, woken, task, acceptFailed>>
vars == <<server, session>>

MainPc == {"listen", "accept", "runWorkers", "serving", "close", "stop", "join", "exited", "terminated"}
Phase == {"none", "backlog", "accepted", "reading", "read", "readError", "handling",
          "writing", "written", "writeError"}
Blank == [status |-> 200, error |-> FALSE, keepAlive |-> FALSE]
NoRequest == [post |-> FALSE, path |-> FALSE, valid |-> FALSE, keepAlive |-> FALSE]
NoSession == [phase |-> "none", request |-> NoRequest, response |-> Blank,
              copies |-> 0, late |-> FALSE, gone |-> FALSE]

Phases(S) == {c \in Client : session[c].phase \in S}
Goto(c, label) == session' = [session EXCEPT ![c].phase = label]
Do(w, t) == task' = [task EXCEPT ![w] = t]

Init ==
  /\ mainPc = "listen"
  /\ stopping = FALSE
  /\ open = FALSE
  /\ acceptOp = "none"
  /\ ioStopped = FALSE /\ woken = FALSE
  /\ task = [w \in Worker |-> "new"]
  /\ session = [c \in Client |-> NoSession]
  /\ acceptFailed = FALSE

(***************************************************************************)
(* main, HttpServer::start and stop                                        *)
(***************************************************************************)
(* Mutant: the workers run before there is anything to do.                 *)
StartWorkersFirst(label) ==
  CASE label = "listen" -> "runWorkers" [] label = "runWorkers" -> "accept" [] OTHER -> "serving"

StartAfter(label) ==
  CASE label = "listen" -> "accept" [] label = "accept" -> "runWorkers" [] OTHER -> "serving"

Listen ==
  /\ mainPc = "listen"
  /\ mainPc' = StartAfter("listen") /\ open' = TRUE
  /\ UNCHANGED <<stopping, acceptOp, ioStopped, woken, task, acceptFailed, session>>

(* open, bind or listen throws, and main returns.                          *)
ListenFails ==
  /\ mainPc = "listen"
  /\ mainPc' = "exited"
  /\ UNCHANGED <<stopping, open, acceptOp, ioStopped, woken, task, acceptFailed, session>>

Accept ==
  /\ mainPc = "accept"
  /\ mainPc' = StartAfter("accept") /\ acceptOp' = "pending"
  /\ UNCHANGED <<stopping, open, ioStopped, woken, task, acceptFailed, session>>

RunWorkers ==
  /\ mainPc = "runWorkers"
  /\ mainPc' = StartAfter("runWorkers") /\ task' = [w \in Worker |-> "poll"]
  /\ UNCHANGED <<stopping, open, acceptOp, ioStopped, woken, acceptFailed, session>>

(* A thread cannot be created: the exception destroys joinable threads.    *)
RunWorkersFails ==
  /\ mainPc = "runWorkers"
  /\ mainPc' = "terminated"
  /\ UNCHANGED <<stopping, open, acceptOp, ioStopped, woken, task, acceptFailed, session>>

Signal ==
  /\ mainPc = "serving"
  /\ mainPc' = "close" /\ stopping' = TRUE
  /\ UNCHANGED <<open, acceptOp, ioStopped, woken, task, acceptFailed, session>>

CloseAcceptor ==
  /\ mainPc = "close"
  /\ mainPc' = "stop" /\ open' = FALSE
  /\ acceptOp' = IF acceptOp = "pending" THEN "failed" ELSE acceptOp
  /\ session' = [c \in Client |-> IF session[c].phase = "backlog" THEN NoSession ELSE session[c]]
  /\ UNCHANGED <<stopping, ioStopped, woken, task, acceptFailed>>

(* With one worker the io_context runs without locks, so that a stop from  *)
(* another thread is a data race; the waiting worker may miss it.          *)
Seen == IF Cardinality(Worker) = 1 THEN BOOLEAN ELSE {TRUE}

(* Mutant: no ioContext_.stop(), the workers are to run out of work.       *)
StopWithoutContext ==
  /\ mainPc = "stop"
  /\ mainPc' = "join"
  /\ UNCHANGED <<stopping, open, acceptOp, ioStopped, woken, task, acceptFailed, session>>

StopContext ==
  /\ mainPc = "stop"
  /\ mainPc' = "join" /\ ioStopped' = TRUE /\ woken' \in Seen
  /\ UNCHANGED <<stopping, open, acceptOp, task, acceptFailed, session>>

JoinWorkers ==
  /\ mainPc = "join"
  /\ \A w \in Worker : task[w] = "left"
  /\ mainPc' = "exited"
  /\ session' = [c \in Client |-> NoSession]
  /\ UNCHANGED <<stopping, open, acceptOp, ioStopped, woken, task, acceptFailed>>

Ended == mainPc \in {"exited", "terminated"} /\ UNCHANGED vars

(***************************************************************************)
(* Clients, network and clock                                              *)
(***************************************************************************)
Running == mainPc \notin {"exited", "terminated"}
(* The workers still look for completed operations.                        *)
Polling == Running /\ (ioStopped => ~woken)

Connect(c) ==
  /\ Running /\ open
  /\ session[c].phase = "none"
  /\ Goto(c, "backlog")
  /\ UNCHANGED server

(* The client closes or resets its connection.                             *)
Leave(c) ==
  /\ Running
  /\ session[c].phase # "none" /\ ~session[c].gone
  /\ session' = [session EXCEPT ![c].gone = TRUE]
  /\ UNCHANGED server

(* The deadline set by read() passes.                                      *)
Expire(c) ==
  /\ Running
  /\ session[c].phase \notin {"none", "backlog", "accepted"} /\ ~session[c].late
  /\ session' = [session EXCEPT ![c].late = TRUE]
  /\ UNCHANGED server

AcceptCompletes(c) ==
  /\ Polling
  /\ acceptOp = "pending" /\ open
  /\ session[c].phase = "backlog"
  /\ acceptOp' = "completed"
  /\ Goto(c, "accepted")
  /\ UNCHANGED <<mainPc, stopping, open, ioStopped, woken, task, acceptFailed>>

(* For instance no file descriptor is left.                                *)
AcceptFails ==
  /\ Polling
  /\ acceptOp = "pending" /\ open
  /\ acceptOp' = "failed" /\ acceptFailed' = TRUE
  /\ UNCHANGED <<mainPc, stopping, open, ioStopped, woken, task, session>>

ReadCompletes(c) ==
  /\ Polling
  /\ session[c].phase = "reading" /\ ~session[c].gone
  /\ \E r \in Request :
       session' = [session EXCEPT ![c].phase = "read", ![c].request = r]
  /\ UNCHANGED server

(* End of stream, a timeout, or bytes that are not a request.              *)
ReadFails(c) ==
  /\ Polling
  /\ session[c].phase = "reading"
  /\ Goto(c, "readError")
  /\ UNCHANGED server

WriteCompletes(c) ==
  /\ Polling
  /\ session[c].phase = "writing"
  /\ Goto(c, "written")
  /\ UNCHANGED server

WriteFails(c) ==
  /\ Polling
  /\ session[c].phase = "writing" /\ (session[c].late \/ session[c].gone)
  /\ Goto(c, "writeError")
  /\ UNCHANGED server

(***************************************************************************)
(* HttpServer::onAccept                                                    *)
(***************************************************************************)
(* Worker w takes a completion handler from the queue.                     *)
Runs(w) == Running /\ task[w] = "poll" /\ ~ioStopped

(* Mutant: request_ is not cleared, and what is in it is taken for read.   *)
ReadingAgain(c) ==
  [session[c] EXCEPT !.phase = IF session[c].request = NoRequest THEN "reading" ELSE "read",
                     !.copies = 0, !.late = FALSE]

(* HttpSession::read, the deadline included.                               *)
Reading(c) ==
  [session[c] EXCEPT !.phase = "reading", !.request = NoRequest, !.copies = 0, !.late = FALSE]

(* make_shared<HttpSession> and run(), which dispatches read() at once.    *)
OnAccept(w) ==
  /\ Runs(w)
  /\ acceptOp = "completed" /\ acceptOp' = "none"
  /\ \E c \in Phases({"accepted"}) : session' = [session EXCEPT ![c] = Reading(c)]
  /\ Do(w, "check")
  /\ UNCHANGED <<mainPc, stopping, open, ioStopped, woken, acceptFailed>>

(* remote_endpoint() throws out of the worker when the client has gone.    *)
OnAcceptThrows(w) ==
  /\ Runs(w)
  /\ acceptOp = "completed"
  /\ \E c \in Phases({"accepted"}) : session[c].gone
  /\ mainPc' = "terminated"
  /\ UNCHANGED <<stopping, open, acceptOp, ioStopped, woken, task, acceptFailed, session>>

OnAcceptError(w) ==
  /\ Runs(w)
  /\ acceptOp = "failed" /\ acceptOp' = "none"
  /\ UNCHANGED <<mainPc, stopping, open, ioStopped, woken, task, acceptFailed, session>>

(* Mutant: the test is the wrong way round.                                *)
CheckInverted == IF stopping THEN "rearm" ELSE "poll"

Checked == IF stopping THEN "poll" ELSE "rearm"

CheckStopping(w) ==
  /\ Running /\ task[w] = "check"
  /\ Do(w, Checked)
  /\ UNCHANGED <<mainPc, stopping, open, acceptOp, ioStopped, woken, acceptFailed, session>>

(* Mutant: while for if.                                                   *)
LoopsInOnAccept == "check"

ReturnsFromOnAccept == "poll"

(* Nothing keeps main from closing acceptor_ first, or meanwhile; the new  *)
(* operation then fails, or is never heard of again.                       *)
Rearm(w) ==
  /\ Running /\ task[w] = "rearm"
  /\ acceptOp' \in IF open THEN {"pending"} ELSE {"pending", "failed"}
  /\ Do(w, ReturnsFromOnAccept)
  /\ UNCHANGED <<mainPc, stopping, open, ioStopped, woken, acceptFailed, session>>

(***************************************************************************)
(* HttpSession and UniversalHandler                                        *)
(***************************************************************************)
(* Mutant: two reads are outstanding, and both complete.                   *)
OnReadTwice(w, c) ==
  /\ Runs(w)
  /\ session[c].phase = "read"
  /\ Do(w, c)
  /\ UNCHANGED <<mainPc, stopping, open, acceptOp, ioStopped, woken, acceptFailed, session>>

OnRead(w, c) ==
  /\ Runs(w)
  /\ session[c].phase = "read"
  /\ Do(w, c)
  /\ Goto(c, "handling")
  /\ UNCHANGED <<mainPc, stopping, open, acceptOp, ioStopped, woken, acceptFailed>>

OnReadError(w, c) ==
  /\ Runs(w)
  /\ session[c].phase = "readError"
  /\ session' = [session EXCEPT ![c] = NoSession]
  /\ UNCHANGED server

(* What UniversalHandler may return for a body.                            *)
Handler(valid) == IF valid THEN Promise ELSE {[error |-> "BAD_DATA", copies |-> 0]}

(* Mutant: an error without a case of its own is taken for success.        *)
StatusFallsThrough(error) == IF error = "BAD_DATA" THEN 400 ELSE IF error = "GENERIC" THEN 500 ELSE 202

Status(error) ==
  CASE error = "OK" -> 202
    [] error = "BAD_DATA" -> 400
    [] error = "STORAGE_UNAVAILABLE" -> 503
    [] error = "GENERIC" -> 500

(* The statuses a request may be answered with, and the copies stored.     *)
Answers(r) ==
  CASE ~r.post -> {[status |-> 405, copies |-> 0]}
    [] r.post /\ ~r.path -> {[status |-> 400, copies |-> 0]}
    [] OTHER -> {[status |-> Status(p.error), copies |-> p.copies] : p \in Handler(r.valid)}

(* Mutant: response_ keeps what the last request on the connection left.   *)
StaleResponse(c) == session[c].response

NewResponse(c) == Blank

(* handleRequest, and the async_write of the response.                     *)
HandleRequest(w, c) ==
  /\ Running /\ task[w] = c
  /\ \E a \in Answers(session[c].request) :
       session' = [session EXCEPT
         ![c].phase = "writing",
         ![c].copies = a.copies,
         ![c].response = [status |-> a.status,
                          error |-> NewResponse(c).error \/ a.status # 202,
                          keepAlive |-> session[c].request.keepAlive]]
  /\ Do(w, "poll")
  /\ UNCHANGED <<mainPc, stopping, open, acceptOp, ioStopped, woken, acceptFailed>>

OnWrite(w, c) ==
  /\ Runs(w)
  /\ \/ /\ session[c].phase = "written" /\ session[c].response.keepAlive
        /\ session' = [session EXCEPT ![c] = Reading(c)]
     \/ /\ session[c].phase = "written" /\ ~session[c].response.keepAlive
        /\ session' = [session EXCEPT ![c] = NoSession]
     \/ /\ session[c].phase = "writeError"
        /\ session' = [session EXCEPT ![c] = NoSession]
  /\ UNCHANGED server

(***************************************************************************)
(* io_context::run                                                         *)
(***************************************************************************)
(* Nothing is outstanding: the io_context stops by itself.                 *)
OutOfWork ==
  /\ acceptOp = "none"
  /\ Phases(Phase \ {"none", "backlog"}) = {}
  /\ \A w \in Worker : task[w] \in {"poll", "left"}

(* A worker that missed the stop sees it when an operation completes.      *)
LeaveRun(w) ==
  /\ Running /\ task[w] = "poll"
  /\ \/ ioStopped /\ (woken \/ Phases({"read", "readError", "written", "writeError"}) # {})
     \/ OutOfWork
  /\ Do(w, "left")
  /\ ioStopped' = TRUE /\ woken' = (woken \/ ~ioStopped)
  /\ UNCHANGED <<mainPc, stopping, open, acceptOp, acceptFailed, session>>

Main ==
  \/ Listen \/ ListenFails \/ Accept \/ RunWorkers \/ RunWorkersFails
  \/ CloseAcceptor \/ StopContext \/ JoinWorkers
HandlesAccept(w) == OnAccept(w) \/ OnAcceptThrows(w) \/ OnAcceptError(w)
HandlesSession(w, c) == OnRead(w, c) \/ OnReadError(w, c) \/ OnWrite(w, c)
Busy(w) == CheckStopping(w) \/ Rearm(w) \/ \E c \in Client : HandleRequest(w, c)
Network(c) ==
  \/ AcceptCompletes(c) \/ ReadCompletes(c) \/ ReadFails(c)
  \/ WriteCompletes(c) \/ WriteFails(c)

Next ==
  \/ Main \/ Signal \/ Ended \/ AcceptFails
  \/ \E c \in Client : Connect(c) \/ Leave(c) \/ Expire(c) \/ Network(c)
  \/ \E w \in Worker :
       \/ HandlesAccept(w) \/ Busy(w) \/ LeaveRun(w)
       \/ \E c \in Client : HandlesSession(w, c)

Spec == Init /\ [][Next]_vars

(* Threads run, time passes, and the queues of the kernel and of the       *)
(* io_context are first in first out.                                      *)
Fairness ==
  /\ WF_vars(Main)
  /\ \A w \in Worker : WF_vars(Busy(w)) /\ WF_vars(LeaveRun(w))
  /\ SF_vars(\E w \in Worker : HandlesAccept(w))
  /\ \A c \in Client :
       /\ WF_vars(Expire(c))
       /\ WF_vars((session[c].late \/ session[c].gone) /\ ReadFails(c))
       /\ WF_vars(WriteCompletes(c) \/ WriteFails(c))
       /\ SF_vars(AcceptCompletes(c))
       /\ SF_vars(\E w \in Worker : HandlesSession(w, c))

FairSpec == Spec /\ Fairness
-----------------------------------------------------------------------------
(* Every variable has its type; a request is handled by exactly one        *)
(* worker, and a worker handles requests of open sessions only.            *)
TypeOK ==
  /\ mainPc \in MainPc
  /\ stopping \in BOOLEAN /\ open \in BOOLEAN /\ acceptFailed \in BOOLEAN
  /\ acceptOp \in {"none", "pending", "completed", "failed"}
  /\ ioStopped \in BOOLEAN /\ woken \in BOOLEAN
  /\ task \in [Worker -> {"new", "poll", "check", "rearm", "left"} \cup Client]
  /\ session \in [Client -> [phase : Phase, request : Request \cup {NoRequest},
                             response : [status : {200, 202, 400, 405, 500, 503},
                                         error : BOOLEAN, keepAlive : BOOLEAN],
                             copies : Nat, late : BOOLEAN, gone : BOOLEAN]]
  /\ Running => \A c \in Client :
       Cardinality({w \in Worker : task[w] = c}) = IF session[c].phase = "handling" THEN 1 ELSE 0

(* What a client reads in a response is true of the storage: 202, without  *)
(* an error text, for a message that is stored; 4xx for one that is not.   *)
StatusTruthful ==
  \A c \in Phases({"writing", "written"}) :
    LET r == session[c].response IN
    /\ r.status = 202 => session[c].copies > 0
    /\ r.status \in {400, 405} => session[c].copies = 0
    /\ r.error <=> r.status # 202
    /\ r.keepAlive <=> session[c].request.keepAlive

(* Until a stop or a failed accept, exactly one accept is outstanding or   *)
(* being handled, and no worker has run out of work.                       *)
AcceptChain ==
  mainPc = "serving" /\ ~acceptFailed =>
    /\ Cardinality({w \in Worker : task[w] \in {"check", "rearm"}})
         + (IF acceptOp = "none" THEN 0 ELSE 1) = 1
    /\ \A w \in Worker : task[w] # "left"

Down == stopping \/ ~Running

(* A client that connects is accepted, unless an accept has failed; one    *)
(* that then sends nothing is closed; and every request is handled, after  *)
(* which its connection is closed or ready for the next one, however many  *)
(* requests the few workers have to serve.                                 *)
Served == \A c \in Client :
  /\ session[c].phase = "backlog" ~> session[c].phase # "backlog" \/ acceptFailed \/ Down
  /\ session[c].phase = "reading" ~> session[c].phase # "reading" \/ Down
  /\ session[c].phase = "read" ~> session[c].phase \in {"reading", "none"} \/ Down

(* stop() returns: every worker leaves, whatever it was doing.  The        *)
(* exception is the stop that a single worker misses.                      *)
StopReturns == stopping ~> ~Running \/ (ioStopped /\ ~woken)
=============================================================================
