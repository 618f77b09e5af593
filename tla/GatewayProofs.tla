---------------------------- MODULE GatewayProofs ----------------------------
(***************************************************************************)
(* Proofs about the gateway as a whole: no message that was answered is    *)
(* lost, and none is stored more often than the faults explain.            *)
(***************************************************************************)
EXTENDS Gateway, FiniteSetTheorems, TLAPS

(* What is proved of gwfront alone.                                        *)
F == INSTANCE HttpServerProofs

(* The client has read that its message is stored or bad.                  *)
Answered(c) == answer[c] \in {202, 400, 405}

(* What the clients and the faults are counted with.                       *)
Books ==
  /\ attempts \in [Client -> Nat] /\ answer \in [Client -> Nat]
  /\ faults \in Nat
  /\ IsFiniteSet(accepted)

(* A client that has been answered sends nothing more, and one that waits  *)
(* for a connection has something left to send.                            *)
TidyClient(c) ==
  /\ session[c].phase = "none" => ~session[c].gone
  /\ session[c].phase \in {"backlog", "accepted"} => ~Settled(c)
  /\ Answered(c) => session[c].phase \notin {"backlog", "accepted", "read", "handling", "writing"}

(* A stop was asked for where one is under way.                            *)
Tidy ==
  /\ ioStopped /\ ~woken => stopping
  /\ mainPc \in {"close", "stop", "join"} => stopping
  /\ \A c \in Client : TidyClient(c)

(* The message of a client that has been or will be told 202 is stored.    *)
KeptClient(c) ==
  /\ answer[c] = 202 => Copies(c) # {}
  /\ session[c].phase = "writing" /\ session[c].response.status = 202 => Copies(c) # {}

(* What has been stored is still there or has been taken.                  *)
Kept ==
  /\ accepted \subseteq pending \cup delivered
  /\ taken \subseteq delivered
  /\ \A c \in Client : KeptClient(c)

(* A response that says stored is on its way to the client.                *)
Underway(c) ==
  mainPc # "exited" /\ session[c].phase = "writing" /\ session[c].response.status = 202

(* A fault has been counted after which every response may be lost.        *)
Doomed(c) ==
  \/ mainPc = "terminated"
  \/ /\ Front!Running
     /\ \/ acceptFailed \/ stopping
        \/ \E d \in Client \ {c} : session[d].phase \in {"backlog", "accepted"} /\ session[d].gone

(* A fault has been counted after which this one may be lost.              *)
Own(c) ==
  /\ Front!Running
  /\ \/ session[c].phase \in {"reading", "read", "handling", "writing"} /\ session[c].late
     \/ session[c].phase \in {"backlog", "accepted", "read", "handling", "writing"} /\ session[c].gone

(* Faults that are counted and may still cost the client a response, and   *)
(* the copy that its response, if it arrives, accounts for.                *)
Open(c) == (IF Doomed(c) THEN 1 ELSE 0) + (IF Own(c) THEN 1 ELSE 0)
Credit(c) == IF Underway(c) THEN 1 ELSE 0

(* What the copies of a message may come to.  One copy is free; one more   *)
(* is paid for by each fault, and a fault that may still cost the client   *)
(* its response has not paid for a copy yet.                               *)
Ledger(c) ==
  /\ Cardinality(Copies(c)) <= faults + 1
  /\ session[c].phase \in {"read", "handling"} => Cardinality(Copies(c)) <= faults
  /\ ~Settled(c) => Cardinality(Copies(c)) + Open(c) <= faults + Credit(c)

(* The same for every client.                                              *)
AllLedgers == \A c \in Client : Ledger(c)
(* The inductive invariant.                                                *)
Inv == F!Inv /\ Books /\ Tidy /\ Kept /\ AllLedgers

-----------------------------------------------------------------------------
(***************************************************************************)
(* gwfront inside the gateway: its steps are those of HttpServer           *)
(***************************************************************************)
(* The constants are as HttpServer assumes them to be.                     *)
LEMMA FrontAssumptions ==
  /\ F!IsFiniteSet(Worker) /\ Worker # {}
  /\ Client \cap {"new", "poll", "check", "rearm", "left"} = {}
  /\ Promise \subseteq [error : {"OK", "GENERIC", "STORAGE_UNAVAILABLE"}, copies : Nat]
  /\ \A p \in Promise : p.error = "OK" => p.copies > 0
  /\ Request \subseteq [post : BOOLEAN, path : BOOLEAN, valid : BOOLEAN, keepAlive : BOOLEAN]
<1>1. F!IsFiniteSet(Worker)
  BY WorkerAssumption, Zenon DEF IsFiniteSet, F!IsFiniteSet
<1>2. Request \subseteq [post : BOOLEAN, path : BOOLEAN, valid : BOOLEAN, keepAlive : BOOLEAN]
  BY RequestOfAssumption DEF Request
<1> QED
  BY <1>1, <1>2, WorkerAssumption, ClientAssumption, PromiseAssumption

(* A step of gwfront keeps gwfront's invariant.                            *)
LEMMA FrontInvNext ==
  ASSUME F!Inv, F!Next
  PROVE  F!Inv'
BY FrontAssumptions, F!InvNext

(* A step of the main thread, a signal or a failing accept is one of       *)
(* gwfront.                                                                *)
LEMMA FrontMain ==
  ASSUME Front!Main \/ Front!Signal \/ Front!AcceptFails
  PROVE  F!Next
<1>1. Front!Listen => F!Listen
  BY DEF Front!Listen, F!Listen, Front!StartAfter, F!StartAfter
<1>2. Front!ListenFails => F!ListenFails
  BY DEF Front!ListenFails, F!ListenFails
<1>3. Front!Accept => F!Accept
  BY DEF Front!Accept, F!Accept, Front!StartAfter, F!StartAfter
<1>4. Front!RunWorkers => F!RunWorkers
  BY DEF Front!RunWorkers, F!RunWorkers, Front!StartAfter, F!StartAfter
<1>5. Front!RunWorkersFails => F!RunWorkersFails
  BY DEF Front!RunWorkersFails, F!RunWorkersFails
<1>6. Front!CloseAcceptor => F!CloseAcceptor
  BY DEF Front!CloseAcceptor, F!CloseAcceptor, Front!NoSession, F!NoSession, Front!NoRequest, F!NoRequest, Front!Blank, F!Blank
<1>7. Front!JoinWorkers => F!JoinWorkers
  BY DEF Front!JoinWorkers, F!JoinWorkers, Front!NoSession, F!NoSession, Front!NoRequest, F!NoRequest, Front!Blank, F!Blank
<1>8. Front!Signal => F!Signal
  BY DEF Front!Signal, F!Signal
<1>9. Front!AcceptFails => F!AcceptFails
  BY DEF Front!AcceptFails, F!AcceptFails, Front!Polling, F!Polling, Front!Running, F!Running
<1>10. Front!StopContext => F!StopContext
  <2>1. Front!Seen = F!Seen
    BY Zenon DEF Front!Seen, F!Seen, Front!Cardinality, F!Cardinality
  <2> QED
    BY <2>1 DEF Front!StopContext, F!StopContext
<1> QED
  BY <1>1, <1>2, <1>3, <1>4, <1>5, <1>6, <1>7, <1>8, <1>9, <1>10 DEF Front!Main, F!Main, F!Next

(* A step of the network or of a client is one of gwfront.                 *)
LEMMA FrontClient ==
  ASSUME NEW c \in Client,
         \/ Front!Connect(c)
         \/ Front!Leave(c)
         \/ Front!Expire(c)
         \/ Front!AcceptCompletes(c)
         \/ Front!ReadCompletes(c)
         \/ Front!ReadFails(c)
         \/ Front!WriteCompletes(c)
         \/ Front!WriteFails(c)
  PROVE  F!Next
<1>1. Front!Connect(c) => F!Connect(c)
  BY DEF Front!Connect, F!Connect, Front!Running, F!Running, Front!Goto, F!Goto, Front!server, F!server
<1>2. Front!Leave(c) => F!Leave(c)
  BY DEF Front!Leave, F!Leave, Front!Running, F!Running, Front!server, F!server
<1>3. Front!Expire(c) => F!Expire(c)
  BY DEF Front!Expire, F!Expire, Front!Running, F!Running, Front!server, F!server
<1>4. Front!AcceptCompletes(c) => F!AcceptCompletes(c)
  BY DEF Front!AcceptCompletes, F!AcceptCompletes, Front!Polling, F!Polling, Front!Running, F!Running, Front!Goto, F!Goto
<1>5. Front!ReadCompletes(c) => F!ReadCompletes(c)
  BY DEF Front!ReadCompletes, F!ReadCompletes, Front!Polling, F!Polling, Front!Running, F!Running, Front!server, F!server
<1>6. Front!ReadFails(c) => F!ReadFails(c)
  BY DEF Front!ReadFails, F!ReadFails, Front!Polling, F!Polling, Front!Running, F!Running, Front!Goto, F!Goto, Front!server, F!server
<1>7. Front!WriteCompletes(c) => F!WriteCompletes(c)
  BY DEF Front!WriteCompletes, F!WriteCompletes, Front!Polling, F!Polling, Front!Running, F!Running, Front!Goto, F!Goto, Front!server, F!server
<1>8. Front!WriteFails(c) => F!WriteFails(c)
  BY DEF Front!WriteFails, F!WriteFails, Front!Polling, F!Polling, Front!Running, F!Running, Front!Goto, F!Goto, Front!server, F!server
<1> QED
  BY <1>1, <1>2, <1>3, <1>4, <1>5, <1>6, <1>7, <1>8 DEF F!Next, F!Network

(* A step of a worker that is in no session is one of gwfront.             *)
LEMMA FrontWorker ==
  ASSUME NEW w \in Worker,
         \/ Front!OnAccept(w)
         \/ Front!OnAcceptThrows(w)
         \/ Front!OnAcceptError(w)
         \/ Front!CheckStopping(w)
         \/ Front!Rearm(w)
         \/ Front!LeaveRun(w)
  PROVE  F!Next
<1>1. Front!OnAccept(w) => F!OnAccept(w)
  BY DEF Front!OnAccept, F!OnAccept, Front!Runs, F!Runs, Front!Running, F!Running, Front!Phases, F!Phases, Front!Reading, F!Reading, Front!NoRequest, F!NoRequest, Front!Do, F!Do
<1>2. Front!OnAcceptThrows(w) => F!OnAcceptThrows(w)
  BY DEF Front!OnAcceptThrows, F!OnAcceptThrows, Front!Runs, F!Runs, Front!Running, F!Running, Front!Phases, F!Phases
<1>3. Front!OnAcceptError(w) => F!OnAcceptError(w)
  BY DEF Front!OnAcceptError, F!OnAcceptError, Front!Runs, F!Runs, Front!Running, F!Running
<1>4. Front!CheckStopping(w) => F!CheckStopping(w)
  BY DEF Front!CheckStopping, F!CheckStopping, Front!Running, F!Running, Front!Do, F!Do, Front!Checked, F!Checked
<1>5. Front!Rearm(w) => F!Rearm(w)
  BY DEF Front!Rearm, F!Rearm, Front!Running, F!Running, Front!Do, F!Do, Front!ReturnsFromOnAccept, F!ReturnsFromOnAccept
<1>6. Front!LeaveRun(w) => F!LeaveRun(w)
  BY DEF Front!LeaveRun, F!LeaveRun, Front!Running, F!Running, Front!Phases, F!Phases, Front!OutOfWork, F!OutOfWork, Front!Do, F!Do, Front!Phase, F!Phase
<1> QED
  BY <1>1, <1>2, <1>3, <1>4, <1>5, <1>6 DEF F!Next, F!HandlesAccept, F!Busy

(* A step of a worker in a session is one of gwfront.                      *)
LEMMA FrontSession ==
  ASSUME NEW w \in Worker, NEW c \in Client,
         Front!HandlesSession(w, c) \/ Front!HandleRequest(w, c)
  PROVE  F!Next
<1>1. Front!OnRead(w, c) => F!OnRead(w, c)
  BY DEF Front!OnRead, F!OnRead, Front!Runs, F!Runs, Front!Running, F!Running, Front!Do, F!Do, Front!Goto, F!Goto
<1>2. Front!OnReadError(w, c) => F!OnReadError(w, c)
  BY DEF Front!OnReadError, F!OnReadError, Front!Runs, F!Runs, Front!Running, F!Running, Front!server, F!server, Front!NoSession, F!NoSession, Front!NoRequest, F!NoRequest, Front!Blank, F!Blank
<1>3. Front!OnWrite(w, c) => F!OnWrite(w, c)
  BY DEF Front!OnWrite, F!OnWrite, Front!Runs, F!Runs, Front!Running, F!Running, Front!Reading, F!Reading, Front!server, F!server, Front!NoSession, F!NoSession, Front!NoRequest, F!NoRequest, Front!Blank, F!Blank
<1>4. Front!HandleRequest(w, c) => F!HandleRequest(w, c)
  BY DEF Front!HandleRequest, F!HandleRequest, Front!Running, F!Running, Front!Do, F!Do, Front!Answers, F!Answers, Front!Handler, F!Handler, Front!Status, F!Status, Front!NewResponse, F!NewResponse, Front!Blank, F!Blank
<1> QED
  BY <1>1, <1>2, <1>3, <1>4 DEF Front!HandlesSession, F!HandlesSession, F!Busy, F!Next

(* gwfront's invariant holds at the beginning.                             *)
LEMMA FrontInvInit == Init => F!Inv
<1>1. Init => F!Init
  BY DEF Init, Front!Init, F!Init, Front!NoSession, F!NoSession, Front!NoRequest, F!NoRequest, Front!Blank, F!Blank
<1> QED
  BY <1>1, FrontAssumptions, F!InvInit

(* It holds of a gwfront that is started again.                            *)
LEMMA FrontInvAgain == F!Init' => F!Inv'
<1>1. F!Init => F!Inv
  BY FrontAssumptions, F!InvInit
<1> QED
  BY <1>1, PTL

(* A restart leads to such a state.                                        *)
LEMMA FrontInvRestart ==
  ASSUME Restart
  PROVE  F!Inv'
<1>1. F!Init'
  BY DEF Restart, F!Init, Front!NoSession, F!NoSession, Front!NoRequest, F!NoRequest, Front!Blank, F!Blank
<1> QED
  BY <1>1, FrontInvAgain

(* Every step of the gateway, a kill and a restart too, keeps it.          *)
LEMMA FrontInvStep ==
  ASSUME F!Inv, [Next]_vars
  PROVE  F!Inv'
<1>1. CASE FrontStep
  <2>1. F!Next
    BY <1>1, FrontMain, FrontClient, FrontWorker, FrontSession DEF FrontStep, Quiet, Front!Main
  <2> QED
    BY <2>1, FrontInvNext
<1>2. CASE FrontMishap
  <2>1. F!Next
    BY <1>2, FrontMain, FrontClient DEF FrontMishap, Mishap, Front!Main
  <2> QED
    BY <2>1, FrontInvNext
<1>3. CASE Kill
  BY <1>3 DEF Kill, F!Inv, F!Types, F!OneHandler, F!Running, F!Chain, F!NotStarted, F!StatusTruthful, F!Phases, F!MainPc
<1>4. ASSUME NEW c \in Client, Send(c) \/ Answer(c) \/ \E w \in Worker : Handle(w, c)
      PROVE  F!Inv'
  <2>1. F!Next
    BY <1>4, FrontClient, FrontSession DEF Send, Answer, Handle
  <2> QED
    BY <2>1, FrontInvNext
<1>5. CASE BackStep \/ NewReceiver \/ Quiescent \/ UNCHANGED vars
  <2>1. UNCHANGED front
    BY <1>5 DEF BackStep, Acknowledge, Take, NewReceiver, Quiescent, vars
  <2> QED
    BY <2>1 DEF front, F!Inv, F!Types, F!OneHandler, F!Running, F!Chain, F!NotStarted, F!OneAccept, F!StatusTruthful, F!Phases
<1> QED
  BY <1>1, <1>2, <1>3, <1>4, <1>5, FrontInvRestart DEF Next

-----------------------------------------------------------------------------
(***************************************************************************)
(* What the steps do to one session                                        *)
(***************************************************************************)
(* handleRequest leaves a response that is true of the copies stored: 202  *)
(* says at least one, 400 and 405 say none.                                *)
LEMMA HandleEffect ==
  ASSUME F!Inv, NEW w \in Worker, NEW c \in Client, Front!HandleRequest(w, c)
  PROVE  /\ session[c].phase = "handling" /\ session'[c].phase = "writing"
         /\ session'[c].copies \in Nat
         /\ session'[c].response.status \in {202, 400, 405, 500, 503}
         /\ session'[c].response.status = 202 => session'[c].copies > 0
         /\ session'[c].response.status \in {400, 405} => session'[c].copies = 0
         /\ session'[c].late = session[c].late /\ session'[c].gone = session[c].gone
         /\ \A d \in Client \ {c} : session'[d] = session[d]
<1>1. F!HandleRequest(w, c)
  BY DEF Front!HandleRequest, F!HandleRequest, Front!Running, F!Running, Front!Do, F!Do, Front!Answers, F!Answers,
         Front!Handler, F!Handler, Front!Status, F!Status, Front!NewResponse, F!NewResponse, Front!Blank, F!Blank
<1>2. session[c].phase = "handling"
  BY <1>1 DEF F!Inv, F!OneHandler, F!HandleRequest
<1>3. F!Types
  BY DEF F!Inv
<1>4. PICK a \in F!Answers(session[c].request), x \in F!Session :
           /\ session' = [session EXCEPT ![c] = x]
           /\ x.phase = "writing" /\ x.copies = a.copies
           /\ x.request = session[c].request
           /\ x.late = session[c].late /\ x.gone = session[c].gone
           /\ x.response.status = a.status
           /\ x.response.error <=> a.status # 202
           /\ x.response.keepAlive <=> session[c].request.keepAlive
  BY <1>1, <1>3, FrontAssumptions, F!HandledSession
<1>5. session[c].request \in Request \cup {F!NoRequest}
  BY <1>3 DEF F!Types, F!Session
<1>6. /\ a.status \in {202, 400, 405, 500, 503} /\ a.copies \in Nat
      /\ a.status = 202 => a.copies > 0
      /\ a.status \in {400, 405} => a.copies = 0
  BY <1>5, FrontAssumptions, F!AnswerType
<1>7. session'[c] = x /\ \A d \in Client \ {c} : session'[d] = session[d]
  BY <1>3, <1>4 DEF F!Types
<1> QED
  BY <1>2, <1>4, <1>6, <1>7

(* The copies that one call stores, counted.                               *)
LEMMA CopiesAdded ==
  ASSUME NEW c \in Client, NEW n \in Nat, IsFiniteSet(accepted),
         accepted' = accepted \cup ({c} \X (Cardinality(Copies(c)) + 1 .. Cardinality(Copies(c)) + n))
  PROVE  /\ IsFiniteSet(accepted')
         /\ Cardinality(Copies(c)') \in Nat
         /\ Cardinality(Copies(c)') <= Cardinality(Copies(c)) + n
         /\ n > 0 => Copies(c)' # {}
         /\ \A d \in Client \ {c} : Copies(d)' = Copies(d)
<1> DEFINE k == Cardinality(Copies(c))
<1> DEFINE new == {c} \X (k + 1 .. k + n)
<1>1. IsFiniteSet(Copies(c)) /\ k \in Nat
  BY FS_Subset, FS_CardinalityType DEF Copies
<1> HIDE DEF k
<1>2. IsFiniteSet(k + 1 .. k + n) /\ Cardinality(k + 1 .. k + n) = n
  BY <1>1, FS_Interval
<1>3. IsFiniteSet({c}) /\ Cardinality({c}) = 1
  BY FS_Singleton
<1>4. IsFiniteSet(new) /\ Cardinality(new) = n
  <2>1. IsFiniteSet(new) /\ Cardinality(new) = Cardinality({c}) * Cardinality(k + 1 .. k + n)
    <3> HIDE DEF k
    <3> QED
      BY <1>2, <1>3, FS_Product, Zenon
  <2> QED
    BY <1>2, <1>3, <2>1
<1>5. \A id \in new : id[1] = c
  OBVIOUS
<1>6. n > 0 => new # {}
  <2>1. n > 0 => <<c, k + 1>> \in new
    BY <1>1
  <2> QED
    BY <2>1
<1> HIDE DEF new
<1>7. accepted' = accepted \cup new
  BY DEF new, k
<1>8. IsFiniteSet(accepted')
  <2>1. IsFiniteSet(accepted \cup new)
    BY <1>4, FS_Union, Zenon
  <2> QED
    BY <1>7, <2>1, Zenon
<1>9. Copies(c)' = Copies(c) \cup new
  BY <1>5, <1>7 DEF Copies
<1>10. \A d \in Client \ {c} : Copies(d)' = Copies(d)
  BY <1>5, <1>7 DEF Copies
<1>11. Cardinality(Copies(c) \cup new) = k + n - Cardinality(Copies(c) \cap new)
  BY <1>1, <1>4, FS_Union DEF k
<1>12. Cardinality(Copies(c) \cap new) \in Nat
  BY <1>1, FS_Subset, FS_CardinalityType
<1>13. Cardinality(Copies(c) \cup new) \in Nat
  BY <1>1, <1>4, FS_Union, FS_CardinalityType
<1>14. Cardinality(Copies(c)') <= k + n
  BY <1>1, <1>9, <1>11, <1>12
<1> QED
  BY <1>6, <1>8, <1>9, <1>10, <1>13, <1>14 DEF k

(* The other sessions are left alone, and so is what this one holds.       *)
Moved(c, label) ==
  /\ session'[c].phase = label
  /\ session'[c].late = session[c].late /\ session'[c].gone = session[c].gone
  /\ session'[c].response = session[c].response
  /\ \A d \in Client \ {c} : session'[d] = session[d]

(* A change of its phase leaves the rest of a session.                     *)
LEMMA PhaseChanged ==
  ASSUME F!Types, NEW c \in Client, NEW label, Front!Goto(c, label)
  PROVE  Moved(c, label)
<1>1. session \in [Client -> F!Session]
  BY DEF F!Types
<1> QED
  BY <1>1 DEF Moved, Front!Goto, F!Session

(* A client that leaves changes nothing else of its session.               *)
LEMMA Departed ==
  ASSUME F!Types, NEW c \in Client, Front!Leave(c)
  PROVE  /\ session'[c].phase = session[c].phase /\ session'[c].late = session[c].late
         /\ session'[c].response = session[c].response
         /\ session[c].phase # "none"
         /\ \A d \in Client \ {c} : session'[d] = session[d]
<1>1. session \in [Client -> F!Session]
  BY DEF F!Types
<1> QED
  BY <1>1 DEF Front!Leave, F!Session

(* Nor does a timeout.                                                     *)
LEMMA Expired ==
  ASSUME F!Types, NEW c \in Client, Front!Expire(c)
  PROVE  /\ session'[c].phase = session[c].phase /\ session'[c].gone = session[c].gone
         /\ session'[c].response = session[c].response
         /\ session[c].phase \notin {"none", "backlog", "accepted"}
         /\ \A d \in Client \ {c} : session'[d] = session[d]
<1>1. session \in [Client -> F!Session]
  BY DEF F!Types
<1> QED
  BY <1>1 DEF Front!Expire, F!Session

(* A session that reads again has a new deadline.                          *)
LEMMA ReadsAgain ==
  ASSUME F!Types, NEW c \in Client, session' = [session EXCEPT ![c] = Front!Reading(c)]
  PROVE  /\ session'[c].phase = "reading" /\ ~session'[c].late
         /\ session'[c].gone = session[c].gone
         /\ \A d \in Client \ {c} : session'[d] = session[d]
<1>1. session \in [Client -> F!Session]
  BY DEF F!Types
<1>2. session'[c] = Front!Reading(c) /\ \A d \in Client \ {c} : session'[d] = session[d]
  BY <1>1
<1>3. Front!Reading(c).phase = "reading" /\ Front!Reading(c).gone = session[c].gone
  BY <1>1 DEF Front!Reading, F!Session
<1>4. Front!Reading(c).late = FALSE
  BY <1>1, Zenon DEF Front!Reading, F!Session
<1> QED
  BY <1>2, <1>3, <1>4

(* A session that is over has no client.                                   *)
LEMMA Closed ==
  Front!NoSession.phase = "none" /\ ~Front!NoSession.gone
<1>1. Front!NoSession.gone = FALSE
  BY Zenon DEF Front!NoSession
<1> QED
  BY <1>1 DEF Front!NoSession

(* The request of a client that is there is read.                          *)
LEMMA Requested ==
  ASSUME F!Types, NEW c \in Client, Front!ReadCompletes(c)
  PROVE  /\ session[c].phase = "reading" /\ session'[c].phase = "read" /\ ~session[c].gone
         /\ session'[c].late = session[c].late /\ session'[c].gone = session[c].gone
         /\ session'[c].response = session[c].response
         /\ \A d \in Client \ {c} : session'[d] = session[d]
<1>1. session \in [Client -> F!Session]
  BY DEF F!Types
<1>2. PICK r \in Request : session' = [session EXCEPT ![c].phase = "read", ![c].request = r]
  BY DEF Front!ReadCompletes
<1>3. session' = [session EXCEPT ![c] = [session[c] EXCEPT !.phase = "read", !.request = r]]
  BY <1>1, <1>2
<1> QED
  BY <1>1, <1>3 DEF Front!ReadCompletes, F!Session

(* What a step without a fault does to a session.                          *)
QuietMove(d) ==
  \/ session'[d] = session[d]
  \/ /\ session'[d].phase = "none" /\ ~session'[d].gone
     /\ session[d].phase \in {"backlog", "readError", "written", "writeError"} \/ mainPc' = "exited"
  \/ /\ session'[d].phase = session[d].phase /\ session[d].phase # "none"
     /\ session'[d].response = session[d].response
     /\ Settled(d)
  \/ /\ session'[d].gone = session[d].gone /\ session'[d].late = session[d].late
     /\ \/ session[d].phase = "none" /\ session'[d].phase = "backlog" /\ ~Settled(d)
        \/ session[d].phase = "backlog" /\ session'[d].phase = "accepted"
        \/ session[d].phase = "read" /\ session'[d].phase = "handling"
        \/ session[d].phase = "reading" /\ session'[d].phase = "readError"
        \/ /\ session[d].phase = "writing" /\ session'[d].phase = "writeError"
           /\ session[d].late \/ session[d].gone
  \/ /\ session[d].phase \in {"accepted", "written"} /\ session'[d].phase = "reading"
     /\ session'[d].gone = session[d].gone /\ ~session'[d].late

(* All that a quiet step does to a session.                                *)
LEMMA QuietMoves ==
  ASSUME F!Types, Quiet, NEW d \in Client
  PROVE  QuietMove(d)
<1>0. session \in [Client -> F!Session]
  BY DEF F!Types
<1>1. CASE Front!Listen \/ Front!Accept \/ Front!RunWorkers \/ Front!StopContext
  BY <1>1 DEF QuietMove, Front!Listen, Front!Accept, Front!RunWorkers, Front!StopContext
<1>2. CASE Front!CloseAcceptor
  BY <1>2, Closed DEF QuietMove, Front!CloseAcceptor
<1>3. CASE Front!JoinWorkers
  BY <1>3, Closed DEF QuietMove, Front!JoinWorkers
<1>4. ASSUME NEW c \in Client, ~Settled(c) /\ Front!Connect(c)
      PROVE  QuietMove(d)
  <2>1. Moved(c, "backlog")
    BY <1>4, PhaseChanged DEF Front!Connect
  <2> QED
    BY <1>4, <2>1 DEF QuietMove, Moved, Front!Connect
<1>5. ASSUME NEW c \in Client, Settled(c) /\ (Front!Leave(c) \/ Front!Expire(c))
      PROVE  QuietMove(d)
  BY <1>5, Departed, Expired DEF QuietMove
<1>6. ASSUME NEW c \in Client, Front!AcceptCompletes(c)
      PROVE  QuietMove(d)
  <2>1. Moved(c, "accepted")
    BY <1>6, PhaseChanged DEF Front!AcceptCompletes
  <2> QED
    BY <1>6, <2>1 DEF QuietMove, Moved, Front!AcceptCompletes
<1>7. ASSUME NEW c \in Client, Front!WriteFails(c)
      PROVE  QuietMove(d)
  <2>1. Moved(c, "writeError")
    BY <1>7, PhaseChanged DEF Front!WriteFails
  <2> QED
    BY <1>7, <2>1 DEF QuietMove, Moved, Front!WriteFails
<1>8. ASSUME NEW c \in Client, Front!ReadFails(c)
      PROVE  QuietMove(d)
  <2>1. Moved(c, "readError")
    BY <1>8, PhaseChanged DEF Front!ReadFails
  <2> QED
    BY <1>8, <2>1 DEF QuietMove, Moved, Front!ReadFails
<1>9. ASSUME NEW w \in Worker, Front!OnAccept(w)
      PROVE  QuietMove(d)
  <2>1. PICK c \in Client : session[c].phase = "accepted" /\ session' = [session EXCEPT ![c] = Front!Reading(c)]
    BY <1>9 DEF Front!OnAccept, Front!Phases
  <2> QED
    BY <2>1, ReadsAgain DEF QuietMove
<1>10. ASSUME NEW w \in Worker,
              Front!OnAcceptThrows(w) \/ Front!OnAcceptError(w) \/ Front!CheckStopping(w) \/ Front!Rearm(w) \/ Front!LeaveRun(w)
       PROVE  QuietMove(d)
  BY <1>10 DEF QuietMove, Front!OnAcceptThrows, Front!OnAcceptError, Front!CheckStopping, Front!Rearm, Front!LeaveRun
<1>11. ASSUME NEW w \in Worker, NEW c \in Client, Front!OnRead(w, c)
       PROVE  QuietMove(d)
  <2>1. Moved(c, "handling")
    BY <1>11, PhaseChanged DEF Front!OnRead
  <2> QED
    BY <1>11, <2>1 DEF QuietMove, Moved, Front!OnRead
<1>12. ASSUME NEW w \in Worker, NEW c \in Client, Front!OnReadError(w, c)
       PROVE  QuietMove(d)
  BY <1>0, <1>12, Closed DEF QuietMove, Front!OnReadError
<1>13. ASSUME NEW w \in Worker, NEW c \in Client, Front!OnWrite(w, c)
       PROVE  QuietMove(d)
  <2>1. CASE session[c].phase = "written" /\ session' = [session EXCEPT ![c] = Front!Reading(c)]
    BY <2>1, ReadsAgain DEF QuietMove
  <2>2. CASE session[c].phase \in {"written", "writeError"} /\ session' = [session EXCEPT ![c] = Front!NoSession]
    BY <1>0, <2>2, Closed DEF QuietMove
  <2> QED
    BY <1>13, <2>1, <2>2 DEF Front!OnWrite
<1>14. ASSUME NEW w \in Worker,
              \/ Front!OnAccept(w) \/ Front!OnAcceptThrows(w) \/ Front!OnAcceptError(w)
              \/ Front!CheckStopping(w) \/ Front!Rearm(w) \/ Front!LeaveRun(w)
              \/ \E c \in Client : Front!HandlesSession(w, c)
       PROVE  QuietMove(d)
  BY <1>9, <1>10, <1>11, <1>12, <1>13, <1>14 DEF Front!HandlesSession
<1> QED
  BY <1>1, <1>2, <1>3, <1>4, <1>5, <1>6, <1>7, <1>8, <1>14 DEF Quiet

(* All that a quiet step does to the server: it ends only if it was told   *)
(* to stop, and dies only of a client that is gone.                        *)
LEMMA QuietServer ==
  ASSUME F!Types, Tidy, Quiet
  PROVE  /\ acceptFailed' = acceptFailed /\ stopping' = stopping
         /\ Front!Running
         /\ mainPc' = "exited" => stopping
         /\ mainPc' = "terminated" =>
              session' = session /\ \E d \in Client : session[d].phase = "accepted" /\ session[d].gone
         /\ mainPc' \in {"close", "stop", "join"} => stopping
         /\ ioStopped' /\ ~woken' => stopping
<1>0. Front!Running <=> mainPc \notin {"exited", "terminated"}
  BY DEF Front!Running
<1>1. CASE \/ Front!Listen \/ Front!Accept \/ Front!RunWorkers
           \/ Front!CloseAcceptor \/ Front!StopContext \/ Front!JoinWorkers
  BY <1>0, <1>1 DEF Tidy, Front!Listen, Front!Accept, Front!RunWorkers, Front!CloseAcceptor, Front!StopContext,
                    Front!JoinWorkers, Front!StartAfter
<1>2. ASSUME NEW c \in Client,
             Front!Connect(c) \/ Front!Leave(c) \/ Front!AcceptCompletes(c) \/ Front!WriteFails(c) \/ Front!ReadFails(c) \/ Front!Expire(c)
      PROVE  Front!Running /\ UNCHANGED <<mainPc, stopping, acceptFailed, ioStopped, woken>>
  BY <1>2 DEF Front!Connect, Front!Leave, Front!AcceptCompletes, Front!WriteFails, Front!ReadFails, Front!Expire,
              Front!Polling, Front!server
<1>3. ASSUME NEW w \in Worker, Front!OnAccept(w) \/ Front!OnAcceptError(w) \/ Front!CheckStopping(w) \/ Front!Rearm(w)
      PROVE  Front!Running /\ UNCHANGED <<mainPc, stopping, acceptFailed, ioStopped, woken>>
  BY <1>3 DEF Front!OnAccept, Front!OnAcceptError, Front!CheckStopping, Front!Rearm, Front!Runs
<1>4. ASSUME NEW w \in Worker, Front!OnAcceptThrows(w)
      PROVE  /\ Front!Running /\ UNCHANGED <<stopping, acceptFailed, ioStopped, woken, session>>
             /\ mainPc' = "terminated"
             /\ \E d \in Client : session[d].phase = "accepted" /\ session[d].gone
  BY <1>4 DEF Front!OnAcceptThrows, Front!Runs, Front!Phases
<1>5. ASSUME NEW w \in Worker, Front!LeaveRun(w)
      PROVE  /\ Front!Running /\ UNCHANGED <<mainPc, stopping, acceptFailed>>
             /\ ~woken' => ioStopped /\ ~woken
  BY <1>5 DEF Front!LeaveRun
<1>6. ASSUME NEW w \in Worker, NEW c \in Client, Front!HandlesSession(w, c)
      PROVE  Front!Running /\ UNCHANGED <<mainPc, stopping, acceptFailed, ioStopped, woken>>
  BY <1>6 DEF Front!HandlesSession, Front!OnRead, Front!OnReadError, Front!OnWrite, Front!Runs, Front!server
<1>7. CASE Front!Running /\ UNCHANGED <<mainPc, stopping, acceptFailed, ioStopped, woken>>
  BY <1>0, <1>7 DEF Tidy
<1>8. CASE \E w \in Worker : Front!OnAcceptThrows(w)
  BY <1>4, <1>8 DEF Tidy
<1>9. CASE \E w \in Worker : Front!LeaveRun(w)
  BY <1>0, <1>5, <1>9 DEF Tidy
<1> QED
  BY <1>1, <1>2, <1>3, <1>6, <1>7, <1>8, <1>9 DEF Quiet

(* What a fault in front does, other than a kill.                          *)
MishapMove ==
  \/ /\ session' = session
     /\ \/ mainPc' = "exited" /\ UNCHANGED <<stopping, acceptFailed, ioStopped, woken>>
        \/ mainPc' = "terminated" /\ UNCHANGED <<stopping, acceptFailed, ioStopped, woken>>
        \/ UNCHANGED <<mainPc, stopping, ioStopped, woken>>
        \/ stopping' /\ mainPc' = "close" /\ UNCHANGED <<acceptFailed, ioStopped, woken>>
  \/ /\ UNCHANGED <<mainPc, stopping, acceptFailed, ioStopped, woken>>
     /\ \E c \in Client :
          /\ ~Settled(c)
          /\ session'[c].response = session[c].response
          /\ \/ session'[c].phase = session[c].phase /\ session[c].phase # "none"
             \/ session'[c].phase = "readError" /\ session[c].phase = "reading"
          /\ \/ session'[c].late = session[c].late
             \/ session'[c].gone = session[c].gone /\ session[c].phase \notin {"backlog", "accepted"}
          /\ \A d \in Client \ {c} : session'[d] = session[d]

(* All that a mishap does.                                                 *)
LEMMA MishapMoves ==
  ASSUME F!Types, Mishap
  PROVE  MishapMove /\ Front!Running
<1>1. CASE Front!ListenFails \/ Front!RunWorkersFails \/ Front!AcceptFails \/ Front!Signal
  BY <1>1 DEF MishapMove, Front!ListenFails, Front!RunWorkersFails, Front!AcceptFails, Front!Signal, Front!Polling, Front!Running
<1>2. ASSUME NEW c \in Client, ~Settled(c), Front!Leave(c)
      PROVE  MishapMove /\ Front!Running
  <2>1. UNCHANGED <<mainPc, stopping, acceptFailed, ioStopped, woken>> /\ Front!Running
    BY <1>2 DEF Front!Leave, Front!server
  <2> QED
    BY <1>2, <2>1, Departed DEF MishapMove
<1>3. ASSUME NEW c \in Client, ~Settled(c), Front!Expire(c)
      PROVE  MishapMove /\ Front!Running
  <2>1. UNCHANGED <<mainPc, stopping, acceptFailed, ioStopped, woken>> /\ Front!Running
    BY <1>3 DEF Front!Expire, Front!server
  <2> QED
    BY <1>3, <2>1, Expired DEF MishapMove
<1>4. ASSUME NEW c \in Client, ~Settled(c), Front!ReadFails(c)
      PROVE  MishapMove /\ Front!Running
  <2>1. UNCHANGED <<mainPc, stopping, acceptFailed, ioStopped, woken>> /\ Front!Running
    BY <1>4 DEF Front!ReadFails, Front!server, Front!Polling
  <2>2. Moved(c, "readError") /\ session[c].phase = "reading"
    BY <1>4, PhaseChanged DEF Front!ReadFails
  <2> QED
    BY <1>4, <2>1, <2>2 DEF MishapMove, Moved
<1> QED
  BY <1>1, <1>2, <1>3, <1>4 DEF Mishap

-----------------------------------------------------------------------------
(***************************************************************************)
(* The books                                                               *)
(***************************************************************************)
(* Every step keeps the books.                                             *)
LEMMA BooksNext ==
  ASSUME F!Inv, Books, [Next]_vars
  PROVE  Books'
<1>1. ASSUME NEW w \in Worker, NEW c \in Client, Handle(w, c)
      PROVE  Books'
  <2> DEFINE n == session'[c].copies
  <2>1. n \in Nat
    BY <1>1, HandleEffect DEF Handle
  <2>2. accepted' = accepted \cup ({c} \X (Cardinality(Copies(c)) + 1 .. Cardinality(Copies(c)) + n))
    BY <1>1 DEF Handle
  <2>3. IsFiniteSet(accepted')
    BY <2>1, <2>2, CopiesAdded DEF Books
  <2>4. faults' \in Nat
    <3>1. (IF session'[c].response.status \in {500, 503} THEN 1 ELSE 0) + (IF n > 1 THEN n - 1 ELSE 0) \in Nat
      BY <2>1
    <3> QED
      BY <1>1, <3>1 DEF Handle, Fault, Books
  <2> QED
    BY <1>1, <2>3, <2>4 DEF Books, Handle, clients
<1>2. ASSUME NEW c \in Client, Send(c)
      PROVE  Books'
  BY <1>2 DEF Books, Send, back
<1>3. ASSUME NEW c \in Client, Answer(c)
      PROVE  Books'
  <2>1. session[c].response.status \in Nat
    BY DEF F!Inv, F!Types, F!Session, F!Response
  <2> QED
    BY <1>3, <2>1 DEF Books, Answer, back
<1>4. CASE FrontStep \/ FrontMishap \/ Kill \/ Restart
  <2>1. UNCHANGED <<accepted, attempts, answer>> /\ faults' \in Nat
    BY <1>4 DEF FrontStep, FrontMishap, Kill, Restart, Fault, back, clients, Books
  <2> QED
    BY <2>1 DEF Books
<1>5. CASE BackStep \/ NewReceiver \/ Quiescent \/ UNCHANGED vars
  <2>1. UNCHANGED <<accepted, attempts, answer>> /\ faults' \in Nat
    BY <1>5 DEF BackStep, Acknowledge, Take, NewReceiver, Quiescent, Back!Acknowledge, Back!Take, Back!NewReceiver,
                Fault, vars, back, clients, Books
  <2> QED
    BY <2>1 DEF Books
<1> QED
  BY <1>1, <1>2, <1>3, <1>4, <1>5 DEF Next

(* A client that is answered sends no more.                                *)
LEMMA TidyNext ==
  ASSUME F!Inv, Books, Tidy, [Next]_vars
  PROVE  Tidy'
<1>0. F!Types /\ \A c \in Client : TidyClient(c)
  BY DEF F!Inv, Tidy
<1>1. CASE FrontStep
  <2>1. Quiet /\ UNCHANGED <<answer, attempts>>
    BY <1>1 DEF FrontStep, clients
  <2>2. ASSUME NEW d \in Client
        PROVE  TidyClient(d)'
    <3>1. TidyClient(d) /\ QuietMove(d)
      BY <1>0, <2>1, QuietMoves
    <3>2. (Settled(d)' <=> Settled(d)) /\ (Answered(d)' <=> Answered(d)) /\ (Answered(d) => Settled(d))
      BY <2>1 DEF Settled, Answered
    <3>3. session'[d].phase = "none" => ~session'[d].gone
      BY <3>1 DEF TidyClient, QuietMove
    <3>4. session'[d].phase \in {"backlog", "accepted"} => ~Settled(d)
      BY <3>1 DEF TidyClient, QuietMove
    <3>5. Answered(d) => session'[d].phase \notin {"backlog", "accepted", "read", "handling", "writing"}
      BY <3>1, <3>2 DEF TidyClient, QuietMove
    <3> QED
      BY <3>2, <3>3, <3>4, <3>5 DEF TidyClient
  <2> QED
    BY <1>0, <2>1, <2>2, QuietServer DEF Tidy
<1>2. CASE FrontMishap
  <2>1. MishapMove /\ UNCHANGED <<answer, attempts>>
    BY <1>0, <1>2, MishapMoves DEF FrontMishap, clients
  <2>2. ASSUME NEW d \in Client
        PROVE  TidyClient(d)'
    <3>1. TidyClient(d)
      BY <1>0
    <3>2. (Settled(d)' <=> Settled(d)) /\ (Answered(d)' <=> Answered(d)) /\ (Answered(d) => Settled(d))
      BY <2>1 DEF Settled, Answered
    <3> QED
      BY <2>1, <3>1, <3>2 DEF TidyClient, MishapMove
  <2>3. (ioStopped' /\ ~woken' => stopping') /\ (mainPc' \in {"close", "stop", "join"} => stopping')
    BY <2>1 DEF MishapMove, Tidy
  <2> QED
    BY <2>2, <2>3 DEF Tidy
<1>3. CASE Kill
  BY <1>3 DEF Kill, Tidy, TidyClient, Settled, Answered, clients
<1>4. CASE Restart
  BY <1>4, Closed DEF Restart, Tidy, TidyClient, Settled, Answered, clients
<1>5. ASSUME NEW c \in Client, Send(c)
      PROVE  Tidy'
  <2>1. UNCHANGED <<mainPc, stopping, ioStopped, woken, answer>> /\ ~Settled(c)
    BY <1>5 DEF Send, Front!ReadCompletes, Front!server
  <2>2. TidyClient(c)'
    BY <1>0, <1>5, <2>1, Requested DEF TidyClient, Send, Settled, Answered
  <2>3. ASSUME NEW d \in Client \ {c}
        PROVE  TidyClient(d)'
    BY <1>0, <1>5, <2>1, Requested DEF TidyClient, Send, Settled, Answered, Books
  <2> QED
    BY <2>1, <2>2, <2>3 DEF Tidy
<1>6. ASSUME NEW c \in Client, Answer(c)
      PROVE  Tidy'
  <2>1. UNCHANGED <<mainPc, stopping, ioStopped, woken, attempts>> /\ Moved(c, "written")
    BY <1>0, <1>6, PhaseChanged DEF Answer, Front!WriteCompletes, Front!server
  <2>2. TidyClient(c)'
    BY <2>1 DEF TidyClient, Moved
  <2>3. ASSUME NEW d \in Client \ {c}
        PROVE  TidyClient(d)'
    BY <1>0, <1>6, <2>1 DEF TidyClient, Answer, Moved, Settled, Answered, Books
  <2> QED
    BY <2>1, <2>2, <2>3 DEF Tidy
<1>7. ASSUME NEW w \in Worker, NEW c \in Client, Handle(w, c)
      PROVE  Tidy'
  <2>1. UNCHANGED <<mainPc, stopping, ioStopped, woken, answer, attempts>> /\ Front!HandleRequest(w, c)
    BY <1>7 DEF Handle, Front!HandleRequest, clients
  <2>2. TidyClient(c)'
    BY <1>0, <2>1, HandleEffect DEF TidyClient, Answered
  <2>3. ASSUME NEW d \in Client \ {c}
        PROVE  TidyClient(d)'
    BY <1>0, <2>1, HandleEffect DEF TidyClient, Settled, Answered
  <2> QED
    BY <2>1, <2>2, <2>3 DEF Tidy
<1>8. CASE BackStep \/ NewReceiver \/ Quiescent \/ UNCHANGED vars
  BY <1>8 DEF BackStep, Acknowledge, Take, NewReceiver, Quiescent, vars, front, clients, Tidy, TidyClient, Settled, Answered
<1> QED
  BY <1>1, <1>2, <1>3, <1>4, <1>5, <1>6, <1>7, <1>8 DEF Next

(* A response of 202 is not under way before the message is stored, and    *)
(* what is stored leaves the storage only when it was taken.               *)
LEMMA KeptNext ==
  ASSUME F!Inv, Books, Tidy, Kept, [Next]_vars
  PROVE  Kept'
<1>0. F!Types /\ \A c \in Client : KeptClient(c)
  BY DEF F!Inv, Kept
<1>1. CASE FrontStep
  <2>1. Quiet /\ UNCHANGED <<answer, pending, accepted, taken, delivered>>
    BY <1>1 DEF FrontStep, clients, back
  <2>2. ASSUME NEW d \in Client
        PROVE  KeptClient(d)'
    BY <1>0, <2>1, QuietMoves DEF KeptClient, QuietMove, Copies
  <2> QED
    BY <2>1, <2>2 DEF Kept
<1>2. CASE FrontMishap
  <2>1. MishapMove /\ UNCHANGED <<answer, pending, accepted, taken, delivered>>
    BY <1>0, <1>2, MishapMoves DEF FrontMishap, clients, back
  <2>2. ASSUME NEW d \in Client
        PROVE  KeptClient(d)'
    BY <1>0, <2>1 DEF KeptClient, MishapMove, Copies
  <2> QED
    BY <2>1, <2>2 DEF Kept
<1>3. CASE Kill
  BY <1>3 DEF Kill, Kept, KeptClient, Copies, clients, back
<1>4. CASE Restart
  BY <1>4, Closed DEF Restart, Kept, KeptClient, Copies, clients, back
<1>5. ASSUME NEW c \in Client, Send(c)
      PROVE  Kept'
  <2>1. UNCHANGED <<answer, pending, accepted, taken, delivered>>
    BY <1>5 DEF Send, back
  <2>2. ASSUME NEW d \in Client
        PROVE  KeptClient(d)'
    BY <1>0, <1>5, <2>1, Requested DEF KeptClient, Send, Copies
  <2> QED
    BY <2>1, <2>2 DEF Kept
<1>6. ASSUME NEW c \in Client, Answer(c)
      PROVE  Kept'
  <2>1. UNCHANGED <<pending, accepted, taken, delivered>> /\ Moved(c, "written") /\ session[c].phase = "writing"
    BY <1>0, <1>6, PhaseChanged DEF Answer, Front!WriteCompletes, back
  <2>2. \A d \in Client : answer'[d] = answer[d] \/ (d = c /\ answer'[d] = session[d].response.status)
    BY <1>6 DEF Answer, Books
  <2>3. ASSUME NEW d \in Client
        PROVE  KeptClient(d)'
    BY <1>0, <2>1, <2>2 DEF KeptClient, Moved, Copies
  <2> QED
    BY <2>1, <2>3 DEF Kept
<1>7. ASSUME NEW w \in Worker, NEW c \in Client, Handle(w, c)
      PROVE  Kept'
  <2> DEFINE n == session'[c].copies
  <2> DEFINE new == {c} \X (Cardinality(Copies(c)) + 1 .. Cardinality(Copies(c)) + n)
  <2>1. /\ pending' = pending \cup new /\ accepted' = accepted \cup new
        /\ UNCHANGED <<taken, delivered, answer>> /\ Front!HandleRequest(w, c)
    BY <1>7 DEF Handle, clients
  <2>2. n \in Nat /\ (session'[c].response.status = 202 => n > 0) /\ \A d \in Client \ {c} : session'[d] = session[d]
    BY <2>1, HandleEffect
  <2>3. (n > 0 => Copies(c)' # {}) /\ \A d \in Client \ {c} : Copies(d)' = Copies(d)
    BY <2>1, <2>2, CopiesAdded DEF Books
  <2> HIDE DEF new
  <2>4. Copies(c) \subseteq Copies(c)'
    BY <2>1 DEF Copies
  <2>5. KeptClient(c)'
    BY <1>0, <2>1, <2>2, <2>3, <2>4 DEF KeptClient
  <2>6. ASSUME NEW d \in Client \ {c}
        PROVE  KeptClient(d)'
    BY <1>0, <2>1, <2>2, <2>3 DEF KeptClient
  <2>7. accepted' \subseteq pending' \cup delivered' /\ taken' \subseteq delivered'
    BY <2>1 DEF Kept
  <2> QED
    BY <2>5, <2>6, <2>7 DEF Kept
<1>8. CASE BackStep
  <2>1. UNCHANGED <<session, answer, accepted>>
    BY <1>8 DEF BackStep, Acknowledge, Take, Back!Acknowledge, Back!Take, front, clients
  <2>2. \A d \in Client : KeptClient(d)'
    BY <1>0, <2>1 DEF KeptClient, Copies
  <2>3. accepted' \subseteq pending' \cup delivered' /\ taken' \subseteq delivered'
    BY <1>8 DEF BackStep, Acknowledge, Take, Back!Acknowledge, Back!Take, Kept
  <2> QED
    BY <2>2, <2>3 DEF Kept
<1>9. CASE NewReceiver \/ Quiescent \/ UNCHANGED vars
  BY <1>9 DEF NewReceiver, Quiescent, Back!NewReceiver, vars, front, clients, back, Kept, KeptClient, Copies
<1> QED
  BY <1>1, <1>2, <1>3, <1>4, <1>5, <1>6, <1>7, <1>8, <1>9 DEF Next

-----------------------------------------------------------------------------
(***************************************************************************)
(* The ledgers: copies against faults                                      *)
(***************************************************************************)
(* A step that charges as many faults as it takes away keeps the ledger.   *)
LEMMA Balanced ==
  ASSUME NEW c \in Client, Books, Ledger(c), Copies(c)' = Copies(c),
         faults' \in Nat, faults <= faults',
         Settled(c) => Settled(c)',
         session'[c].phase \in {"read", "handling"} =>
           session[c].phase \in {"read", "handling"} \/ (~Settled(c) /\ ~Underway(c)),
         ~Settled(c)' => Open(c)' + Credit(c) + faults <= Open(c) + Credit(c)' + faults'
  PROVE  Ledger(c)'
<1> DEFINE k == Cardinality(Copies(c))
<1>1. k \in Nat /\ Cardinality(Copies(c)') = k
  BY FS_Subset, FS_CardinalityType DEF Copies, Books
<1> HIDE DEF k
<1>2. /\ k <= faults + 1
      /\ session[c].phase \in {"read", "handling"} => k <= faults
      /\ ~Settled(c) => k + Open(c) <= faults + Credit(c)
  BY DEF Ledger, k
<1>3. faults \in Nat
  BY DEF Books
<1>4. /\ Open(c) \in Nat /\ Open(c)' \in Nat /\ Credit(c) \in {0, 1} /\ Credit(c)' \in {0, 1}
      /\ Credit(c) = 1 <=> Underway(c)
  BY DEF Open, Credit
<1>5. session'[c].phase \in {"read", "handling"} => k <= faults'
  BY <1>1, <1>2, <1>3, <1>4
<1>6. ~Settled(c)' => k + Open(c)' <= faults' + Credit(c)'
  BY <1>1, <1>2, <1>3, <1>4
<1>7. k <= faults' + 1
  BY <1>1, <1>2, <1>3
<1> QED
  BY <1>1, <1>5, <1>6, <1>7 DEF Ledger

(* A quiet step loses a response only after a fault was counted.           *)
LEMMA LedgerQuiet ==
  ASSUME F!Inv, Books, Tidy, NEW d \in Client, Ledger(d), FrontStep
  PROVE  Ledger(d)'
<1>0. F!Types /\ \A c \in Client : TidyClient(c)
  BY DEF F!Inv, Tidy
<1>1. Quiet /\ UNCHANGED <<answer, attempts, accepted, faults>>
  BY DEF FrontStep, back, clients
<1>2. /\ acceptFailed' = acceptFailed /\ stopping' = stopping
      /\ Front!Running
      /\ mainPc' = "exited" => stopping
      /\ mainPc' = "terminated" =>
           session' = session /\ \E e \in Client : session[e].phase = "accepted" /\ session[e].gone
  BY <1>0, <1>1, QuietServer
<1>3. \A e \in Client : QuietMove(e)
  BY <1>0, <1>1, QuietMoves
<1>4. session'[d].phase \in {"read", "handling"} => session[d].phase \in {"read", "handling"}
  BY <1>3 DEF QuietMove
<1>5. ~Settled(d) => Open(d)' + Credit(d) <= Open(d) + Credit(d)'
  <2> SUFFICES ASSUME ~Settled(d)
               PROVE  Open(d)' + Credit(d) <= Open(d) + Credit(d)'
    OBVIOUS
  <2>1. CASE mainPc' = "exited"
    <3>1. ~Doomed(d)' /\ ~Own(d)' /\ Doomed(d)
      BY <1>2, <2>1 DEF Doomed, Own, Front!Running
    <3> QED
      BY <3>1 DEF Open, Credit
  <2>2. CASE mainPc' = "terminated"
    <3>1. Doomed(d) \/ Own(d)
      BY <1>2, <2>2 DEF Doomed, Own
    <3>2. ~Own(d)' /\ (Underway(d) => Underway(d)')
      BY <1>2, <2>2 DEF Own, Underway, Front!Running
    <3> QED
      BY <3>1, <3>2 DEF Open, Credit
  <2>3. CASE mainPc' \notin {"exited", "terminated"}
    <3>1. Doomed(d)' => Doomed(d)
      <4>1. ASSUME NEW e \in Client, session'[e].phase \in {"backlog", "accepted"} /\ session'[e].gone
            PROVE  session[e].phase \in {"backlog", "accepted"} /\ session[e].gone
        <5>1. QuietMove(e) /\ TidyClient(e)
          BY <1>0, <1>3
        <5> QED
          BY <2>3, <4>1, <5>1 DEF QuietMove, TidyClient
      <4> QED
        BY <1>2, <2>3, <4>1 DEF Doomed
    <3>2. QuietMove(d) /\ TidyClient(d)
      BY <1>0, <1>3
    <3>3. Own(d)' => Own(d)
      BY <1>2, <2>3, <3>2 DEF Own, QuietMove, TidyClient
    <3>4. Underway(d) /\ ~Underway(d)' => Own(d) /\ ~Own(d)'
      BY <1>2, <2>3, <3>2 DEF Own, QuietMove, Underway
    <3> QED
      BY <3>1, <3>3, <3>4 DEF Open, Credit
  <2> QED
    BY <2>1, <2>2, <2>3
<1>6. Copies(d)' = Copies(d) /\ (Settled(d)' <=> Settled(d)) /\ faults' = faults /\ faults \in Nat
  BY <1>1 DEF Copies, Settled, Books
<1>7. Open(d) \in Nat /\ Open(d)' \in Nat /\ Credit(d) \in Nat /\ Credit(d)' \in Nat
  BY DEF Open, Credit
<1>8. ~Settled(d)' => Open(d)' + Credit(d) + faults <= Open(d) + Credit(d)' + faults'
  BY <1>5, <1>6, <1>7
<1> QED
  BY <1>4, <1>6, <1>8, Balanced

(* A mishap is counted, and costs each client one response at most.        *)
LEMMA LedgerMishap ==
  ASSUME F!Inv, Books, Tidy, NEW d \in Client, Ledger(d), FrontMishap
  PROVE  Ledger(d)'
<1>1. MishapMove /\ Front!Running
  BY MishapMoves DEF F!Inv, FrontMishap
<1>2. UNCHANGED <<answer, attempts, accepted>> /\ faults \in Nat /\ faults' = faults + 1
  BY DEF FrontMishap, back, clients, Fault, Books
<1>3. Copies(d)' = Copies(d) /\ (Settled(d)' <=> Settled(d))
  BY <1>2 DEF Copies, Settled
<1>4. session'[d].phase \in {"read", "handling"} => session[d].phase \in {"read", "handling"}
  BY <1>1 DEF MishapMove
<1>5. Open(d)' + Credit(d) <= Open(d) + Credit(d)' + 1
  <2>1. CASE mainPc' = "exited"
    <3>1. ~Doomed(d)' /\ ~Own(d)'
      BY <2>1 DEF Doomed, Own, Front!Running
    <3> QED
      BY <3>1 DEF Open, Credit
  <2>2. CASE mainPc' # "exited" /\ session' = session
    <3>1. Own(d)' => Own(d)
      BY <1>1, <2>2 DEF Own, Front!Running
    <3>2. Underway(d) => Underway(d)'
      BY <2>2 DEF Underway
    <3> QED
      BY <3>1, <3>2 DEF Open, Credit
  <2>3. CASE UNCHANGED <<mainPc, stopping, acceptFailed>> /\ session' # session
    <3>1. PICK c \in Client :
            /\ session'[c].response = session[c].response
            /\ session'[c].phase = session[c].phase \/ (session'[c].phase = "readError" /\ session[c].phase = "reading")
            /\ \A e \in Client \ {c} : session'[e] = session[e]
      BY <1>1, <2>3 DEF MishapMove
    <3>2. Underway(d) => Underway(d)'
      BY <2>3, <3>1 DEF Underway
    <3>3. c = d => (Doomed(d)' => Doomed(d))
      BY <2>3, <3>1 DEF Doomed, Front!Running
    <3>4. c # d => (Own(d)' => Own(d))
      BY <2>3, <3>1 DEF Own, Front!Running
    <3> QED
      BY <3>2, <3>3, <3>4 DEF Open, Credit
  <2> QED
    BY <1>1, <2>1, <2>2, <2>3 DEF MishapMove
<1>6. Open(d) \in Nat /\ Open(d)' \in Nat /\ Credit(d) \in Nat /\ Credit(d)' \in Nat
  BY DEF Open, Credit
<1>7. Open(d)' + Credit(d) + faults <= Open(d) + Credit(d)' + faults'
  BY <1>2, <1>5, <1>6
<1>8. faults' \in Nat /\ faults <= faults'
  BY <1>2
<1> QED
  BY <1>3, <1>4, <1>7, <1>8, Balanced

(* A kill costs each client one response at most; that of a useless        *)
(* process none that was not counted before.                               *)
LEMMA LedgerKill ==
  ASSUME Books, Tidy, NEW d \in Client, Ledger(d), Kill
  PROVE  Ledger(d)'
<1>1. UNCHANGED <<answer, attempts, accepted, session>> /\ faults \in Nat
  BY DEF Kill, clients, back, Books
<1>2. faults' = faults + (IF Useless THEN 0 ELSE 1) /\ mainPc' = "terminated" /\ Front!Running
  BY DEF Kill, Fault
<1>3. Copies(d)' = Copies(d) /\ (Settled(d)' <=> Settled(d))
  BY <1>1 DEF Copies, Settled
<1>4. ~Own(d)' /\ (Underway(d) => Underway(d)')
  BY <1>1, <1>2 DEF Own, Underway, Front!Running
<1>5. Useless => Doomed(d)
  BY <1>2 DEF Useless, Doomed, Tidy
<1>6. Open(d)' + Credit(d) + faults <= Open(d) + Credit(d)' + faults'
  BY <1>1, <1>2, <1>4, <1>5 DEF Open, Credit
<1>7. faults' \in Nat /\ faults <= faults'
  BY <1>1, <1>2
<1> QED
  BY <1>1, <1>3, <1>6, <1>7, Balanced

(* All that was open is lost with the process, and counted.                *)
LEMMA LedgerRestart ==
  ASSUME Books, NEW d \in Client, Ledger(d), Restart
  PROVE  Ledger(d)'
<1>1. UNCHANGED <<answer, attempts, accepted, faults>> /\ faults \in Nat
  BY DEF Restart, clients, back, Books
<1>2. mainPc \in {"exited", "terminated"} /\ mainPc' = "listen" /\ stopping' = FALSE /\ acceptFailed' = FALSE
  BY DEF Restart, Front!Running
<1>3. \A e \in Client : session'[e].phase = "none"
  BY Closed DEF Restart
<1>4. Copies(d)' = Copies(d) /\ (Settled(d)' <=> Settled(d))
  BY <1>1 DEF Copies, Settled
<1>5. ~Doomed(d)' /\ ~Own(d)' /\ ~Underway(d)'
  BY <1>2, <1>3 DEF Doomed, Own, Underway
<1>6. Underway(d) => Doomed(d)
  BY <1>2 DEF Underway, Doomed
<1>7. Open(d)' + Credit(d) + faults <= Open(d) + Credit(d)' + faults'
  BY <1>1, <1>5, <1>6 DEF Open, Credit
<1> QED
  BY <1>1, <1>3, <1>4, <1>7, Balanced

(* A step that does nothing to a client.                                   *)
LEMMA LedgerSame ==
  ASSUME Books, NEW d \in Client, Ledger(d), faults' \in Nat, faults <= faults',
         Copies(d)' = Copies(d), Settled(d) <=> Settled(d)', session'[d] = session[d],
         Doomed(d)' => Doomed(d), UNCHANGED mainPc
  PROVE  Ledger(d)'
<1>1. (Own(d)' => Own(d)) /\ (Underway(d) => Underway(d)') /\ faults \in Nat
  BY DEF Own, Underway, Front!Running, Books
<1>2. Open(d)' + Credit(d) + faults <= Open(d) + Credit(d)' + faults'
  BY <1>1 DEF Open, Credit
<1> QED
  BY <1>2, Balanced

(* A client sends again only after a fault for each copy there is.         *)
LEMMA LedgerSend ==
  ASSUME F!Inv, Books, NEW c \in Client, Send(c), NEW d \in Client, Ledger(d)
  PROVE  Ledger(d)'
<1>1. UNCHANGED <<answer, accepted, faults, mainPc, stopping, acceptFailed>> /\ faults \in Nat /\ ~Settled(c)
  BY DEF Send, back, Books, Front!ReadCompletes, Front!server
<1>2. /\ session[c].phase = "reading" /\ session'[c].phase = "read" /\ ~session[c].gone
      /\ session'[c].late = session[c].late /\ session'[c].gone = session[c].gone
      /\ \A e \in Client \ {c} : session'[e] = session[e]
  BY Requested DEF Send, F!Inv
<1>3. Copies(d)' = Copies(d)
  BY <1>1 DEF Copies
<1>4. Doomed(d)' => Doomed(d)
  BY <1>1, <1>2 DEF Doomed, Front!Running
<1>5. CASE d # c
  <2>1. attempts'[d] = attempts[d]
    BY <1>5 DEF Send, Books
  <2>2. Settled(d) <=> Settled(d)'
    BY <1>1, <2>1 DEF Settled
  <2> QED
    BY <1>1, <1>2, <1>3, <1>4, <1>5, <2>2, LedgerSame
<1>6. CASE d = c
  <2>1. ~Underway(d) /\ (Own(d)' => Own(d))
    BY <1>1, <1>2, <1>6 DEF Underway, Own, Front!Running
  <2>2. Open(d)' + Credit(d) + faults <= Open(d) + Credit(d)' + faults'
    BY <1>1, <1>4, <2>1 DEF Open, Credit
  <2> QED
    BY <1>1, <1>2, <1>3, <1>6, <2>1, <2>2, Balanced
<1> QED
  BY <1>5, <1>6

(* A client that reads 202 is settled; one that is gone had its fault      *)
(* counted when it left.                                                   *)
LEMMA LedgerAnswer ==
  ASSUME F!Inv, Books, Tidy, NEW c \in Client, Answer(c), NEW d \in Client, Ledger(d)
  PROVE  Ledger(d)'
<1>1. UNCHANGED <<attempts, accepted, faults, mainPc, stopping, acceptFailed>> /\ faults \in Nat /\ Front!Running
  BY DEF Answer, back, Books, Front!WriteCompletes, Front!server, Front!Polling
<1>2. Moved(c, "written") /\ session[c].phase = "writing"
  BY PhaseChanged DEF Answer, Front!WriteCompletes, F!Inv
<1>3. Copies(d)' = Copies(d)
  BY <1>1 DEF Copies
<1>4. Doomed(d)' => Doomed(d)
  BY <1>1, <1>2 DEF Doomed, Front!Running, Moved
<1>5. CASE d # c
  <2>1. answer'[d] = answer[d]
    BY <1>5 DEF Answer, Books
  <2>2. Settled(d) <=> Settled(d)'
    BY <1>1, <2>1 DEF Settled
  <2> QED
    BY <1>1, <1>2, <1>3, <1>4, <1>5, <2>2, LedgerSame DEF Moved
<1>6. CASE d = c
  <2>1. ~Answered(d)
    BY <1>2, <1>6 DEF Tidy, TidyClient
  <2>2. Settled(d) => Settled(d)'
    BY <1>1, <2>1 DEF Settled, Answered
  <2>3. ~Own(d)'
    BY <1>2, <1>6 DEF Own, Moved
  <2>4. ~Settled(d)' => (Underway(d) => Own(d))
    <3>1. ~session[d].gone => answer'[d] = session[d].response.status
      BY <1>6 DEF Answer, Books
    <3> QED
      BY <1>1, <1>2, <1>6, <3>1 DEF Settled, Underway, Own
  <2>5. ~Settled(d)' => Open(d)' + Credit(d) + faults <= Open(d) + Credit(d)' + faults'
    BY <1>1, <1>4, <2>3, <2>4 DEF Open, Credit
  <2> QED
    BY <1>1, <1>2, <1>3, <1>6, <2>2, <2>5, Balanced DEF Moved
<1> QED
  BY <1>5, <1>6

(* The copies of one call but the first are faults, and so is a response   *)
(* that does not tell of the first.                                        *)
LEMMA LedgerHandle ==
  ASSUME F!Inv, Books, NEW w \in Worker, NEW c \in Client, Handle(w, c), NEW d \in Client, Ledger(d)
  PROVE  Ledger(d)'
<1> DEFINE n == session'[c].copies
<1> DEFINE st == session'[c].response.status
<1> DEFINE fee == (IF st \in {500, 503} THEN 1 ELSE 0) + (IF n > 1 THEN n - 1 ELSE 0)
<1>1. /\ session[c].phase = "handling" /\ session'[c].phase = "writing"
      /\ n \in Nat
      /\ st \in {202, 400, 405, 500, 503}
      /\ st = 202 => n > 0
      /\ st \in {400, 405} => n = 0
      /\ session'[c].late = session[c].late /\ session'[c].gone = session[c].gone
      /\ \A e \in Client \ {c} : session'[e] = session[e]
  BY HandleEffect DEF Handle
<1>2. UNCHANGED <<attempts, answer, mainPc, stopping, acceptFailed>> /\ faults \in Nat /\ Front!Running
  BY DEF Handle, clients, Books, Front!HandleRequest
<1>3. faults' = faults + fee
  BY DEF Handle, Fault
<1>4. fee \in Nat /\ n <= fee + (IF st = 202 THEN 1 ELSE 0)
  BY <1>1
<1>5. accepted' = accepted \cup ({c} \X (Cardinality(Copies(c)) + 1 .. Cardinality(Copies(c)) + n))
  BY DEF Handle
<1>6. /\ Cardinality(Copies(c)') \in Nat
      /\ Cardinality(Copies(c)') <= Cardinality(Copies(c)) + n
      /\ \A e \in Client \ {c} : Copies(e)' = Copies(e)
  <2>1. n \in Nat /\ IsFiniteSet(accepted)
    BY <1>1 DEF Books
  <2> HIDE DEF n
  <2> QED
    BY <1>5, <2>1, CopiesAdded, Zenon
<1> HIDE DEF fee, n
<1>7. Settled(d) <=> Settled(d)'
  BY <1>2 DEF Settled
<1>8. Doomed(d)' => Doomed(d)
  BY <1>1, <1>2 DEF Doomed, Front!Running
<1>9. faults' \in Nat /\ faults <= faults'
  BY <1>2, <1>3, <1>4
<1>10. CASE d # c
  BY <1>1, <1>2, <1>6, <1>7, <1>8, <1>9, <1>10, LedgerSame
<1>11. CASE d = c
  <2>1. Cardinality(Copies(c)) \in Nat
    BY FS_Subset, FS_CardinalityType DEF Copies, Books
  <2>2. /\ Cardinality(Copies(c)) <= faults
        /\ ~Settled(c) => Cardinality(Copies(c)) + Open(c) <= faults + Credit(c)
    BY <1>1, <1>11 DEF Ledger
  <2>3. Own(c)' => Own(c)
    BY <1>1, <1>2 DEF Own, Front!Running
  <2>4. Open(c) \in Nat /\ Open(c)' \in Nat /\ Open(c)' <= Open(c)
    BY <1>8, <1>11, <2>3 DEF Open
  <2>5. Credit(c) = 0 /\ Credit(c)' = IF st = 202 THEN 1 ELSE 0
    BY <1>1, <1>2 DEF Credit, Underway, Front!Running
  <2>6. Cardinality(Copies(c)') <= faults' + 1
    BY <1>1, <1>2, <1>3, <1>4, <1>6, <2>1, <2>2
  <2>7. ~Settled(c) => Cardinality(Copies(c)') + Open(c)' <= faults' + Credit(c)'
    BY <1>1, <1>2, <1>3, <1>4, <1>6, <2>1, <2>2, <2>4, <2>5
  <2> QED
    BY <1>1, <1>7, <1>11, <2>6, <2>7 DEF Ledger
<1> QED
  BY <1>10, <1>11

(* Every step keeps every ledger.                                          *)
LEMMA LedgerNext ==
  ASSUME F!Inv, Books, Tidy, AllLedgers, [Next]_vars
  PROVE  AllLedgers'
<1> SUFFICES ASSUME NEW d \in Client
             PROVE  Ledger(d)'
  BY DEF AllLedgers
<1>0. Ledger(d)
  BY DEF AllLedgers
<1>1. CASE BackStep \/ NewReceiver \/ Quiescent \/ UNCHANGED vars
  <2>1. UNCHANGED <<mainPc, session, stopping, acceptFailed, answer, attempts, accepted>>
    BY <1>1 DEF BackStep, Acknowledge, Take, NewReceiver, Quiescent, Back!Acknowledge, Back!Take, Back!NewReceiver,
                vars, front, back, clients
  <2>2. faults' \in Nat /\ faults <= faults'
    BY <1>1 DEF BackStep, Acknowledge, Take, NewReceiver, Quiescent, Fault, vars, Books
  <2>3. Copies(d)' = Copies(d) /\ (Settled(d) <=> Settled(d)') /\ (Doomed(d)' => Doomed(d))
    BY <2>1 DEF Copies, Settled, Doomed, Front!Running
  <2> QED
    BY <1>0, <2>1, <2>2, <2>3, LedgerSame
<1> QED
  BY <1>0, <1>1, LedgerQuiet, LedgerMishap, LedgerKill, LedgerRestart, LedgerSend, LedgerAnswer, LedgerHandle DEF Next

-----------------------------------------------------------------------------
(***************************************************************************)
(* The invariant and the properties                                        *)
(***************************************************************************)
(* The books of the gateway balance in every state it reaches.             *)
THEOREM InvHolds == Spec => []Inv
<1>1. Init => Inv
  <2> SUFFICES ASSUME Init
               PROVE  Inv
    OBVIOUS
  <2>1. Front!Init /\ Back!Init /\ attempts = [c \in Client |-> 0] /\ answer = [c \in Client |-> 0] /\ faults = 0 /\ delivered = {}
    BY DEF Init
  <2>2. accepted = {} /\ taken = {} /\ pending = {}
    BY <2>1 DEF Back!Init
  <2>3. /\ mainPc = "listen" /\ stopping = FALSE /\ ioStopped = FALSE /\ acceptFailed = FALSE
        /\ \A c \in Client : session[c].phase = "none" /\ ~session[c].gone
    BY <2>1, Closed DEF Front!Init
  <2>4. Books
    BY <2>1, <2>2, FS_EmptySet DEF Books
  <2>5. Tidy
    BY <2>1, <2>3 DEF Tidy, TidyClient, Answered
  <2>6. Kept
    BY <2>1, <2>2, <2>3 DEF Kept, KeptClient
  <2>7. ASSUME NEW c \in Client
        PROVE  Ledger(c)
    <3>1. Copies(c) = {} /\ Cardinality(Copies(c)) = 0
      BY <2>2, FS_EmptySet DEF Copies
    <3>2. ~Doomed(c) /\ ~Own(c)
      BY <2>3 DEF Doomed, Own
    <3> QED
      BY <2>1, <2>3, <3>1, <3>2 DEF Ledger, Open, Credit
  <2> QED
    BY <2>4, <2>5, <2>6, <2>7, FrontInvInit DEF Inv, AllLedgers
<1>2. Inv /\ [Next]_vars => Inv'
  BY FrontInvStep, BooksNext, TidyNext, KeptNext, LedgerNext DEF Inv
<1> QED
  BY <1>1, <1>2, PTL DEF Spec

(* A message whose client read 202 is in the storage or was taken by       *)
(* gwback, for any number of clients, workers, attempts and faults.        *)
THEOREM AnsweredKeptAlways == Spec => []AnsweredKept
<1>1. Inv => AnsweredKept
  BY DEF Inv, Kept, KeptClient, AnsweredKept, Copies
<1> QED
  BY <1>1, InvHolds, PTL

(* A message is stored at most once more than faults happened, whoever of  *)
(* gwfront, its clients and its connections fails, and however often.      *)
THEOREM OneDuplicatePerFaultAlways == Spec => []OneDuplicatePerFault
<1>1. Inv => OneDuplicatePerFault
  <2> SUFFICES ASSUME Inv, NEW c \in Client
               PROVE  Cardinality(Copies(c)) <= 1 + faults
    BY DEF OneDuplicatePerFault
  <2>1. Cardinality(Copies(c)) \in Nat /\ faults \in Nat
    BY FS_Subset, FS_CardinalityType DEF Inv, Books, Copies
  <2>2. Cardinality(Copies(c)) <= faults + 1
    BY DEF Inv, AllLedgers, Ledger
  <2> QED
    BY <2>1, <2>2
<1> QED
  BY <1>1, InvHolds, PTL
=============================================================================
