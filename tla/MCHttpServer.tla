--------------------------- MODULE MCHttpServer ---------------------------
(***************************************************************************)
(* Instances of HttpServer for TLC.  The promise is cut down from what    *)
(* RedisWriter and PostgresWriter promise: OK only for a stored message,   *)
(* an error for a stored one and for one that is not.                      *)
(***************************************************************************)
EXTENDS HttpServer, TLC

R(post, path, valid, keepAlive) ==
  [post |-> post, path |-> path, valid |-> valid, keepAlive |-> keepAlive]

AllRequests ==
  {R(TRUE, TRUE, TRUE, TRUE), R(TRUE, TRUE, TRUE, FALSE), R(TRUE, TRUE, FALSE, TRUE),
   R(TRUE, FALSE, TRUE, TRUE), R(FALSE, TRUE, TRUE, TRUE)}
OneRequest == {R(TRUE, TRUE, TRUE, TRUE)}

P(error, copies) == [error |-> error, copies |-> copies]
AnyPromise == {P("OK", 1), P("GENERIC", 1), P("STORAGE_UNAVAILABLE", 0)}
OkPromise == {P("OK", 1)}

Symmetry == Permutations(Worker) \cup Permutations(Client)
=============================================================================
