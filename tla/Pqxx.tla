-------------------------------- MODULE Pqxx --------------------------------
(***************************************************************************)
(* External: the part of libpqxx 6 that gwfront's PostgresWriter and       *)
(* gwback's PostgresProducer see.  A pqxx::connection is "good" when it    *)
(* works and "stale" when it lost its server and does not know.  The       *)
(* statement that finds out throws broken_connection and leaves it "bad";  *)
(* the next transaction on a "bad" one throws again and drops the handle   *)
(* ("null"); the one after that connects anew.                             *)
(***************************************************************************)
Connection == {"good", "stale", "bad", "null"}

(* What a statement leaves: the connection, what it throws, whether it     *)
(* took effect, and whether a fault hit it.                                *)
Outcome(c, throws, done, fault) == [connection |-> c, throws |-> throws, done |-> done, fault |-> fault]

(* pqxx::work and its first statement.  Besides working, it may find the   *)
(* connection broken or refused, or be refused by the server, which rolls  *)
(* the transaction back.                                                   *)
exec(c) ==
  CASE c = "stale" -> {Outcome("bad", "broken_connection", FALSE, FALSE)}
    [] c = "bad" -> {Outcome("null", "broken_connection", FALSE, FALSE)}
    [] OTHER -> {Outcome("good", "nothing", TRUE, FALSE),
                 Outcome(IF c = "good" THEN "bad" ELSE "null", "broken_connection", FALSE, TRUE),
                 Outcome("good", "sql_error", FALSE, TRUE)}

(* work.commit().  Lost since the statement: nothing is committed.  Lost   *)
(* under the COMMIT: the transaction may be committed or not.  Both throw  *)
(* in_doubt_error, which is no broken_connection.                          *)
commit(c) ==
  IF c = "stale" THEN {Outcome("bad", "in_doubt_error", FALSE, FALSE)}
  ELSE {Outcome("good", "nothing", TRUE, FALSE), Outcome("good", "sql_error", FALSE, TRUE)}
         \cup {Outcome("bad", "in_doubt_error", d, TRUE) : d \in BOOLEAN}
=============================================================================
