------------------------------ MODULE Hiredis ------------------------------
(***************************************************************************)
(* External: the part of the hiredis library that gwfront's RedisWriter    *)
(* and gwback's RedisProducer see.  A context is its error code, which     *)
(* sticks until redisReconnect, whether the server accepted an AUTH on it, *)
(* and whether the server still holds its end of the connection.           *)
(***************************************************************************)
Err == {"OK", "EOF", "IO", "OTHER"}
Context == [err : Err, authed : BOOLEAN, alive : BOOLEAN]

(* The errors that mean that the connection is gone.                       *)
Lost == {"EOF", "IO"}

Connected == [err |-> "OK", authed |-> FALSE, alive |-> TRUE]

(* What a redisCommand leaves: the context, the kind of reply, whether the *)
(* server carried the command out, and whether a fault hit the call.       *)
Outcome(c, reply, done, fault) == [ctx |-> c, reply |-> reply, done |-> done, fault |-> fault]

(* The outcomes when nothing happens during the call.  The server refuses  *)
(* all but AUTH on a context without authentication.                       *)
Answers(c, allowed) ==
  CASE c.err # "OK" -> {Outcome(c, "null", FALSE, FALSE)}
    [] c.err = "OK" /\ ~c.alive -> {Outcome([c EXCEPT !.err = e], "null", FALSE, FALSE) : e \in Lost}
    [] OTHER -> {Outcome(c, IF allowed THEN "ok" ELSE "error", allowed, FALSE)}

(* No reply, after the server carried the command out or before.           *)
NoReply(c, allowed) == {Outcome(c, "null", d, TRUE) : d \in {FALSE, allowed}}

(* The outcomes when the call meets a fault: the connection breaks, the    *)
(* answer is not Redis' protocol, or the server answers with an error.     *)
Mishaps(c, allowed) ==
  IF c.err = "OK" /\ c.alive
    THEN (UNION {NoReply([c EXCEPT !.err = e, !.alive = FALSE], allowed) : e \in Lost})
           \cup NoReply([c EXCEPT !.err = "OTHER"], allowed)
           \cup {Outcome(c, "error", FALSE, TRUE)}
    ELSE {}

redisCommand(c, allowed) == Answers(c, allowed) \cup Mishaps(c, allowed)
=============================================================================
