----------------------------- MODULE MCGateway -----------------------------
(***************************************************************************)
(* Gateway for TLC: a client with a message that is right and one, where   *)
(* there are two, with one that is not.                                    *)
(***************************************************************************)
EXTENDS Gateway

CONSTANTS c1, c2

R(valid) == [post |-> TRUE, path |-> TRUE, valid |-> valid, keepAlive |-> TRUE]
MCRequestOf == [c \in Client |-> R(c = c1)]

P(error, copies) == [error |-> error, copies |-> copies]
MCPromise == {P("OK", 1), P("OK", 2), P("GENERIC", 1), P("STORAGE_UNAVAILABLE", 0)}
=============================================================================
