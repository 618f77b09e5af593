----------------------------- MODULE MCStartup -----------------------------
(***************************************************************************)
(* Startup for TLC: the files that differ from the shipped configuration   *)
(* in at most two places, a table that is absent or no table included; and *)
(* with the shipped file for either type of messages, every body that      *)
(* differs from a right one in at most two fields.                         *)
(***************************************************************************)
EXTENDS Startup

Four(ip) == [family |-> 4, ip |-> ip]
Six(ip) == [family |-> 6, ip |-> ip]
MCAddresses ==
  [h \in {"127.0.0.1", "dual", "six", "nowhere", "two words", "back\\slash"} |->
     CASE h = "127.0.0.1" -> <<Four("127.0.0.1")>>
       [] h = "dual" -> <<Four("10.0.0.1"), Six("fd00::1")>>
       [] h = "six" -> <<Six("fd00::1"), Four("10.0.0.1")>>
       [] OTHER -> <<>>]

Shipped ==
  [tables |-> Table,
   values |->
     [log |-> [severity |-> Text("info")],
      messages |-> [type |-> Text("flatbuffers")],
      http |-> [port |-> Int64(8080), threads |-> Int64(16), request_timeout |-> Int64(3)],
      postgres |-> [host |-> Text("127.0.0.1"), port |-> Int64(5432), database |-> Text("test"),
                    user |-> Text("user"), password |-> Text("123")],
      redis |-> [host |-> Text("127.0.0.1"), port |-> Int64(6379), user |-> Text("user"),
                 password |-> Text("123")],
      consumer |-> [chunk_size |-> Int64(10000), output_folder |-> Text("/tmp")],
      producer |-> [chunk_size |-> Int64(1000)]]]

(* The values worth a try for a parameter: on both sides of its bounds.    *)
Tries(t, k) ==
  {Absent, Other} \cup
  CASE Rule[t][k].is = "integer" ->
         {Int64(n) : n \in {-1, 0, 1, Rule[t][k].max, Rule[t][k].max + 1, Rule[t][k].width + 1}}
    [] k = "severity" -> {Text(s) : s \in {"trace", "fatal", "warn", ""}}
    [] k = "type" -> {Text(s) : s \in {"json", "xml", ""}}
    [] k = "host" -> {Text(s) : s \in {"dual", "six", "nowhere", "two words", "back\\slash", ""}}
    [] t = "postgres" /\ k = "password" -> {Text(s) : s \in DOMAIN Lexed \cup {""}}
    [] OTHER -> {Text("")}

Changes(f) ==
  {[f EXCEPT !.tables = @ \ {t}] : t \in Table}
    \cup {[f EXCEPT !.values[t] = [k \in DOMAIN Rule[t] |-> Absent]] : t \in Table}
    \cup UNION {UNION {{[f EXCEPT !.values[t][k] = v] : v \in Tries(t, k)} :
                         k \in DOMAIN Rule[t]} : t \in Table}

OneChange == {Shipped} \cup Changes(Shipped)
TwoChanges == OneChange \cup UNION {Changes(f) : f \in OneChange}
RedisOnly == {[f EXCEPT !.tables = @ \ {"postgres"}] : f \in OneChange}
Files == TwoChanges \cup RedisOnly
MCSetup ==
  {[file |-> f, programs |-> Program, posts |-> FALSE] : f \in Files}
    \cup {[file |-> [Shipped EXCEPT !.values.messages.type = Text(t)],
           programs |-> {"gwfront"}, posts |-> TRUE] : t \in {"json", "flatbuffers"}}
MCLexed ==
  [s \in {"two words", "back\\slash", "last\\", "'quoted'", "'open"} |->
     CASE s = "two words" -> [ends |-> "blank", s |-> ""]
       [] s = "back\\slash" -> [ends |-> "word", s |-> "backslash"]
       [] s = "last\\" -> [ends |-> "escape", s |-> "last"]
       [] s = "'quoted'" -> [ends |-> "word", s |-> "quoted"]
       [] s = "'open" -> [ends |-> "quote", s |-> ""]]

Usual == [i \in Field |->
  CASE Kind(i) = "int" -> "integer" [] Kind(i) = "double" -> "float" [] Kind(i) = "str" -> "string"]

AtMostTwoDefects == {[Usual EXCEPT ![i] = v, ![j] = w] : i, j \in Field, v, w \in Value}
=============================================================================
