------------------------------ MODULE Startup ------------------------------
(***************************************************************************)
(* How gwfront and gwback start: arguments, the tables of the TOML file,   *)
(* the log, and the choice of the storage and of the checker, which then   *)
(* checks.  One file stands for the two programs' files: each reads the    *)
(* tables it knows, and the tables of the storage are the same in both.    *)
(***************************************************************************)
EXTENDS Integers, Sequences, Checkers

CONSTANTS
  Setup,     \* what is started: the file, the programs, and if bodies are posted
  Lexed,     \* the strings with a blank, a backslash or a quote in front, and
             \* what libpq makes of each
  Uint32,    \* how many values a uint32_t has: 2^32, or fewer for TLC
  Addresses  \* the addresses getaddrinfo finds for a host, in its order

VARIABLES
  setup,    \* the file both programs read: its tables, the value of each parameter
  pc,       \* where each program is
  at,       \* the table it reads next
  config,   \* its Config: the value of each parameter it has read
  given,    \* the tables it has read
  storage   \* the storage it uses, or NoStorage

startVars == <<setup, pc, at, config, given, storage>>
vars == <<startVars, checkerVars>>

Program == {"gwfront", "gwback"}

(* A TOML value that is absent, an integer, a string or something else.    *)
Absent == [is |-> "absent", n |-> 0, s |-> ""]
Int64(n) == [is |-> "integer", n |-> n, s |-> ""]
Text(s) == [is |-> "string", n |-> 0, s |-> s]
Other == [is |-> "other", n |-> 0, s |-> ""]

(* A parameter that must be there, or has a default; among what it must be *)
(* if it is there.                                                         *)
Number(min, max, width, default) ==
  [is |-> "integer", min |-> min, max |-> max, width |-> width, among |-> {}, empty |-> FALSE, default |-> default]
String(among, empty, default) ==
  [is |-> "string", min |-> 0, max |-> 0, width |-> 1, among |-> among, empty |-> empty, default |-> default]

SEVERITIES == {"trace", "debug", "info", "warning", "error", "fatal"}
Host == String({}, FALSE, Absent)
Uint16 == 65536
Port(default) == Number(1, 65535, Uint16, default)
MAX_CHUNK == 1000000
ChunkSize == Number(1, MAX_CHUNK, Uint32, Int64(1000))

Rule ==
  [log |-> [severity |-> String(SEVERITIES, FALSE, Text("error"))],
   messages |-> [type |-> String({"json", "flatbuffers"}, FALSE, Absent)],
   http |-> [port |-> Port(Absent), threads |-> Number(1, 16384, Uint16, Absent),
             request_timeout |-> Number(1, 600, Uint16, Int64(10))],
   postgres |-> [host |-> Host, port |-> Port(Int64(5432)), database |-> Host, user |-> Host,
                 password |-> String({}, TRUE, Absent)],
   redis |-> [host |-> Host, port |-> Port(Int64(6379)), user |-> Host,
              password |-> String({}, TRUE, Absent)],
   consumer |-> [chunk_size |-> ChunkSize, output_folder |-> Host],
   producer |-> [chunk_size |-> ChunkSize]]

Table == DOMAIN Rule
Defaults == [t \in Table |-> [p \in DOMAIN Rule[t] |-> Rule[t][p].default]]

ASSUME SetupAssumption == \A s \in Setup :
  /\ s.programs \subseteq Program /\ s.posts \in BOOLEAN
  /\ s.file.tables \subseteq Table
  /\ \A t \in Table :
       /\ DOMAIN s.file.values[t] = DOMAIN Rule[t]
       /\ \A k \in DOMAIN Rule[t] : LET v == s.file.values[t][k] IN
            v.is = "integer" => v.n \in Int /\ v = Int64(v.n)

ASSUME Uint32Assumption == Uint32 \in Nat /\ MAX_CHUNK < Uint32

(* Where libpq leaves a value: at its end ("word"); in the blank after it, *)
(* which its last character, a backslash, makes part of it ("escape"); or  *)
(* elsewhere, after a blank in it ("blank") or for a quote that does not   *)
(* end where the value does ("quote").                                     *)
ASSUME LexedAssumption ==
  \A s \in DOMAIN Lexed : s # "" /\ Lexed[s].ends \in {"word", "escape", "blank", "quote"}

NoStorage == [kind |-> "none", values |-> {}, address |-> ""]

Init ==
  /\ setup \in Setup
  /\ pc = [p \in Program |-> "arguments"]
  /\ at = [p \in Program |-> 1]
  /\ config = [p \in Program |-> Defaults]
  /\ given = [p \in Program |-> {}]
  /\ storage = [p \in Program |-> NoStorage]
  /\ CheckerInit

Goto(p, label) == pc' = [pc EXCEPT ![p] = label]

(* parseArguments and parse_file, and what they say no to: no option       *)
(* --config, an unknown option, --help, a file that is not TOML.           *)
ParseArguments(p) ==
  /\ pc[p] = "arguments"
  /\ \E label \in {"tables", "failed"} : Goto(p, label)
  /\ UNCHANGED <<setup, at, config, given, storage>>

(***************************************************************************)
(* fillConfig                                                              *)
(***************************************************************************)
Tables(p) ==
  IF p = "gwfront" THEN <<"log", "messages", "http", "postgres", "redis", "storage">>
  ELSE <<"log", "postgres", "redis", "storage", "consumer", "producer">>
Mandatory == {"messages", "http", "consumer", "producer"}
Reads(p, t) == pc[p] = "tables" /\ at[p] <= Len(Tables(p)) /\ Tables(p)[at[p]] = t

(* as_integer() and as_string() are null for a value of another type, so   *)
(* that it counts as absent: an error without a default, silence with one. *)
Missing(rule, v) == v.is # rule.is

(* Mutant: only the lower bound is looked at.                              *)
WithinMin(rule, v) ==
  IF rule.is = "integer" THEN rule.min <= v.n
  ELSE (v.s = "" => rule.empty) /\ (rule.among # {} => v.s \in rule.among)

Within(rule, v) ==
  IF rule.is = "integer" THEN rule.min <= v.n /\ v.n <= rule.max
  ELSE (v.s = "" => rule.empty) /\ (rule.among # {} => v.s \in rule.among)

Throws(rule, v) == IF Missing(rule, v) THEN rule.default = Absent ELSE ~Within(rule, v)

(* The static_cast of a number.                                            *)
Cast(rule, v) == IF rule.is = "integer" THEN Int64(v.n % rule.width) ELSE v

Parsed(rule, v) == IF Missing(rule, v) THEN rule.default ELSE Cast(rule, v)

(* parseLogConfig, parseMessagesConfig, parseHttpServerConfig,             *)
(* parsePostgresConfig, parseRedisConfig, parseConsumerConfig,             *)
(* parseProducerConfig                                                     *)
ParseTable(p, t) ==
  /\ Reads(p, t) /\ t \in setup.file.tables
  /\ \A k \in DOMAIN Rule[t] : ~Throws(Rule[t][k], setup.file.values[t][k])
  /\ config' = [config EXCEPT ![p][t] =
       [k \in DOMAIN Rule[t] |-> Parsed(Rule[t][k], setup.file.values[t][k])]]
  /\ given' = [given EXCEPT ![p] = @ \cup {t}]
  /\ at' = [at EXCEPT ![p] = @ + 1]
  /\ UNCHANGED <<setup, pc, storage>>

ParseTableThrows(p, t) ==
  /\ Reads(p, t) /\ t \in setup.file.tables
  /\ \E k \in DOMAIN Rule[t] : Throws(Rule[t][k], setup.file.values[t][k])
  /\ Goto(p, "failed")
  /\ UNCHANGED <<setup, at, config, given, storage>>

NoTable(p, t) ==
  /\ Reads(p, t) /\ t \notin setup.file.tables
  /\ \/ t \in Mandatory /\ Goto(p, "failed") /\ UNCHANGED at
     \/ t \notin Mandatory /\ at' = [at EXCEPT ![p] = @ + 1] /\ UNCHANGED pc
  /\ UNCHANGED <<setup, config, given, storage>>

HasStorage(p) == given[p] \cap {"postgres", "redis"} # {}

CheckStorage(p) ==
  /\ Reads(p, "storage")
  /\ \/ HasStorage(p) /\ at' = [at EXCEPT ![p] = @ + 1] /\ UNCHANGED pc
     \/ ~HasStorage(p) /\ Goto(p, "failed") /\ UNCHANGED at
  /\ UNCHANGED <<setup, config, given, storage>>

(***************************************************************************)
(* initLog, makeHandler, and main() of gwback                              *)
(***************************************************************************)
severityMap == {"trace", "debug", "info", "warning", "error", "fatal"}

InitLog(p) ==
  /\ pc[p] = "tables" /\ at[p] > Len(Tables(p))
  /\ Goto(p, IF config[p].log.severity.s \in severityMap THEN "make" ELSE "makeUnfiltered")
  /\ UNCHANGED <<setup, at, config, given, storage>>

(* The first address getaddrinfo finds, read as a sockaddr_in.  In the     *)
(* place of the address a sockaddr_in6 has its flow label, which is 0.     *)
resolveHost(host) ==
  IF Addresses[host] = <<>> THEN ""
  ELSE IF Head(Addresses[host]).family = 4 THEN Head(Addresses[host]).ip
  ELSE "0.0.0.0"

(* Mutant: Redis first where the type is flatbuffers.                      *)
ChosenByType(p) ==
  IF "postgres" \in given[p] /\ ~(p = "gwfront" /\ config[p].messages.type.s = "flatbuffers" /\ "redis" \in given[p])
  THEN "postgres" ELSE "redis"

Chosen(p) == IF "postgres" \in given[p] THEN "postgres" ELSE "redis"

(* Mutant: the password is not the last.                                   *)
connectionStringPasswordFirst(c) ==
  <<<<"host", c.host>>, <<"password", c.password>>, <<"port", c.port>>, <<"database", c.database>>,
    <<"user", c.user>>>>

(* keyword=value of each, with nothing after the = for an empty value; the *)
(* keyword stands here under the name of the parameter (dbname: database). *)
connectionString(c) ==
  <<<<"host", c.host>>, <<"port", c.port>>, <<"database", c.database>>, <<"user", c.user>>,
    <<"password", c.password>>>>

Lex(v) ==
  IF v.is = "string" /\ v.s \in DOMAIN Lexed THEN [ends |-> Lexed[v.s].ends, value |-> Text(Lexed[v.s].s)]
  ELSE [ends |-> IF v = Text("") THEN "escape" ELSE "word", value |-> v]

(* libpq's reading of it, word by word.  After an = without a value, as    *)
(* after a backslash, the value goes on into the next word, whatever that  *)
(* is, and has only what came before if there is none.  A backslash is     *)
(* left out and a value between quotes is read without them.  Where a      *)
(* value is left elsewhere, all that follows is misread, which mostly is   *)
(* an error.                                                               *)
ReadWord(read, w) ==
  LET lex == Lex(w[2])
  IN  IF lex.ends = "blank" \/ (lex.ends = "quote" /\ read.key = "") THEN [read EXCEPT !.error = TRUE]
      ELSE IF read.key # "" THEN
        IF lex.ends = "escape" /\ w[2] # Text("") THEN read
        ELSE [read EXCEPT !.key = "", !.values = @ \cup {<<read.key, Other>>}]
      ELSE IF lex.ends = "escape" THEN [read EXCEPT !.key = w[1], !.rest = lex.value]
      ELSE [read EXCEPT !.values = @ \cup {<<w[1], lex.value>>}]

Unread == [key |-> "", rest |-> Text(""), values |-> {}, error |-> FALSE]

libpq(words) ==
  LET read[i \in 0 .. Len(words)] == IF i = 0 THEN Unread ELSE ReadWord(read[i - 1], words[i])
      all == read[Len(words)] IN
  IF all.error THEN {}
  ELSE all.values \cup (IF all.key = "" THEN {} ELSE {<<all.key, all.rest>>})

Pairs(c) == {<<k, c[k]>> : k \in DOMAIN c}

(* The constructors of PostgresWriter and PostgresProducer only make their *)
(* connection string, those of RedisWriter and RedisProducer resolve the   *)
(* host.                                                                   *)
MakeChecker(p) ==
  /\ type' = IF p = "gwback" THEN type
             ELSE IF config[p].messages.type.s = "json" THEN "json" ELSE "flatbuffers"
  /\ UNCHANGED <<wellFormed, document, next, result>>

MakePostgres(p) ==
  /\ pc[p] \in {"make", "makeUnfiltered"} /\ Chosen(p) = "postgres"
  /\ storage' = [storage EXCEPT ![p] =
       [kind |-> "postgres", values |-> libpq(connectionString(config[p].postgres)), address |-> ""]]
  /\ Goto(p, "started") /\ MakeChecker(p)
  /\ UNCHANGED <<setup, at, config, given>>

MakeRedis(p) ==
  /\ pc[p] \in {"make", "makeUnfiltered"} /\ Chosen(p) = "redis"
  /\ LET ip == resolveHost(config[p].redis.host.s) IN
     \/ /\ ip # ""
        /\ storage' = [storage EXCEPT ![p] =
             [kind |-> "redis", values |-> Pairs(config[p].redis), address |-> ip]]
        /\ Goto(p, "started") /\ MakeChecker(p)
     \/ ip = "" /\ Goto(p, "failed") /\ UNCHANGED <<storage, checkerVars>>
  /\ UNCHANGED <<setup, at, config, given>>

Configure(p) ==
  \/ ParseArguments(p) \/ CheckStorage(p) \/ InitLog(p)
  \/ \E t \in Table : ParseTable(p, t) \/ ParseTableThrows(p, t) \/ NoTable(p, t)

Next ==
  \/ \E p \in setup.programs :
       \/ Configure(p) /\ UNCHANGED checkerVars
       \/ MakePostgres(p) \/ MakeRedis(p)
  \/ setup.posts /\ CheckerNext /\ UNCHANGED startVars

Spec == Init /\ [][Next]_vars
-----------------------------------------------------------------------------
(* A program whose configuration is accepted has what the rest of it takes *)
(* for granted: the storage whose optional it dereferences, a severity the *)
(* log knows, and the numbers of its file, none of them 0 or cut by its    *)
(* cast.                                                                   *)
Prepared ==
  \A p \in Program :
    /\ pc[p] # "makeUnfiltered"
    /\ pc[p] \in {"make", "started"} =>
         /\ Chosen(p) \in given[p]
         /\ \A t \in given[p] : \A k \in DOMAIN Rule[t] : Rule[t][k].is = "integer" =>
              /\ config[p][t][k].n >= 1
              /\ setup.file.values[t][k].is = "integer" =>
                   config[p][t][k] = setup.file.values[t][k]

(* gwfront and gwback, started with the same tables, meet in one storage,  *)
(* whatever is absent or of the wrong type in them: what the one stores    *)
(* the other fetches.                                                      *)
SameStorage == (\A p \in Program : pc[p] = "started") => storage["gwfront"] = storage["gwback"]

(* What the file asks for, a default where it has no value of the type.    *)
Asked(t, k) ==
  IF setup.file.values[t][k].is = Rule[t][k].is THEN setup.file.values[t][k] ELSE Rule[t][k].default

(* libpq reads every parameter of the connection string as the file has    *)
(* it, an empty password too, unless one has a blank or a backslash in it  *)
(* or begins with a single quote: the program then starts, and connects    *)
(* with something else or never.                                           *)
AsConfigured ==
  \A p \in Program :
    /\ storage[p].kind = "postgres"
    /\ \A k \in DOMAIN Rule.postgres : Asked("postgres", k).s \notin DOMAIN Lexed
    => storage[p].values = {<<k, Asked("postgres", k)>> : k \in DOMAIN Rule.postgres}
=============================================================================
