---------------------------- MODULE StartupProofs ----------------------------
(***************************************************************************)
(* Proofs about Startup and Checkers for every file, every number of       *)
(* fields and every body.                                                  *)
(***************************************************************************)
EXTENDS Startup, TLAPS

-----------------------------------------------------------------------------
(***************************************************************************)
(* The checkers                                                            *)
(***************************************************************************)
(* The checker is made once, by the gwfront that then is started, and the  *)
(* fields before the one being looked at are right.                        *)
Checking ==
  /\ type \in {"none", "json", "flatbuffers"}
  /\ pc \in [Program -> {"arguments", "tables", "failed", "make", "makeUnfiltered", "started"}]
  /\ type # "none" => pc["gwfront"] = "started"
  /\ type = "none" => result = NoCall
  /\ result = NoCall => next = 0
  /\ result # NoCall =>
       /\ document \in [Field -> Value]
       /\ type = "flatbuffers" => Encodable(document)
  /\ result = Unknown /\ next # 0 =>
       /\ wellFormed
       /\ next \in First .. End
       /\ \A i \in 1 .. next - 1 : Right(i)

(* Field and End are about the same fields.                                *)
LEMMA FieldsAre == Field = 1 .. End - 1 /\ End \in Nat /\ End > 0
BY FieldsAssumption DEF Field, End

(* No two of the outcomes of check() are the same.                         *)
LEMMA Results ==
  /\ NoCall # Unknown /\ Accepted # NoCall /\ Accepted # Unknown
  /\ Accepted.ok = TRUE
  /\ \A i, why : /\ Rejected(i, why).ok = FALSE /\ Rejected(i, why).field = i /\ Rejected(i, why).why = why
                 /\ why \in {"missing", "wrong", "invalid"} => Rejected(i, why) \notin {NoCall, Unknown}
<1>1. NoCall.why = "no call" /\ Unknown.why = "unknown" /\ Accepted.why = ""
  BY DEF NoCall, Unknown, Accepted
<1>2. Accepted.ok = TRUE
  BY Zenon DEF Accepted
<1>3. \A i, why : Rejected(i, why).ok = FALSE
  BY Zenon DEF Rejected
<1>4. \A i, why : Rejected(i, why).field = i /\ Rejected(i, why).why = why
  BY DEF Rejected
<1>5. NoCall # Unknown /\ Accepted # NoCall /\ Accepted # Unknown
  BY <1>1
<1>6. ASSUME NEW i, NEW why \in {"missing", "wrong", "invalid"}
      PROVE  Rejected(i, why) \notin {NoCall, Unknown}
  <2>1. Rejected(i, why).why = why
    BY <1>4
  <2> QED
    BY <1>1, <2>1
<1> QED
  BY <1>2, <1>3, <1>4, <1>5, <1>6, Zenon

(* JsonChecker accepts a field if and only if it is right, and calls it    *)
(* missing if and only if it is not there.                                 *)
LEMMA JsonVerdict ==
  ASSUME type = "json", NEW i \in Field
  PROVE  \/ Right(i) /\ JsonField(i) = Accepted
         \/ /\ ~Right(i)
            /\ \E why \in {"missing", "wrong"} :
                 JsonField(i) = Rejected(i, why) /\ (why = "missing" <=> document[i] = "missing")
<1>1. Kind(i) \in {"int", "double", "str"}
  BY DEF Kind
<1>2. CASE document[i] = "missing"
  BY <1>1, <1>2 DEF JsonField, Right
<1>3. CASE document[i] # "missing"
  BY <1>1, <1>3 DEF JsonField, Right
<1> QED
  BY <1>2, <1>3

(* FlatbuffersChecker accepts a string that is there and not empty, and    *)
(* calls any other missing.                                                *)
LEMMA FlatbuffersVerdict ==
  ASSUME type = "flatbuffers", document \in [Field -> Value], Encodable(document), NEW i \in Field, Kind(i) = "str"
  PROVE  \/ Right(i) /\ FlatbuffersField(i) = Accepted
         \/ ~Right(i) /\ FlatbuffersField(i) = Rejected(i, "missing") /\ document[i] \in {"missing", "empty"}
<1>1. document[i] \in {"missing", "string", "empty"}
  BY DEF Encodable, Storable
<1> QED
  BY <1>1 DEF Right, FlatbuffersField

(* A step of check() moves on over a field that is right, so that the one  *)
(* it names is the first that is not.                                      *)
LEMMA CheckerStep ==
  ASSUME Checking, Verdict, setup.posts /\ CheckerNext /\ UNCHANGED startVars
  PROVE  Checking' /\ Verdict'
<1>0. UNCHANGED <<pc, type>>
  BY DEF startVars, CheckerNext, Check, Parse, CheckField, Accept
<1>1. CASE Check
  <2>1. result' = Unknown /\ next' = 0 /\ document' \in Document /\ type # "none" /\ (type = "flatbuffers" => Encodable(document'))
    BY <1>1 DEF Check, Checking
  <2>2. document' \in [Field -> Value]
    BY <2>1, DocumentAssumption
  <2>3. type' = "flatbuffers" => Encodable(document)'
    BY <1>0, <2>1 DEF Encodable, Field, Storable, Kind
  <2> QED
    BY <1>0, <2>1, <2>2, <2>3, Results DEF Checking, Verdict
<1>2. ASSUME UNCHANGED <<wellFormed, document>>
      PROVE  /\ \A i : Right(i)' <=> Right(i)
             /\ Encodable(document)' <=> Encodable(document)
  BY <1>0, <1>2 DEF Right, Kind, Encodable, Storable, Field
<1>3. CASE Parse
  <2>1. UNCHANGED <<wellFormed, document>> /\ result = Unknown /\ next = 0
    BY <1>3 DEF Parse
  <2>2. CASE wellFormed /\ next' = First /\ UNCHANGED result
    <3>1. First \in 1 .. End /\ \A i \in 1 .. First - 1 : Right(i)
      <4>1. First \in Nat \ {0} /\ First <= End
        BY FieldsAssumption DEF First, End
      <4>2. ASSUME NEW i \in 1 .. First - 1
            PROVE  Right(i)
        <5>1. type = "flatbuffers" /\ Kind(i) # "str"
          BY <2>1, Results, FieldsAssumption DEF First, Kind, Checking
        <5> QED
          BY <5>1 DEF Right
      <4> QED
        BY <4>1, <4>2, FieldsAre
    <3>2. First' = First
      BY <1>0 DEF First
    <3>3. next' \in (First .. End)' /\ \A i \in 1 .. next' - 1 : Right(i)'
      BY <1>2, <2>1, <2>2, <3>1, <3>2, FieldsAre DEF End
    <3> QED
      BY <1>0, <1>2, <2>1, <2>2, <3>3, Results DEF Checking, Verdict
  <2>3. CASE ~wellFormed /\ result' = Rejected(0, "invalid") /\ UNCHANGED next
    <3>1. result' \notin {NoCall, Unknown} /\ result'.ok = FALSE
      BY <2>3, Results
    <3> QED
      BY <1>0, <1>2, <2>1, <2>3, <3>1, Results DEF Checking, Verdict
  <2> QED
    BY <1>3, <2>2, <2>3 DEF Parse
<1>4. CASE CheckField
  <2>1. UNCHANGED <<wellFormed, document>> /\ result = Unknown /\ next \in Field /\ next # 0
    BY <1>4, FieldsAre DEF CheckField
  <2>2. /\ wellFormed /\ next \in First .. End /\ \A i \in 1 .. next - 1 : Right(i)
        /\ document \in [Field -> Value] /\ (type = "flatbuffers" => Encodable(document))
        /\ type \in {"json", "flatbuffers"}
    BY <2>1, Results DEF Checking
  <2> DEFINE r == IF type = "json" THEN JsonField(next) ELSE FlatbuffersField(next)
  <2>3. AfterField(r)
    BY <1>4 DEF CheckField
  <2>4. \/ Right(next) /\ r = Accepted
        \/ /\ ~Right(next)
           /\ \E why \in {"missing", "wrong"} :
                /\ r = Rejected(next, why)
                /\ why = "missing" <=> document[next] = "missing" \/ (type = "flatbuffers" /\ document[next] = "empty")
    <3>1. CASE type = "json"
      BY <2>1, <3>1, JsonVerdict
    <3>2. CASE type = "flatbuffers"
      <4>1. Kind(next) = "str"
        BY <2>1, <2>2, <3>2, FieldsAssumption DEF First, Kind
      <4> QED
        BY <2>1, <2>2, <3>2, <4>1, FlatbuffersVerdict
    <3> QED
      BY <2>2, <3>1, <3>2
  <2> HIDE DEF r
  <2>5. CASE Right(next) /\ r = Accepted
    <3>1. next' = next + 1 /\ result' = result
      BY <2>3, <2>5, Results DEF AfterField
    <3>2. next' \in (First .. End)' /\ next' # 0 /\ \A i \in 1 .. next' - 1 : Right(i)'
      <4>1. next \in Nat /\ End \in Nat /\ First \in Nat /\ next < End
        BY <2>1, FieldsAre, FieldsAssumption DEF First
      <4>2. First' = First /\ End' = End
        BY <1>0 DEF First, End
      <4>3. next + 1 \in First .. End /\ \A i \in 1 .. next : Right(i)
        BY <2>2, <2>5, <4>1
      <4> QED
        BY <1>2, <2>1, <3>1, <4>1, <4>2, <4>3
    <3> QED
      BY <1>0, <1>2, <2>1, <2>2, <3>1, <3>2, Results DEF Checking, Verdict
  <2>6. ASSUME ~Right(next), NEW why \in {"missing", "wrong"}, r = Rejected(next, why),
               why = "missing" <=> document[next] = "missing" \/ (type = "flatbuffers" /\ document[next] = "empty")
        PROVE  Checking' /\ Verdict'
    <3>1. result' = r /\ next' = next
      BY <2>3, <2>6, Results DEF AfterField
    <3>2. result' \notin {NoCall, Unknown} /\ result'.ok = FALSE /\ result'.field = next /\ result'.why = why
      BY <2>6, <3>1, Results
    <3>3. Checking'
      BY <1>0, <1>2, <2>1, <2>2, <3>1, <3>2, Results DEF Checking
    <3>4. Verdict'
      BY <1>0, <1>2, <2>1, <2>2, <2>6, <3>2 DEF Verdict
    <3> QED
      BY <3>3, <3>4
  <2> QED
    BY <2>4, <2>5, <2>6
<1>5. CASE Accept
  <2>1. UNCHANGED <<wellFormed, document, next>> /\ result = Unknown /\ next = End /\ result' = Accepted
    BY <1>5 DEF Accept
  <2>2. wellFormed /\ \A i \in Field : Right(i)
    BY <2>1, FieldsAre DEF Checking
  <2>3. result' \notin {NoCall, Unknown} /\ result'.ok = TRUE
    BY <2>1, Results
  <2>4. Checking'
    BY <1>0, <1>2, <2>1, <2>3, Results DEF Checking
  <2>5. Verdict'
    BY <1>2, <2>1, <2>2, <2>3 DEF Verdict, Field
  <2> QED
    BY <2>4, <2>5
<1> QED
  BY <1>1, <1>3, <1>4, <1>5 DEF CheckerNext

-----------------------------------------------------------------------------
(***************************************************************************)
(* The start of both programs                                              *)
(***************************************************************************)
(* What parse...Config makes of a table of the file.                       *)
FromFile(t) == [k \in DOMAIN Rule[t] |-> Parsed(Rule[t][k], setup.file.values[t][k])]
(* What a table of a Config can hold.                                      *)
Contents ==
  {Defaults[t] : t \in Table}
    \cup {[k \in DOMAIN Rule[t] |-> Parsed(Rule[t][k], s.file.values[t][k])] : t \in Table, s \in Setup}
(* Where a program can be.                                                 *)
Phase == {"arguments", "tables", "failed", "make", "makeUnfiltered", "started"}

(* The types of what a start works on.                                     *)
Shapes ==
  /\ setup \in Setup
  /\ pc \in [Program -> Phase]
  /\ at \in [Program -> Nat]
  /\ config \in [Program -> [Table -> Contents]]
  /\ given \in [Program -> SUBSET Table]
  /\ storage = [p \in Program |-> storage[p]]

(* Each table of a program's Config is what its file says, where the file  *)
(* has it and it has been read, and the defaults otherwise.                *)
Faithful(p) == \A t \in Table :
  /\ t \in given[p] =>
       /\ t \in setup.file.tables /\ config[p][t] = FromFile(t)
       /\ \A k \in DOMAIN Rule[t] : ~Throws(Rule[t][k], setup.file.values[t][k])
  /\ t \notin given[p] => config[p][t] = Defaults[t]

(* What lies behind a program in its list has been read or was not there.  *)
Behind(p) == \A i \in 1 .. Len(Tables(p)) : i < at[p] =>
  IF Tables(p)[i] = "storage" THEN HasStorage(p)
  ELSE Tables(p)[i] \in setup.file.tables => Tables(p)[i] \in given[p]

(* The storage that a program makes of its Config.                         *)
Made(p) ==
  IF Chosen(p) = "postgres"
  THEN [kind |-> "postgres", values |-> libpq(connectionString(config[p].postgres)), address |-> ""]
  ELSE [kind |-> "redis", values |-> Pairs(config[p].redis), address |-> resolveHost(config[p].redis.host.s)]

(* A program that makes its storage has its whole list behind it, and one  *)
(* that is started uses what its Config says.                              *)
Ready(p) ==
  /\ Faithful(p) /\ Behind(p)
  /\ pc[p] # "makeUnfiltered"
  /\ pc[p] \in {"make", "started"} => at[p] > Len(Tables(p))
  /\ storage[p] = IF pc[p] = "started" THEN Made(p) ELSE NoStorage

(* The two lists of tables, of six entries each.                           *)
LEMMA Lists ==
  /\ Tables("gwfront") = <<"log", "messages", "http", "postgres", "redis", "storage">>
  /\ Tables("gwback") = <<"log", "postgres", "redis", "storage", "consumer", "producer">>
  /\ \A p \in Program : Len(Tables(p)) = 6
BY DEF Tables, Program

(* The tables there are; the check of the storage is none of them.         *)
LEMMA TableNames ==
  Table = {"log", "messages", "http", "postgres", "redis", "consumer", "producer"}
BY DEF Table, Rule

(* Every number has 1 as its least value, a greatest one that fits in its  *)
(* type, and no default that is 0.                                         *)
LEMMA IntegerRules ==
  ASSUME NEW t \in Table, NEW k \in DOMAIN Rule[t], Rule[t][k].is = "integer"
  PROVE  /\ Rule[t][k].min = 1 /\ Rule[t][k].max \in Nat
         /\ Rule[t][k].width \in Nat /\ Rule[t][k].max < Rule[t][k].width
         /\ Rule[t][k].default # Absent => Rule[t][k].default.n >= 1
<1>1. Rule[t][k].min = 1
  BY DEF Table, Rule, Port, Number, String, Host, ChunkSize
<1>2. Rule[t][k].max \in Nat
  BY SMTT(30) DEF Table, Rule, Port, Number, String, Host, ChunkSize, MAX_CHUNK
<1>3. Rule[t][k].width \in Nat /\ Rule[t][k].max < Rule[t][k].width
  <2>1. CASE t \in {"log", "messages"}
    BY <2>1, Uint32Assumption DEF Rule, Port, Number, String, Host, ChunkSize, Uint16, MAX_CHUNK
  <2>2. CASE t = "http"
    BY <2>2, Uint32Assumption DEF Rule, Port, Number, String, Host, ChunkSize, Uint16, MAX_CHUNK
  <2>3. CASE t = "postgres"
    BY <2>3, Uint32Assumption DEF Rule, Port, Number, String, Host, ChunkSize, Uint16, MAX_CHUNK
  <2>4. CASE t = "redis"
    BY <2>4, Uint32Assumption DEF Rule, Port, Number, String, Host, ChunkSize, Uint16, MAX_CHUNK
  <2>5. CASE t = "consumer"
    BY <2>5, Uint32Assumption DEF Rule, Port, Number, String, Host, ChunkSize, Uint16, MAX_CHUNK
  <2>6. CASE t = "producer"
    BY <2>6, Uint32Assumption DEF Rule, Port, Number, String, Host, ChunkSize, Uint16, MAX_CHUNK
  <2> QED
    BY <2>1, <2>2, <2>3, <2>4, <2>5, <2>6, TableNames, Zenon
<1>4. Rule[t][k].default \in {Absent, Int64(10), Int64(1000), Int64(5432), Int64(6379)}
  <2> USE DEF Rule, Port, Number, String, Host, ChunkSize
  <2>1. CASE t \in {"log", "messages"}
    BY <2>1
  <2>2. CASE t = "http"
    BY <2>2
  <2>3. CASE t = "postgres"
    BY <2>3
  <2>4. CASE t = "redis"
    BY <2>4
  <2>5. CASE t \in {"consumer", "producer"}
    BY <2>5
  <2> QED
    BY <2>1, <2>2, <2>3, <2>4, <2>5 DEF Table
<1>5. \A n \in Nat : Int64(n).n = n
  BY DEF Int64
<1>6. Rule[t][k].default # Absent => Rule[t][k].default.n \in {10, 1000, 5432, 6379}
  BY <1>4, <1>5
<1> QED
  BY <1>1, <1>2, <1>3, <1>6

(* A number that is read is the number of the file, or a default, and in   *)
(* either case it is not 0.                                                *)
LEMMA NumberKept ==
  ASSUME NEW t \in Table, NEW k \in DOMAIN Rule[t], Rule[t][k].is = "integer", setup \in Setup,
         ~Throws(Rule[t][k], setup.file.values[t][k])
  PROVE  /\ FromFile(t)[k].n >= 1
         /\ setup.file.values[t][k].is = "integer" => FromFile(t)[k] = setup.file.values[t][k]
<1> DEFINE v == setup.file.values[t][k]
<1> DEFINE rule == Rule[t][k]
<1>1. FromFile(t)[k] = Parsed(rule, v)
  BY DEF FromFile
<1>2. v.is = "integer" => v.n \in Int /\ v = Int64(v.n)
  BY SetupAssumption
<1>3. /\ rule.is = "integer" /\ rule.min = 1 /\ rule.max \in Nat /\ rule.width \in Nat /\ rule.max < rule.width
      /\ (rule.default # Absent => rule.default.n >= 1)
  BY IntegerRules
<1>4. ~Throws(rule, v)
  OBVIOUS
<1> HIDE DEF v, rule
<1>5. CASE v.is # "integer"
  BY <1>1, <1>3, <1>4, <1>5 DEF Parsed, Missing, Throws, v
<1>6. CASE v.is = "integer"
  <2>1. rule.min <= v.n /\ v.n <= rule.max
    BY <1>3, <1>4, <1>6 DEF Throws, Missing, Within
  <2>2. Cast(rule, v) = v
    <3>1. v.n % rule.width = v.n
      BY <1>2, <1>3, <1>6, <2>1
    <3> QED
      BY <1>2, <1>3, <1>6, <3>1 DEF Cast
  <2>3. Parsed(rule, v) = v
    BY <1>3, <1>6, <2>2 DEF Parsed, Missing
  <2> QED
    BY <1>1, <1>2, <1>3, <1>6, <2>1, <2>3 DEF v
<1> QED
  BY <1>5, <1>6

(* The severities parseLogConfig lets through, and its default, are among  *)
(* those initLog knows.                                                    *)
LEMMA SeverityKnown ==
  ASSUME NEW p \in Program, Faithful(p)
  PROVE  config[p].log.severity.s \in severityMap
<1> DEFINE rule == Rule["log"]["severity"]
<1>1. rule.is = "string"
  BY DEF Rule, String
<1>2. rule.among = SEVERITIES
  BY DEF Rule, String
<1>3. rule.default = Text("error")
  BY DEF Rule, String
<1>4. "log" \in Table /\ "severity" \in DOMAIN Rule["log"]
  BY TableNames DEF Rule
<1>5. Text("error").s \in severityMap
  BY DEF Text, severityMap
<1> HIDE DEF rule
<1>6. CASE "log" \notin given[p]
  <2>1. config[p]["log"]["severity"] = rule.default
    BY <1>4, <1>6, ZenonT(30) DEF Faithful, Defaults, rule
  <2> QED
    BY <1>3, <1>5, <2>1
<1>7. CASE "log" \in given[p]
  <2> DEFINE v == setup.file.values["log"]["severity"]
  <2>1. config[p]["log"]["severity"] = Parsed(rule, v) /\ ~Throws(rule, v)
    BY <1>4, <1>7 DEF Faithful, FromFile, rule
  <2> HIDE DEF v
  <2>2. CASE v.is # "string"
    BY <1>1, <1>3, <1>5, <2>1, <2>2 DEF Parsed, Missing
  <2>3. CASE v.is = "string"
    <3>1. Parsed(rule, v) = v
      BY <1>1, <2>3 DEF Parsed, Missing, Cast
    <3>2. v.s \in SEVERITIES
      BY <1>1, <1>2, <2>1, <2>3 DEF Throws, Missing, Within, SEVERITIES
    <3> QED
      BY <2>1, <3>1, <3>2 DEF SEVERITIES, severityMap
  <2> QED
    BY <2>2, <2>3
<1> QED
  BY <1>6, <1>7

(* Every step keeps the types, and the file stays as it is.                *)
LEMMA ShapesNext ==
  ASSUME Shapes, Next
  PROVE  Shapes' /\ setup' = setup
<1> USE DEF Shapes, Goto
<1>1. CASE UNCHANGED startVars
  BY <1>1 DEF startVars
<1>2. ASSUME NEW p \in Program, ParseArguments(p) \/ CheckStorage(p) \/ InitLog(p)
      PROVE  Shapes' /\ setup' = setup
  <2>1. UNCHANGED <<setup, config, given, storage>>
    BY <1>2 DEF ParseArguments, CheckStorage, InitLog
  <2>2. pc' \in [Program -> Phase]
    BY <1>2 DEF ParseArguments, CheckStorage, InitLog, Phase
  <2>3. at' \in [Program -> Nat]
    BY <1>2 DEF ParseArguments, CheckStorage, InitLog
  <2> QED
    BY <2>1, <2>2, <2>3
<1>3. ASSUME NEW p \in Program, NEW t \in Table, ParseTable(p, t)
      PROVE  Shapes' /\ setup' = setup
  <2>1. config' = [config EXCEPT ![p] = [config[p] EXCEPT ![t] = FromFile(t)]]
    BY <1>3 DEF ParseTable, FromFile
  <2>2. FromFile(t) \in Contents
    BY DEF FromFile, Contents
  <2>3. config' \in [Program -> [Table -> Contents]]
    BY <2>1, <2>2
  <2> QED
    BY <1>3, <2>3 DEF ParseTable
<1>4. ASSUME NEW p \in Program, NEW t \in Table, ParseTableThrows(p, t) \/ NoTable(p, t)
      PROVE  Shapes' /\ setup' = setup
  <2>1. UNCHANGED <<setup, config, given, storage>>
    BY <1>4 DEF ParseTableThrows, NoTable
  <2>2. pc' \in [Program -> Phase]
    BY <1>4 DEF ParseTableThrows, NoTable, Phase
  <2>3. at' \in [Program -> Nat]
    BY <1>4 DEF ParseTableThrows, NoTable
  <2> QED
    BY <2>1, <2>2, <2>3
<1>5. ASSUME NEW p \in Program, MakePostgres(p) \/ MakeRedis(p)
      PROVE  Shapes' /\ setup' = setup
  <2>1. UNCHANGED <<setup, config, given, at>>
    BY <1>5 DEF MakePostgres, MakeRedis
  <2>2. pc' \in [Program -> Phase]
    BY <1>5 DEF MakePostgres, MakeRedis, Phase
  <2>3. storage' = storage \/ \E x : storage' = [storage EXCEPT ![p] = x]
    BY <1>5 DEF MakePostgres, MakeRedis
  <2>4. storage' = [q \in Program |-> storage'[q]]
    BY <2>3
  <2> QED
    BY <2>1, <2>2, <2>4
<1>6. setup.programs \subseteq Program
  BY SetupAssumption
<1> QED
  BY <1>1, <1>2, <1>3, <1>4, <1>5, <1>6 DEF Next, Configure

(* A program that is not the one that takes the step stays as it is.       *)
LEMMA ReadySame ==
  ASSUME NEW q \in Program, Ready(q), setup' = setup, pc'[q] = pc[q], at'[q] = at[q], config'[q] = config[q],
         given'[q] = given[q], storage'[q] = storage[q]
  PROVE  Ready(q)'
<1>1. Faithful(q)'
  BY DEF Ready, Faithful, FromFile
<1>2. Behind(q)'
  BY DEF Ready, Behind, HasStorage
<1>3. Made(q)' = Made(q)
  BY DEF Made, Chosen
<1> QED
  BY <1>1, <1>2, <1>3 DEF Ready

(* A step that leaves a program in front of makeHandler.                   *)
LEMMA ReadyBefore ==
  ASSUME NEW p \in Program, Ready(p), pc[p] # "started", Faithful(p)', Behind(p)', pc'[p] \in {"tables", "failed"},
         storage'[p] = storage[p]
  PROVE  Ready(p)'
BY DEF Ready

(* A table or the check of the storage is behind a program.                *)
LEMMA ReadyAdvances ==
  ASSUME Shapes, NEW p \in Program, Ready(p), setup' = setup, config'[p] = config[p], given'[p] = given[p], pc'[p] = "tables",
         at[p] <= Len(Tables(p)), at'[p] = at[p] + 1,
         pc[p] # "started", storage'[p] = storage[p],
         IF Tables(p)[at[p]] = "storage" THEN HasStorage(p)
         ELSE Tables(p)[at[p]] \in setup.file.tables => Tables(p)[at[p]] \in given[p]
  PROVE  Ready(p)'
<1>1. Faithful(p)'
  BY DEF Ready, Faithful, FromFile
<1>2. at[p] \in Nat /\ Len(Tables(p)) = 6 /\ Behind(p)
  BY Lists DEF Shapes, Ready
<1>3. Behind(p)'
  <2> SUFFICES ASSUME NEW i \in 1 .. Len(Tables(p)), i < at[p] + 1
               PROVE  IF Tables(p)[i] = "storage" THEN HasStorage(p)
                      ELSE Tables(p)[i] \in setup.file.tables => Tables(p)[i] \in given[p]
    BY DEF Behind, HasStorage
  <2>1. i < at[p] \/ i = at[p]
    BY <1>2
  <2> QED
    BY <1>2, <2>1 DEF Behind
<1> QED
  BY <1>1, <1>3, ReadyBefore

(* A table that is read is as in the file.                                 *)
LEMMA ReadyTable ==
  ASSUME Shapes, NEW p \in Program, Ready(p), NEW t \in Table, ParseTable(p, t)
  PROVE  Ready(p)'
<1>1. /\ pc[p] = "tables" /\ pc'[p] = "tables" /\ UNCHANGED <<setup, storage>> /\ t \in setup.file.tables
      /\ at[p] <= Len(Tables(p)) /\ Tables(p)[at[p]] = t
      /\ \A k \in DOMAIN Rule[t] : ~Throws(Rule[t][k], setup.file.values[t][k])
  BY DEF ParseTable, Reads
<1>2. at'[p] = at[p] + 1 /\ given'[p] = given[p] \cup {t} /\ at[p] \in Nat /\ Len(Tables(p)) = 6
  BY Lists DEF ParseTable, Shapes
<1>3. config' = [config EXCEPT ![p] = [config[p] EXCEPT ![t] = FromFile(t)]]
  BY DEF ParseTable, FromFile, Shapes
<1>4. config'[p] = [config[p] EXCEPT ![t] = FromFile(t)] /\ config[p] \in [Table -> Contents]
  BY <1>3 DEF Shapes
<1>5. Faithful(p)'
  <2> SUFFICES ASSUME NEW u \in Table
               PROVE  /\ u \in given'[p] =>
                           /\ u \in setup.file.tables /\ config'[p][u] = FromFile(u)
                           /\ \A k \in DOMAIN Rule[u] : ~Throws(Rule[u][k], setup.file.values[u][k])
                      /\ u \notin given'[p] => config'[p][u] = Defaults[u]
    BY <1>1 DEF Faithful, FromFile
  <2>1. CASE u = t
    BY <1>1, <1>2, <1>4, <2>1
  <2>2. CASE u # t
    BY <1>2, <1>4, <2>2 DEF Ready, Faithful
  <2> QED
    BY <2>1, <2>2
<1>6. Behind(p)'
  <2> SUFFICES ASSUME NEW i \in 1 .. Len(Tables(p)), i < at[p] + 1
               PROVE  IF Tables(p)[i] = "storage" THEN HasStorage(p)'
                      ELSE Tables(p)[i] \in setup.file.tables => Tables(p)[i] \in given'[p]
    BY <1>1, <1>2 DEF Behind
  <2>1. CASE i = at[p]
    BY <1>1, <1>2, <2>1, TableNames
  <2>2. CASE i < at[p]
    BY <1>2, <2>2 DEF Ready, Behind, HasStorage
  <2> QED
    BY <1>2, <2>1, <2>2
<1> QED
  BY <1>1, <1>5, <1>6, ReadyBefore

(* makeHandler, and main() of gwback, make the storage of the Config.      *)
LEMMA ReadyMake ==
  ASSUME Shapes, NEW p \in Program, Ready(p), MakePostgres(p) \/ MakeRedis(p)
  PROVE  Ready(p)'
<1>1. UNCHANGED <<setup, at, config, given>> /\ pc[p] = "make"
  BY DEF MakePostgres, MakeRedis, Ready
<1>2. Faithful(p)' /\ Behind(p)' /\ at[p] > Len(Tables(p)) /\ Made(p)' = Made(p)
  BY <1>1 DEF Ready, Faithful, FromFile, Behind, HasStorage, Made, Chosen
<1>3. pc'[p] \in {"started", "failed"}
  BY DEF MakePostgres, MakeRedis, Goto, Shapes
<1>4. pc'[p] = "started" => storage'[p] = Made(p)
  BY DEF MakePostgres, MakeRedis, Goto, Shapes, Made
<1>5. pc'[p] = "failed" => storage'[p] = NoStorage
  BY <1>1 DEF MakePostgres, MakeRedis, Goto, Shapes, Ready
<1> QED
  BY <1>1, <1>2, <1>3, <1>4, <1>5 DEF Ready

(* Every step keeps every program ready.                                   *)
LEMMA ReadyNext ==
  ASSUME Shapes, \A q \in Program : Ready(q), Next
  PROVE  \A q \in Program : Ready(q)'
<1> SUFFICES ASSUME NEW q \in Program
             PROVE  Ready(q)'
  OBVIOUS
<1>0. Ready(q) /\ setup' = setup
  BY ShapesNext
<1>1. CASE UNCHANGED startVars
  BY <1>0, <1>1, ReadySame DEF startVars
<1>2. ASSUME NEW p \in Program, p # q, Configure(p) \/ MakePostgres(p) \/ MakeRedis(p)
      PROVE  Ready(q)'
  <2>1. pc'[q] = pc[q]
    BY <1>2 DEF Configure, ParseArguments, CheckStorage, InitLog, ParseTable, ParseTableThrows, NoTable, MakePostgres, MakeRedis, Goto, Shapes
  <2>2. at'[q] = at[q]
    BY <1>2 DEF Configure, ParseArguments, CheckStorage, InitLog, ParseTable, ParseTableThrows, NoTable, MakePostgres, MakeRedis, Shapes
  <2>3. config'[q] = config[q]
    BY <1>2 DEF Configure, ParseArguments, CheckStorage, InitLog, ParseTable, ParseTableThrows, NoTable, MakePostgres, MakeRedis, Shapes
  <2>4. given'[q] = given[q]
    BY <1>2 DEF Configure, ParseArguments, CheckStorage, InitLog, ParseTable, ParseTableThrows, NoTable, MakePostgres, MakeRedis, Shapes
  <2>5. storage'[q] = storage[q]
    BY <1>2 DEF Configure, ParseArguments, CheckStorage, InitLog, ParseTable, ParseTableThrows, NoTable, MakePostgres, MakeRedis, Shapes
  <2> QED
    BY <1>0, <2>1, <2>2, <2>3, <2>4, <2>5, ReadySame
<1>3. ASSUME UNCHANGED <<at, config, given, storage>>, pc[q] # "started", pc'[q] \in {"tables", "failed"}
      PROVE  Ready(q)'
  BY <1>0, <1>3, ReadyBefore DEF Ready, Faithful, FromFile, Behind, HasStorage
<1>4. CASE ParseArguments(q)
  BY <1>3, <1>4 DEF ParseArguments, Goto, Shapes
<1>5. CASE CheckStorage(q)
  <2>1. CASE HasStorage(q) /\ at' = [at EXCEPT ![q] = @ + 1] /\ UNCHANGED pc
    <3>1. pc'[q] = "tables" /\ at[q] <= Len(Tables(q)) /\ Tables(q)[at[q]] = "storage" /\ at'[q] = at[q] + 1
          /\ UNCHANGED <<config, given, storage>> /\ pc[q] = "tables"
      BY <1>5, <2>1 DEF CheckStorage, Reads, Shapes
    <3> QED
      BY <1>0, <2>1, <3>1, ReadyAdvances
  <2>2. CASE Goto(q, "failed") /\ UNCHANGED at
    BY <1>3, <1>5, <2>2 DEF CheckStorage, Reads, Goto, Shapes
  <2> QED
    BY <1>5, <2>1, <2>2 DEF CheckStorage
<1>6. CASE InitLog(q)
  <2>1. pc'[q] = "make" /\ at[q] > Len(Tables(q)) /\ UNCHANGED <<at, config, given, storage>> /\ pc[q] = "tables"
    BY <1>0, <1>6, SeverityKnown DEF InitLog, Ready, Goto, Shapes
  <2>2. Faithful(q)' /\ Behind(q)'
    BY <1>0, <2>1 DEF Ready, Faithful, FromFile, Behind, HasStorage
  <2> QED
    BY <1>0, <2>1, <2>2 DEF Ready
<1>7. ASSUME NEW t \in Table, ParseTableThrows(q, t)
      PROVE  Ready(q)'
  BY <1>3, <1>7 DEF ParseTableThrows, Reads, Goto, Shapes
<1>8. ASSUME NEW t \in Table, NoTable(q, t)
      PROVE  Ready(q)'
  <2>1. CASE at' = [at EXCEPT ![q] = @ + 1] /\ UNCHANGED pc
    <3>1. pc'[q] = "tables" /\ at[q] <= Len(Tables(q)) /\ Tables(q)[at[q]] = t /\ at'[q] = at[q] + 1
          /\ UNCHANGED <<config, given, storage>> /\ pc[q] = "tables" /\ t \notin setup.file.tables
      BY <1>8, <2>1 DEF NoTable, Reads, Shapes
    <3>2. t # "storage"
      BY TableNames
    <3> QED
      BY <1>0, <3>1, <3>2, ReadyAdvances
  <2>2. CASE Goto(q, "failed") /\ UNCHANGED at
    BY <1>3, <1>8, <2>2 DEF NoTable, Reads, Goto, Shapes
  <2> QED
    BY <1>8, <2>1, <2>2 DEF NoTable
<1>9. setup.programs \subseteq Program
  BY SetupAssumption DEF Shapes
<1>10. CASE Configure(q) \/ MakePostgres(q) \/ MakeRedis(q)
  BY <1>0, <1>4, <1>5, <1>6, <1>7, <1>8, <1>10, ReadyTable, ReadyMake DEF Configure
<1> QED
  BY <1>1, <1>2, <1>9, <1>10 DEF Next

(* A step of a program that leaves the checker alone.                      *)
LEMMA CheckerSame ==
  ASSUME Checking, Verdict, UNCHANGED checkerVars, pc' \in [Program -> Phase],
         pc["gwfront"] = "started" => pc'["gwfront"] = "started"
  PROVE  Checking' /\ Verdict'
<1>1. /\ \A i : Right(i)' <=> Right(i)
      /\ Encodable(document)' <=> Encodable(document)
      /\ First' = First /\ End' = End
  BY DEF checkerVars, Right, Kind, Encodable, Storable, Field, First, End
<1>2. Verdict'
  BY <1>1 DEF checkerVars, Verdict
<1>3. Checking'
  BY <1>1 DEF checkerVars, Checking, Phase
<1> QED
  BY <1>2, <1>3

(* A step that may make the checker: there is none before, so that nothing *)
(* has been checked.                                                       *)
LEMMA CheckerMade ==
  ASSUME Checking, type = "none", type' \in {"none", "json", "flatbuffers"}, UNCHANGED <<wellFormed, document, next, result>>,
         pc' \in [Program -> Phase], type' # "none" => pc'["gwfront"] = "started"
  PROVE  Checking' /\ Verdict'
<1>1. result' = NoCall /\ next' = 0
  BY DEF Checking
<1>2. Verdict'
  BY <1>1 DEF Verdict
<1>3. Checking'
  BY <1>1, Results DEF Checking, Phase
<1> QED
  BY <1>2, <1>3

(* Every step keeps what holds of the checker.                             *)
LEMMA CheckingNext ==
  ASSUME Shapes, \A p \in Program : Ready(p), Checking, Verdict, Next
  PROVE  Checking' /\ Verdict'
<1>1. pc' \in [Program -> Phase] /\ pc \in [Program -> Phase]
  BY ShapesNext DEF Shapes
<1>2. CASE setup.posts /\ CheckerNext /\ UNCHANGED startVars
  BY <1>2, CheckerStep
<1>3. ASSUME NEW p \in Program, Configure(p), UNCHANGED checkerVars
      PROVE  Checking' /\ Verdict'
  <2>1. pc[p] # "started"
    BY <1>3 DEF Configure, ParseArguments, CheckStorage, InitLog, ParseTable, ParseTableThrows, NoTable, Reads
  <2>2. p # "gwfront" => pc'["gwfront"] = pc["gwfront"]
    BY <1>1, <1>3 DEF Configure, ParseArguments, CheckStorage, InitLog, ParseTable, ParseTableThrows, NoTable, Goto, Program
  <2> QED
    BY <1>1, <1>3, <2>1, <2>2, CheckerSame
<1>4. ASSUME NEW p \in Program, MakePostgres(p) \/ MakeRedis(p)
      PROVE  Checking' /\ Verdict'
  <2>1. pc[p] \in {"make", "makeUnfiltered"}
    BY <1>4 DEF MakePostgres, MakeRedis
  <2>2. \/ pc' = [pc EXCEPT ![p] = "started"] /\ MakeChecker(p)
        \/ pc' = [pc EXCEPT ![p] = "failed"] /\ UNCHANGED checkerVars
    BY <1>4 DEF MakePostgres, MakeRedis, Goto
  <2>3. CASE p = "gwback"
    <3>1. UNCHANGED checkerVars
      BY <2>2, <2>3 DEF MakeChecker, checkerVars
    <3>2. pc'["gwfront"] = pc["gwfront"]
      BY <1>1, <2>2, <2>3 DEF Program
    <3> QED
      BY <1>1, <3>1, <3>2, CheckerSame
  <2>4. CASE p = "gwfront"
    <3>1. type = "none"
      BY <2>1, <2>4 DEF Checking
    <3>2. CASE pc' = [pc EXCEPT ![p] = "started"] /\ MakeChecker(p)
      <4>1. type' \in {"json", "flatbuffers"} /\ UNCHANGED <<wellFormed, document, next, result>>
        BY <2>4, <3>2 DEF MakeChecker
      <4>2. pc'["gwfront"] = "started"
        BY <1>1, <2>4, <3>2 DEF Program
      <4> QED
        BY <1>1, <3>1, <4>1, <4>2, CheckerMade
    <3>3. CASE UNCHANGED checkerVars
      BY <1>1, <2>1, <2>4, <3>3, CheckerSame
    <3> QED
      BY <2>2, <3>2, <3>3
  <2> QED
    BY <2>3, <2>4 DEF Program
<1>5. setup.programs \subseteq Program
  BY SetupAssumption DEF Shapes
<1> QED
  BY <1>2, <1>3, <1>4, <1>5 DEF Next

(* The inductive invariant.                                                *)
Inv == Shapes /\ (\A p \in Program : Ready(p)) /\ Checking /\ Verdict

-----------------------------------------------------------------------------
(***************************************************************************)
(* The invariant and the properties                                        *)
(***************************************************************************)
(* It holds when both programs are called.                                 *)
LEMMA InvInit ==
  ASSUME Init
  PROVE  Inv
<1>1. Shapes
  BY DEF Init, Shapes, Phase, Contents, Defaults
<1>2. ASSUME NEW p \in Program
      PROVE  Ready(p)
  BY <1>2, Lists DEF Init, Ready, Faithful, Behind
<1>3. Checking
  BY Results DEF Init, CheckerInit, Checking, Program
<1>4. Verdict
  BY DEF Init, CheckerInit, Verdict
<1> QED
  BY <1>1, <1>2, <1>3, <1>4 DEF Inv

(* Every step keeps it.                                                    *)
LEMMA InvNext ==
  ASSUME Inv, [Next]_vars
  PROVE  Inv'
<1>1. CASE Next
  BY <1>1, ShapesNext, ReadyNext, CheckingNext DEF Inv
<1>2. CASE UNCHANGED vars
  <2>1. UNCHANGED startVars /\ UNCHANGED checkerVars
    BY <1>2 DEF vars
  <2>2. Shapes'
    BY <2>1 DEF Inv, Shapes, startVars
  <2>3. \A p \in Program : Ready(p)'
    BY <2>1, ReadySame DEF Inv, startVars
  <2>4. Checking' /\ Verdict'
    BY <2>1, CheckerSame DEF Inv, Shapes, startVars
  <2> QED
    BY <2>2, <2>3, <2>4 DEF Inv
<1> QED
  BY <1>1, <1>2

(* Each Config is that of the file as far as it was read, and the checker  *)
(* has found right what lies behind it.                                    *)
THEOREM InvHolds == Spec => []Inv
<1>1. Init => Inv
  BY InvInit
<1>2. Inv /\ [Next]_vars => Inv'
  BY InvNext
<1> QED
  BY <1>1, <1>2, PTL DEF Spec

(* JsonChecker::check and FlatbuffersChecker::check accept exactly what is *)
(* well-formed and right in every field, and otherwise name the first      *)
(* field that is not, for every number of fields and every body.           *)
THEOREM VerdictAlways == Spec => []Verdict
<1>1. Inv => Verdict
  BY DEF Inv
<1> QED
  BY <1>1, InvHolds, PTL

(* A program that is past its list has a storage, and all the tables of    *)
(* the file that choose and describe it.                                   *)
LEMMA PastTheList ==
  ASSUME Shapes, NEW p \in Program, Ready(p), pc[p] \in {"make", "started"}
  PROVE  /\ HasStorage(p)
         /\ \A t \in {"postgres", "redis"} : t \in given[p] <=> t \in setup.file.tables
<1>1. \A i \in 1 .. 6 : i < at[p]
  <2>1. at[p] \in Nat /\ at[p] > Len(Tables(p)) /\ Len(Tables(p)) = 6
    BY Lists DEF Ready, Shapes
  <2> QED
    BY <2>1
<1>2. \A i \in 1 .. 6 : IF Tables(p)[i] = "storage" THEN HasStorage(p)
                        ELSE Tables(p)[i] \in setup.file.tables => Tables(p)[i] \in given[p]
  BY <1>1, Lists DEF Ready, Behind
<1>3. \E i \in 1 .. 6 : Tables(p)[i] = "storage"
  BY Lists DEF Program
<1>4. \A t \in {"postgres", "redis"} : \E i \in 1 .. 6 : Tables(p)[i] = t
  BY Lists DEF Program
<1>5. \A t \in {"postgres", "redis"} : t \in setup.file.tables => t \in given[p]
  <2> SUFFICES ASSUME NEW t \in {"postgres", "redis"}, t \in setup.file.tables
               PROVE  t \in given[p]
    OBVIOUS
  <2>1. PICK i \in 1 .. 6 : Tables(p)[i] = t
    BY <1>4
  <2> QED
    BY <1>2, <2>1
<1>6. \A t \in {"postgres", "redis"} : t \in given[p] => t \in setup.file.tables
  BY TableNames DEF Ready, Faithful
<1> QED
  BY <1>2, <1>3, <1>5, <1>6

(* A program that gets past fillConfig has the optional of the storage it  *)
(* dereferences, a severity of the log, and numbers that are not 0 and     *)
(* were not cut by their static_cast, for every file.                      *)
THEOREM PreparedAlways == Spec => []Prepared
<1>1. ASSUME Inv
      PROVE  Prepared
  <2> SUFFICES ASSUME NEW p \in Program
               PROVE  /\ pc[p] # "makeUnfiltered"
                      /\ pc[p] \in {"make", "started"} =>
                           /\ Chosen(p) \in given[p]
                           /\ \A t \in given[p] : \A k \in DOMAIN Rule[t] : Rule[t][k].is = "integer" =>
                                /\ config[p][t][k].n >= 1
                                /\ setup.file.values[t][k].is = "integer" =>
                                     config[p][t][k] = setup.file.values[t][k]
    BY DEF Prepared
  <2>1. Ready(p) /\ Shapes
    BY <1>1 DEF Inv
  <2>2. ASSUME pc[p] \in {"make", "started"}
        PROVE  Chosen(p) \in given[p]
    BY <2>1, <2>2, PastTheList DEF HasStorage, Chosen
  <2>3. ASSUME NEW t \in given[p], NEW k \in DOMAIN Rule[t], Rule[t][k].is = "integer"
        PROVE  /\ config[p][t][k].n >= 1
               /\ setup.file.values[t][k].is = "integer" => config[p][t][k] = setup.file.values[t][k]
    <3>1. t \in Table
      BY <2>1 DEF Shapes
    <3>2. config[p][t] = FromFile(t) /\ ~Throws(Rule[t][k], setup.file.values[t][k])
      BY <2>1, <3>1 DEF Ready, Faithful
    <3> QED
      BY <2>1, <2>3, <3>1, <3>2, NumberKept DEF Shapes
  <2> QED
    BY <2>1, <2>2, <2>3 DEF Ready
<1> QED
  BY <1>1, InvHolds, PTL

(* gwfront and gwback, once both are started from the same tables, use the *)
(* same storage, for every file.                                           *)
THEOREM SameStorageAlways == Spec => []SameStorage
<1>1. ASSUME Inv
      PROVE  SameStorage
  <2> SUFFICES ASSUME \A p \in Program : pc[p] = "started"
               PROVE  storage["gwfront"] = storage["gwback"]
    BY DEF SameStorage
  <2>1. Shapes /\ \A p \in Program : Ready(p) /\ pc[p] \in {"make", "started"} /\ storage[p] = Made(p)
    BY <1>1 DEF Inv, Ready
  <2>2. \A p \in Program : /\ HasStorage(p)
                           /\ \A t \in {"postgres", "redis"} : t \in given[p] <=> t \in setup.file.tables
    BY <2>1, PastTheList
  <2>3. \A p \in Program : \A t \in {"postgres", "redis"} : t \in given[p] => config[p][t] = FromFile(t)
    BY <2>1, TableNames DEF Ready, Faithful
  <2>4. CASE "postgres" \in setup.file.tables
    <3>1. \A p \in Program : Chosen(p) = "postgres" /\ config[p].postgres = FromFile("postgres")
      BY <2>2, <2>3, <2>4 DEF Chosen
    <3>2. \A p \in Program : Made(p) = [kind |-> "postgres", values |-> libpq(connectionString(FromFile("postgres"))), address |-> ""]
      BY <3>1 DEF Made
    <3> QED
      BY <2>1, <3>2 DEF Program
  <2>5. CASE "postgres" \notin setup.file.tables
    <3>1. \A p \in Program : Chosen(p) = "redis" /\ config[p].redis = FromFile("redis")
      BY <2>2, <2>3, <2>5 DEF Chosen, HasStorage
    <3>2. \A p \in Program : Made(p) = [kind |-> "redis", values |-> Pairs(FromFile("redis")),
                                        address |-> resolveHost(FromFile("redis").host.s)]
      BY <3>1 DEF Made
    <3> QED
      BY <2>1, <3>2 DEF Program
  <2> QED
    BY <2>4, <2>5
<1> QED
  BY <1>1, InvHolds, PTL

(* What libpq makes of where it stands after the last word.                *)
Meaning(all) ==
  IF all.error THEN {}
  ELSE all.values \cup (IF all.key = "" THEN {} ELSE {<<all.key, all.rest>>})

(* libpq reads a string of five words one after the other.                 *)
LEMMA FiveWords ==
  ASSUME NEW words, Len(words) = 5
  PROVE  libpq(words) =
           Meaning(ReadWord(ReadWord(ReadWord(ReadWord(ReadWord(Unread, words[1]), words[2]), words[3]), words[4]), words[5]))
<1> DEFINE read[i \in 0 .. Len(words)] ==
             IF i = 0 THEN Unread ELSE ReadWord(read[i - 1], words[i])
<1> DEFINE Step(f) ==
             [i \in 0 .. Len(words) |->
                IF i = 0 THEN Unread ELSE ReadWord(f[i - 1], words[i])]
<1> DEFINE r1 == ReadWord(Unread, words[1])
           r2 == ReadWord(r1, words[2])
           r3 == ReadWord(r2, words[3])
           r4 == ReadWord(r3, words[4])
           r5 == ReadWord(r4, words[5])
<1>1. \E f : f = Step(f)
  <2> DEFINE f == [i \in 0 .. 5 |-> IF i = 0 THEN Unread ELSE <<r1, r2, r3, r4, r5>>[i]]
  <2> HIDE DEF r1, r2, r3, r4, r5
  <2>1. f[0] = Step(f)[0]
    OBVIOUS
  <2>2. f[1] = Step(f)[1] /\ f[2] = Step(f)[2] /\ f[3] = Step(f)[3] /\ f[4] = Step(f)[4] /\ f[5] = Step(f)[5]
    BY DEF r1, r2, r3, r4, r5
  <2>3. \A i \in 0 .. 5 : f[i] = Step(f)[i]
    <3> HIDE DEF f, Step
    <3> QED
      BY <2>1, <2>2
  <2>4. f = Step(f)
    BY <2>3
  <2> QED
    BY <2>4, Zenon
<1>2. read = Step(read)
  BY <1>1, Zenon
<1>3. libpq(words) = Meaning(read[Len(words)])
  BY Zenon DEF libpq, Meaning
<1> HIDE DEF read
<1>4. \A i \in 0 .. 5 : read[i] = IF i = 0 THEN Unread ELSE ReadWord(read[i - 1], words[i])
  BY <1>2
<1>5. read[5] = r5
  BY <1>4
<1> QED
  BY <1>3, <1>5

(* A value that libpq takes as it is.                                      *)
Plain(v) == v.s \notin DOMAIN Lexed

(* Where libpq stands after words that have added the parameters S.        *)
After(S) == [Unread EXCEPT !.values = S]

(* Its fields.                                                             *)
LEMMA AfterFields ==
  ASSUME NEW S
  PROVE  /\ After(S).key = "" /\ After(S).rest = Text("") /\ After(S).values = S /\ After(S).error = FALSE
         /\ DOMAIN After(S) = {"key", "rest", "values", "error"}
<1>1. DOMAIN Unread = {"key", "rest", "values", "error"}
  BY DEF Unread
<1>2. Unread.key = "" /\ Unread.rest = Text("") /\ Unread.error = FALSE
  BY Zenon DEF Unread
<1>3. After(S) = [Unread EXCEPT !.values = S]
  BY DEF After
<1> QED
  BY <1>1, <1>2, <1>3

(* The two fields of a value's reading.                                    *)
LEMMA LexFields ==
  \A l, e, v : l = [ends |-> e, value |-> v] => l.ends = e /\ l.value = v
OBVIOUS

(* A word with a keyword and a value that is not empty adds a parameter.   *)
LEMMA PlainWord ==
  ASSUME NEW S, NEW k, NEW v, v # Text(""), Plain(v)
  PROVE  ReadWord(After(S), <<k, v>>) = After(S \cup {<<k, v>>})
<1>1. Lex(v) = [ends |-> "word", value |-> v]
  BY Zenon DEF Lex, Plain
<1>2. Lex(v).ends = "word" /\ Lex(v).value = v
  BY <1>1, LexFields, Zenon
<1>3. <<k, v>>[1] = k /\ <<k, v>>[2] = v
  OBVIOUS
<1>4. After(S).key = "" /\ After(S).values = S
  BY AfterFields, Zenon
<1>5. ReadWord(After(S), <<k, v>>) = [After(S) EXCEPT !.values = @ \cup {<<k, v>>}]
  <2>1. ASSUME NEW read, NEW w, Lex(w[2]).ends = "word", read.key = ""
        PROVE  ReadWord(read, w) = [read EXCEPT !.values = @ \cup {<<w[1], Lex(w[2]).value>>}]
    <3>1. /\ ~(Lex(w[2]).ends = "blank" \/ (Lex(w[2]).ends = "quote" /\ read.key = ""))
          /\ ~(read.key # "") /\ Lex(w[2]).ends # "escape"
      BY <2>1
    <3> QED
      BY <3>1, ZenonT(60) DEF ReadWord
  <2>2. ReadWord(After(S), <<k, v>>)
        = [After(S) EXCEPT !.values = @ \cup {<<<<k, v>>[1], Lex(<<k, v>>[2]).value>>}]
    BY <1>2, <1>3, <1>4, <2>1
  <2> QED
    BY <1>2, <1>3, <2>2
<1>6. [After(S) EXCEPT !.values = @ \cup {<<k, v>>}] = After(S \cup {<<k, v>>})
  <2> DEFINE T == S \cup {<<k, v>>}
  <2>1. After(S).values \cup {<<k, v>>} = T
    BY <1>4
  <2>2. [After(S) EXCEPT !.values = T] = After(T)
    BY DEF After
  <2>3. [After(S) EXCEPT !.values = @ \cup {<<k, v>>}] = [After(S) EXCEPT !.values = T]
    <3> HIDE DEF T
    <3> QED
      BY <2>1
  <2> HIDE DEF T
  <2>4. [After(S) EXCEPT !.values = @ \cup {<<k, v>>}] = After(T)
    BY <2>2, <2>3, Zenon
  <2> QED
    BY <2>4, Zenon DEF T
<1> QED
  BY <1>5, <1>6

(* An empty value is kept if no word follows.                              *)
LEMMA LastWord ==
  ASSUME NEW S, NEW k, NEW v, k # "", Plain(v)
  PROVE  Meaning(ReadWord(After(S), <<k, v>>)) = S \cup {<<k, v>>}
<1>1. CASE v # Text("")
  <2> DEFINE T == S \cup {<<k, v>>}
  <2>1. ReadWord(After(S), <<k, v>>) = After(T)
    BY <1>1, PlainWord
  <2> HIDE DEF T
  <2>2. After(T).error = FALSE /\ After(T).values = T /\ After(T).key = ""
    BY AfterFields, Zenon
  <2>3. Meaning(After(T)) = T
    BY <2>2, Zenon DEF Meaning
  <2> QED
    BY <2>1, <2>3 DEF T
<1>2. CASE v = Text("")
  <2>1. Lex(v) = [ends |-> "escape", value |-> v]
    BY <1>2, Zenon DEF Lex, Plain
  <2>2. Lex(v).ends = "escape" /\ Lex(v).value = v
    BY <2>1, LexFields, Zenon
  <2>3. <<k, v>>[1] = k /\ <<k, v>>[2] = v
    OBVIOUS
  <2>4. After(S).key = ""
    BY AfterFields, Zenon
  <2> DEFINE last == [After(S) EXCEPT !.key = k, !.rest = v]
  <2>5. ReadWord(After(S), <<k, v>>) = last
    <3>1. ASSUME NEW read, NEW w, Lex(w[2]).ends = "escape", read.key = ""
          PROVE  ReadWord(read, w) = [read EXCEPT !.key = w[1], !.rest = Lex(w[2]).value]
      <4>1. ~(Lex(w[2]).ends = "blank" \/ (Lex(w[2]).ends = "quote" /\ read.key = "")) /\ ~(read.key # "")
        BY <3>1
      <4> QED
        BY <3>1, <4>1, ZenonT(60) DEF ReadWord
    <3>2. ReadWord(After(S), <<k, v>>)
          = [After(S) EXCEPT !.key = <<k, v>>[1], !.rest = Lex(<<k, v>>[2]).value]
      BY <2>2, <2>3, <2>4, <3>1
    <3> QED
      BY <2>2, <2>3, <3>2
  <2>6. After(S).error = FALSE /\ After(S).values = S
    BY AfterFields, Zenon
  <2>7. last.error = FALSE /\ last.values = S /\ last.key = k /\ last.rest = v
    <3>1. DOMAIN After(S) = {"key", "rest", "values", "error"}
      BY AfterFields
    <3> QED
      BY <2>6, <3>1
  <2> HIDE DEF last
  <2>8. Meaning(last) = S \cup {<<k, v>>}
    BY <2>7, Zenon DEF Meaning
  <2> QED
    BY <2>5, <2>8
<1> QED
  BY <1>1, <1>2

(* A table that is accepted is what the file asks for.                     *)
LEMMA ReadAsAsked ==
  ASSUME setup \in Setup, NEW t \in Table, NEW k \in DOMAIN Rule[t], ~Throws(Rule[t][k], setup.file.values[t][k])
  PROVE  FromFile(t)[k] = Asked(t, k)
<1> DEFINE rule == Rule[t][k]
           v == setup.file.values[t][k]
<1>1. FromFile(t)[k] = Parsed(rule, v)
  BY DEF FromFile
<1>2. Asked(t, k) = IF v.is = rule.is THEN v ELSE rule.default
  BY DEF Asked
<1>3. rule.is = "integer" /\ v.is = "integer" => Parsed(rule, v) = v
  BY <1>1, NumberKept
<1> HIDE DEF rule, v
<1>4. rule.is # "integer" => Cast(rule, v) = v
  BY DEF Cast
<1> QED
  BY <1>1, <1>2, <1>3, <1>4 DEF Parsed, Missing

(* The table [postgres] has the five parameters of the connection string,  *)
(* as the file asks for them, and only the password may be empty.          *)
LEMMA PostgresTable ==
  ASSUME setup \in Setup, \A k \in DOMAIN Rule["postgres"] : ~Throws(Rule["postgres"][k], setup.file.values["postgres"][k])
  PROVE  /\ DOMAIN Rule["postgres"] = {"host", "port", "database", "user", "password"}
         /\ DOMAIN FromFile("postgres") = DOMAIN Rule["postgres"]
         /\ \A k \in DOMAIN Rule["postgres"] : FromFile("postgres")[k] = Asked("postgres", k)
         /\ \A k \in {"host", "port", "database", "user"} : Asked("postgres", k) # Text("")
<1>1. DOMAIN Rule["postgres"] = {"host", "port", "database", "user", "password"}
  BY DEF Rule
<1>3. "postgres" \in Table
  BY TableNames
<1>4. \A k \in DOMAIN Rule["postgres"] : FromFile("postgres")[k] = Asked("postgres", k)
  BY <1>3, ReadAsAsked
<1>5. ASSUME NEW k \in {"host", "database", "user"}
      PROVE  Asked("postgres", k) # Text("")
  <2> DEFINE rule == Rule["postgres"][k]
             v == setup.file.values["postgres"][k]
  <2>1. Rule["postgres"][k] = Host
    BY DEF Rule
  <2>2. rule.is = "string" /\ rule.default = Absent /\ rule.empty = FALSE
    <3>1. Host.is = "string" /\ Host.default = Absent /\ Host.empty = FALSE
      BY Zenon DEF Host, String
    <3> QED
      BY <2>1, <3>1
  <2>3. ~Throws(rule, v)
    BY <1>1
  <2>4. Asked("postgres", k) = IF v.is = rule.is THEN v ELSE rule.default
    BY DEF Asked
  <2> HIDE DEF rule, v
  <2>5. v.is = "string" /\ v.s # ""
    BY <2>2, <2>3 DEF Throws, Missing, Within
  <2>6. Asked("postgres", k) = v
    BY <2>2, <2>4, <2>5, Zenon
  <2> DEFINE asked == Asked("postgres", k)
             empty == Text("")
  <2>7. empty.s = "" /\ asked = v
    BY <2>6 DEF Text
  <2> HIDE DEF asked, empty
  <2>8. asked # empty
    BY <2>5, <2>7
  <2> QED
    BY <2>8 DEF asked, empty
<1>6. Asked("postgres", "port") # Text("")
  <2> DEFINE rule == Rule["postgres"]["port"]
             v == setup.file.values["postgres"]["port"]
             d == Int64(5432)
             asked == Asked("postgres", "port")
             empty == Text("")
  <2>1. rule = Port(d)
    BY DEF Rule
  <2>2. rule.is = "integer" /\ rule.default = d
    <3>1. \A x : Port(x).is = "integer"
      BY DEF Port, Number
    <3>2. \A x : Port(x).default = x
      BY DEF Port, Number
    <3> HIDE DEF rule, d
    <3> QED
      BY <2>1, <3>1, <3>2
  <2>3. asked = IF v.is = rule.is THEN v ELSE rule.default
    BY DEF Asked
  <2>4. d.is = "integer" /\ empty.is = "string"
    BY DEF Text, Int64
  <2> HIDE DEF rule, v, d, asked, empty
  <2>5. asked = v \/ asked = d
    BY <2>2, <2>3, Zenon
  <2>6. asked = v => v.is = "integer" \/ asked = d
    BY <2>2, <2>3, Zenon
  <2>7. asked # empty
    BY <2>4, <2>5, <2>6
  <2> QED
    BY <2>7 DEF asked, empty
<1> QED
  BY <1>1, <1>4, <1>5, <1>6 DEF FromFile

(* libpq reads five plain parameters as they are, if none but the last is  *)
(* empty.                                                                  *)
LEMMA ReadAsGiven ==
  ASSUME NEW c, DOMAIN c = {"host", "port", "database", "user", "password"},
         \A k \in {"host", "port", "database", "user"} : c[k] # Text(""),
         \A k \in DOMAIN c : Plain(c[k])
  PROVE  libpq(connectionString(c)) = Pairs(c)
<1> DEFINE w1 == <<"host", c.host>>
           w2 == <<"port", c.port>>
           w3 == <<"database", c.database>>
           w4 == <<"user", c.user>>
           w5 == <<"password", c.password>>
<1> DEFINE S1 == {} \cup {w1}
           S2 == S1 \cup {w2}
           S3 == S2 \cup {w3}
           S4 == S3 \cup {w4}
<1>0. Unread = After({})
  <2>1. Unread.values = {}
    BY Zenon DEF Unread
  <2>2. Unread = [x \in DOMAIN Unread |-> Unread[x]]
    BY DEF Unread
  <2> QED
    BY <2>1, <2>2 DEF After
<1>1. ReadWord(After({}), w1) = After(S1)
  BY PlainWord
<1>2. ReadWord(After(S1), w2) = After(S2)
  <2> HIDE DEF S1
  <2> QED
    BY PlainWord
<1>3. ReadWord(After(S2), w3) = After(S3)
  <2> HIDE DEF S2
  <2> QED
    BY PlainWord
<1>4. ReadWord(After(S3), w4) = After(S4)
  <2> HIDE DEF S3
  <2> QED
    BY PlainWord
<1>5. Meaning(ReadWord(After(S4), w5)) = S4 \cup {w5}
  <2> HIDE DEF S4
  <2> QED
    BY LastWord
<1>6. libpq(connectionString(c)) = S4 \cup {w5}
  <2> HIDE DEF w1, w2, w3, w4, w5, S1, S2, S3, S4
  <2> DEFINE r == ReadWord(ReadWord(ReadWord(ReadWord(Unread, w1), w2), w3), w4)
  <2>1. r = After(S4)
    BY <1>0, <1>1, <1>2, <1>3, <1>4, Zenon
  <2> HIDE DEF r
  <2>2. libpq(connectionString(c)) = Meaning(ReadWord(r, w5))
    <3> DEFINE words == connectionString(c)
    <3>1. Len(words) = 5 /\ words[1] = w1 /\ words[2] = w2 /\ words[3] = w3 /\ words[4] = w4 /\ words[5] = w5
      BY DEF connectionString, w1, w2, w3, w4, w5
    <3> HIDE DEF words
    <3>2. libpq(words) = Meaning(ReadWord(r, w5))
      BY <3>1, FiveWords DEF r
    <3> QED
      BY <3>2 DEF words
  <2> QED
    BY <1>5, <2>1, <2>2, Zenon
<1> QED
  BY <1>6 DEF Pairs

(* libpq connects with the parameters that the file has, a default where   *)
(* it has none and an empty password included, for every file whose        *)
(* strings have no blank, no backslash and no quote in front.              *)
THEOREM AsConfiguredAlways == Spec => []AsConfigured
<1>1. ASSUME Inv
      PROVE  AsConfigured
  <2> DEFINE K == DOMAIN Rule.postgres
  <2> SUFFICES ASSUME NEW p \in Program, storage[p].kind = "postgres",
                      \A k \in K : Asked("postgres", k).s \notin DOMAIN Lexed
               PROVE  storage[p].values = {<<k, Asked("postgres", k)>> : k \in K}
    BY DEF AsConfigured
  <2>1. Shapes /\ Ready(p)
    BY <1>1 DEF Inv
  <2>2. storage[p] = Made(p) /\ Chosen(p) = "postgres" /\ "postgres" \in given[p]
    <3>1. NoStorage.kind = "none" /\ \A S, a : [kind |-> "redis", values |-> S, address |-> a].kind = "redis"
      BY DEF NoStorage
    <3>2. pc[p] = "started" /\ storage[p] = Made(p)
      BY <2>1, <3>1, Zenon DEF Ready
    <3>3. Chosen(p) = "postgres"
      BY <3>1, <3>2, Zenon DEF Made
    <3> QED
      BY <2>1, <3>2, <3>3, PastTheList DEF Chosen, HasStorage
  <2>3. /\ config[p].postgres = FromFile("postgres") /\ setup \in Setup
        /\ \A k \in K : ~Throws(Rule["postgres"][k], setup.file.values["postgres"][k])
    BY <2>1, <2>2, TableNames DEF Ready, Faithful, Shapes
  <2> DEFINE c == FromFile("postgres")
  <2>4. /\ K = {"host", "port", "database", "user", "password"} /\ DOMAIN c = K
        /\ \A k \in K : c[k] = Asked("postgres", k)
        /\ \A k \in {"host", "port", "database", "user"} : Asked("postgres", k) # Text("")
    BY <2>3, PostgresTable
  <2> HIDE DEF c, K
  <2>5. \A k \in DOMAIN c : Plain(c[k])
    BY <2>4 DEF Plain
  <2>6. libpq(connectionString(c)) = Pairs(c)
    <3>1. \A k \in {"host", "port", "database", "user"} : c[k] # Text("")
      BY <2>4
    <3> QED
      BY <2>4, <2>5, <3>1, ReadAsGiven
  <2>7. Pairs(c) = {<<k, Asked("postgres", k)>> : k \in K}
    BY <2>4 DEF Pairs
  <2>8. Made(p) = [kind |-> "postgres", values |-> Pairs(c), address |-> ""]
    BY <2>2, <2>3, <2>6, Zenon DEF Made, c
  <2>9. \A S : [kind |-> "postgres", values |-> S, address |-> ""].values = S
    OBVIOUS
  <2>10. storage[p].values = Pairs(c)
    BY <2>2, <2>8, <2>9, Zenon
  <2> QED
    BY <2>7, <2>10
<1> QED
  BY <1>1, InvHolds, PTL
=============================================================================
