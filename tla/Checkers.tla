------------------------------ MODULE Checkers ------------------------------
(***************************************************************************)
(* gwfront's JsonChecker and FlatbuffersChecker: check() field by field.   *)
(* A body is well-formed or not, and gives a value to each field of an     *)
(* Instrument.  JSON that is no object has no fields, so that find() meets *)
(* it as an object without any.                                            *)
(***************************************************************************)
EXTENDS Naturals

CONSTANTS
  Ints, Doubles, Strs,  \* how many fields of each kind: 6, 6 and 32
  Document              \* the values of the fields clients send

VARIABLES
  type,        \* the checker there is: "json" or "flatbuffers"; "none" before makeHandler
  wellFormed,  \* nlohmann's parser or the flatbuffers::Verifier accept it
  document,    \* the value of each field
  next,        \* the field to look at; 0 before the body is parsed
  result       \* what check() returned, Unknown while it runs, or NoCall

checkerVars == <<type, wellFormed, document, next, result>>

Kind(i) == IF i <= Ints THEN "int" ELSE IF i <= Ints + Doubles THEN "double" ELSE "str"
Field == 1 .. Ints + Doubles + Strs

(* "unsigned" is an integer too large for an int64_t; "other" is null, a   *)
(* boolean, an array or an object.                                         *)
Value == {"missing", "integer", "unsigned", "float", "string", "empty", "other"}

(* What a flatbuffer can hold in a field of its schema.  A number that is  *)
(* not there reads as the default, like one that is.                       *)
Storable ==
  [int |-> {"missing", "integer"}, double |-> {"missing", "float"},
   str |-> {"missing", "string", "empty"}]
Encodable(body) == \A i \in Field : body[i] \in Storable[Kind(i)]

ASSUME FieldsAssumption == Ints \in Nat /\ Doubles \in Nat /\ Strs \in Nat
ASSUME DocumentAssumption == Document \subseteq [Field -> Value]

NoCall == [ok |-> FALSE, field |-> 0, why |-> "no call"]
Unknown == [ok |-> FALSE, field |-> 0, why |-> "unknown"]
Rejected(i, why) == [ok |-> FALSE, field |-> i, why |-> why]
Accepted == [ok |-> TRUE, field |-> 0, why |-> ""]

CheckerInit ==
  /\ type = "none" /\ wellFormed = FALSE /\ document = <<>>
  /\ next = 0 /\ result = NoCall

(* UniversalHandler calls check() with the body of a request.  check()     *)
(* keeps nothing from call to call, so that one call tells all.            *)
Check ==
  /\ type # "none" /\ result = NoCall
  /\ document' \in Document /\ wellFormed' \in BOOLEAN
  /\ type = "flatbuffers" => Encodable(document')
  /\ result' = Unknown
  /\ UNCHANGED <<type, next>>

(* Mutant: the loop over the strings ends one too early.                   *)
EndTooEarly == Ints + Doubles + Strs

End == Ints + Doubles + Strs + 1

(* Only the strings of a flatbuffer can be missing.                        *)
First == IF type = "json" THEN 1 ELSE Ints + Doubles + 1

Parse ==
  /\ result = Unknown /\ next = 0
  /\ \/ wellFormed /\ next' = First /\ UNCHANGED result
     \/ ~wellFormed /\ result' = Rejected(0, "invalid") /\ UNCHANGED next
  /\ UNCHANGED <<type, wellFormed, document>>

(* checkIntegerField, checkDoubleField, checkStringField                   *)
JsonField(i) ==
  LET v == document[i]
      fits == [int |-> {"integer", "unsigned"},
               double |-> {"float", "integer", "unsigned"},
               str |-> {"string", "empty"}] IN
  IF v = "missing" THEN Rejected(i, "missing")
  ELSE IF v \notin fits[Kind(i)] THEN Rejected(i, "wrong")
  ELSE Accepted

(* One of the 32 blocks of FlatbuffersChecker::check.                      *)
FlatbuffersField(i) ==
  IF document[i] \in {"missing", "empty"} THEN Rejected(i, "missing") ELSE Accepted

(* A bad field ends check(), a good one leads to the next.                 *)
AfterField(r) ==
  IF r.ok THEN next' = next + 1 /\ UNCHANGED result ELSE result' = r /\ UNCHANGED next

CheckField ==
  /\ result = Unknown /\ next \in 1 .. End - 1
  /\ AfterField(IF type = "json" THEN JsonField(next) ELSE FlatbuffersField(next))
  /\ UNCHANGED <<type, wellFormed, document>>

Accept ==
  /\ result = Unknown /\ next = End
  /\ result' = Accepted
  /\ UNCHANGED <<type, wellFormed, document, next>>

CheckerNext == Check \/ Parse \/ CheckField \/ Accept
-----------------------------------------------------------------------------
(* What an Instrument has to have: integers, numbers and strings where the *)
(* schema says so, and in a flatbuffer no string that is empty.            *)
Right(i) ==
  IF type = "flatbuffers" THEN Kind(i) = "str" => document[i] = "string"
  ELSE document[i] \in CASE Kind(i) = "int" -> {"integer", "unsigned"}
                         [] Kind(i) = "double" -> {"integer", "unsigned", "float"}
                         [] Kind(i) = "str" -> {"string", "empty"}

(* check() accepts exactly the bodies that are well-formed and right in    *)
(* every field, the last of each kind included, and otherwise names the    *)
(* first field that is not right.  It calls that one missing although it   *)
(* is there only in the case of an empty string in a flatbuffer.           *)
Verdict ==
  result \notin {NoCall, Unknown} =>
    /\ result.ok <=> wellFormed /\ \A i \in Field : Right(i)
    /\ wellFormed /\ ~result.ok =>
         /\ ~Right(result.field) /\ \A i \in 1 .. result.field - 1 : Right(i)
         /\ result.why = "missing" <=>
              \/ document[result.field] = "missing"
              \/ type = "flatbuffers" /\ document[result.field] = "empty"
=============================================================================
