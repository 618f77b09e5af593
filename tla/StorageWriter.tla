--------------------------- MODULE StorageWriter ---------------------------
(***************************************************************************)
(* What UniversalHandler expects of a Writer: a call of write() ends with  *)
(* one of three results, having put a number of copies of the message into *)
(* the storage that Promise allows for that result.                        *)
(***************************************************************************)
EXTENDS Naturals

CONSTANTS
  Thread,   \* the threads that call write()
  Error,    \* enum class Error
  Promise   \* the records [error, copies] a call may end with

VARIABLES
  busy,    \* the threads inside write()
  copies,  \* how many copies the last or current call of a thread stored
  error    \* the result of a thread's last finished call

vars == <<busy, copies, error>>

Init ==
  /\ busy = {}
  /\ copies = [t \in Thread |-> 0]
  /\ error \in [Thread -> Error]

Call(t) ==
  /\ t \notin busy
  /\ busy' = busy \cup {t}
  /\ copies' = [copies EXCEPT ![t] = 0]
  /\ UNCHANGED error

Store(t) ==
  /\ t \in busy
  /\ copies' = [copies EXCEPT ![t] = @ + 1]
  /\ UNCHANGED <<busy, error>>

(* The last copy may be stored in the step that returns.                   *)
Return(t) ==
  /\ t \in busy
  /\ busy' = busy \ {t}
  /\ \E p \in Promise :
       /\ p.copies \in {copies[t], copies[t] + 1}
       /\ copies' = [copies EXCEPT ![t] = p.copies]
       /\ error' = [error EXCEPT ![t] = p.error]

Next == \E t \in Thread : Call(t) \/ Store(t) \/ Return(t)

Spec == Init /\ [][Next]_vars
=============================================================================
