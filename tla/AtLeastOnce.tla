---------------------------- MODULE AtLeastOnce ----------------------------
(***************************************************************************)
(* What the back half of the gateway promises the front half: a message    *)
(* stays pending until the receiving process that acknowledges it has      *)
(* taken it.  Taking may repeat; a new process starts with nothing taken.  *)
(***************************************************************************)
CONSTANT Id
VARIABLES pending, accepted, taken

vars == <<pending, accepted, taken>>

Init == pending = {} /\ accepted = {} /\ taken = {}

Accept(m) ==
  /\ m \notin accepted
  /\ accepted' = accepted \cup {m}
  /\ pending' = pending \cup {m}
  /\ UNCHANGED taken

Take(m) ==
  /\ m \in pending
  /\ taken' = taken \cup {m}
  /\ UNCHANGED <<pending, accepted>>

Acknowledge(S) ==
  /\ S \subseteq taken
  /\ pending' = pending \ S
  /\ UNCHANGED <<accepted, taken>>

NewReceiver ==
  /\ taken' = {}
  /\ UNCHANGED <<pending, accepted>>

Next ==
  \/ \E m \in Id : Accept(m) \/ Take(m)
  \/ \E S \in SUBSET Id : Acknowledge(S)
  \/ NewReceiver

Spec == Init /\ [][Next]_vars
=============================================================================
