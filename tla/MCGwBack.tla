------------------------------ MODULE MCGwBack ------------------------------
(***************************************************************************)
(* Constants of the TLC runs of GwBack.                                    *)
(***************************************************************************)
EXTENDS GwBack

Budget(get, mark, spawn, disk, crash, signal) ==
  [e \in Event |-> CASE e = "get"    -> get
                     [] e = "mark"   -> mark
                     [] e = "spawn"  -> spawn
                     [] e = "disk"   -> disk
                     [] e = "crash"  -> crash
                     [] e = "signal" -> signal]

ThreeIds == 1 .. 3
FourIds == 1 .. 4

\* lengths: two bytes each, so that a write may stop within a message; or
\* one message longer than the others
OneLength == [i \in Id |-> 2]
ThirdLonger == [i \in Id |-> IF i = 3 THEN 2 ELSE 1]

\* storage faults only
StorageFaults == Budget(1, 3, 0, 0, 0, 0)
\* the same, and a file that cannot be written
StorageAndDiskFaults == Budget(1, 3, 0, 1, 0, 0)
\* every kind of event once
EveryEvent == Budget(1, 1, 1, 1, 1, 1)
\* the storage fails now and then, then a stop
StopAfterFaults == Budget(1, 1, 0, 0, 0, 1)
=============================================================================
