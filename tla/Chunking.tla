------------------------------ MODULE Chunking ------------------------------
(***************************************************************************)
(* How the producers cut a storage into chunks.                            *)
(***************************************************************************)
EXTENDS Naturals, Sequences, SequencesExt

CONSTANT ProducerChunk  \* ProducerConfig::chunkSize

ASSUME ProducerChunkAssumption == ProducerChunk \in Nat \ {0}

(* Mutant: no ORDER BY.                                                    *)
ChunksUnsorted(S) == {c \in BoundedSeq(S, ProducerChunk) : IsInjective(c) /\ (c = <<>> => S = {})}

(* The one answer of getNext() on a storage with the ids S, in a set: the  *)
(* ProducerChunk smallest of them, ascending.                              *)
Chunks(S) ==
  {c \in BoundedSeq(S, ProducerChunk) :
     /\ \A i, j \in DOMAIN c : i < j => c[i] < c[j]
     /\ \A m \in S \ Range(c) : Len(c) = ProducerChunk /\ \A i \in DOMAIN c : c[i] < m}
=============================================================================
