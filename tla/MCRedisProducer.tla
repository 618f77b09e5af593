-------------------------- MODULE MCRedisProducer --------------------------
(***************************************************************************)
(* An instance of RedisProducer for TLC: entries of two timestamps, with   *)
(* the smallest and the largest sequence number and timestamp that fit.    *)
(***************************************************************************)
EXTENDS RedisProducer

MCEntry == {<<1, 3>>, <<2, 0>>, <<7, 3>>}
=============================================================================
