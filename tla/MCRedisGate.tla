---------------------------- MODULE MCRedisGate -----------------------------
(* Instances of RedisGate for TLC: an order that two switches stop.         *)
EXTENDS RedisGate

CONSTANTS everything, asset

Alike == Permutations(Processes) \cup Permutations(Copies)

StoppedBy == <<{everything, asset}>>
=============================================================================
