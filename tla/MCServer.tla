------------------------------ MODULE MCServer ------------------------------
(* Small instances of Server: ra is a batch of two states, with a question   *)
(* of its own and one it shares with rb.                                     *)
EXTENDS Server

CONSTANTS ra, rb, k1, k2

Config(maxBatch, ks) ==
    [maxBatch |-> maxBatch, maxQuestions |-> 2, pending |-> [m \in {"english"} |-> 4], keys |-> ks,
     tokenizeThreads |-> 1, tokenizeQueue |-> 2, timeout |-> 1, redisTimeout |-> 1]
Key(rps, burst) == [a \in {"acme"} |-> [rps |-> rps, burst |-> burst]]

BootConfig == Config(2, Key(1, 3))
\* The same keys; a burst that goes with lower limits; no key; an invalid burst.
SomeFiles  == {BootConfig, Config(1, Key(1, 1)), Config(2, [a \in {} |-> 0]), Config(2, Key(2, 1))}

TheItems == [r \in Conns |-> IF r = ra THEN <<{k1}, {k1, k2}>> ELSE <<{k1}>>]
OneKey   == [r \in Conns |-> "acme"]
\* k1 is malformed in Redis, k2 is there.
Redis    == {[k \in CacheKeys |-> IF k = k1 THEN "bad" ELSE "good"]}
=============================================================================
