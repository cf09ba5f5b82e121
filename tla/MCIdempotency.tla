---------------------------- MODULE MCIdempotency ----------------------------
(* Small instances of Idempotency.  With two instances, the first request is *)
(* served by i1 and has another body than the others, which i2 serves and    *)
(* which are interchangeable.                                                *)
EXTENDS IdempotencyLeases, TLC

CONSTANTS ra, rb, rc, i1, i2

OneInstance  == [r \in Requests |-> i1]
TwoInstances == [r \in Requests |-> IF r = ra THEN i1 ELSE i2]
OneBody      == [r \in Requests |-> 1]
OtherBody    == [r \in Requests |-> IF r = ra THEN 2 ELSE 1]
Symmetry     == Permutations({rb, rc})
==============================================================================
