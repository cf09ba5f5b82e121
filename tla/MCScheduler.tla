---------------------------- MODULE MCScheduler ----------------------------
(* Small instances of Scheduler.                                           *)
EXTENDS SchedulerCoalesces, TLC

CONSTANTS r1, r2, r3, k1, k2, m1, m2, w1, w2

\* One model with one worker.
OneModel       == [k \in Keys |-> m1]
OneWorkerModel == [w \in Workers |-> m1]
UnitLen        == [k \in Keys |-> 1]

\* Requests of one key, r2's deadline the later.
AskK1          == [r \in Requests |-> {k1}]
EarlyLate      == [r \in Requests |-> IF r = r1 THEN 1 ELSE 2]
OnePermit      == [m \in Models |-> 1]
TwoPermits     == [m \in Models |-> 2]

\* r1 wants a key of each of two models, r2 only the second's.
KeyModel       == [k \in Keys |-> IF k = k1 THEN m1 ELSE m2]
TwoWorkerModel == [w \in Workers |-> IF w = w1 THEN m1 ELSE m2]
AskBoth        == [r \in Requests |-> IF r = r1 THEN {k1, k2} ELSE {k2}]
TwoLens        == [k \in Keys |-> IF k = k1 THEN 2 ELSE 3]
AllAtOne       == [r \in Requests |-> 1]

\* Two requests of the same key and deadline can be exchanged.
LaterOnes == Permutations({r2, r3})
=============================================================================
