---------------------------- MODULE MCWorkerPool ----------------------------
(* Small instances of WorkerPool.                                          *)
EXTENDS WorkerPool

\* A longer item, then two that could join it.
MixedLens == [i \in Items |-> IF i = 1 THEN 3 ELSE 2]
=============================================================================
