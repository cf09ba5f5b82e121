----------------------------- MODULE Coalescing -----------------------------
(***************************************************************************)
(* What the scheduler promises, without its queue, batcher and workers:    *)
(* requests ask for keys, a key that somebody waits for is computed once,  *)
(* an abandoned computation is never waited for again, and only a request  *)
(* all of whose keys were computed is answered.  Module                    *)
(* SchedulerCoalesces says how Scheduler implements it.                    *)
(***************************************************************************)
EXTENDS FiniteSets, Functions

CONSTANTS
    Requests, Keys,
    Asks,         \* the keys a request wants
    Computations, \* the names of computations
    None

Failures == {"overloaded", "deadline", "backend", "gone"}

VARIABLES
    result,   \* of a request: "asked" until it ends
    waits,    \* the computations a request waits for
    running,  \* the computations that were begun and have not ended
    keyOf,    \* the key a computation computes
    known     \* the keys some computation has computed

vars == <<result, waits, running, keyOf, known>>

\* The computations of k that some request waits for.
Wanted(k) == {c \in running : keyOf[c] = k /\ \E r \in Requests : c \in waits[r]}

Init ==
    /\ result = [r \in Requests |-> "asked"]
    /\ waits = [r \in Requests |-> {}]
    /\ running = {}
    /\ keyOf = [c \in Computations |-> None]
    /\ known = {}

\* r waits for some of its keys: for the computation of a key that others wait
\* for already, and for one begun now of each of the others.
Ask(r) ==
    /\ result[r] = "asked" /\ waits[r] = {}
    /\ \E K \in SUBSET Asks[r], new \in SUBSET (Computations \ running) :
          LET missing == {k \in K : Wanted(k) = {}} IN
          \E of \in Bijection(new, missing) :
            /\ keyOf' = [c \in Computations |-> IF c \in new THEN of[c] ELSE keyOf[c]]
            /\ running' = running \cup new
            /\ waits' = [waits EXCEPT ![r] = new \cup UNION {Wanted(k) : k \in K}]
    /\ UNCHANGED <<result, known>>

Learn(c) ==
    /\ c \in running
    /\ known' = known \cup {keyOf[c]}
    /\ UNCHANGED <<result, waits, running, keyOf>>

\* A computation ends, with an answer or without: nobody waits for it any more.
End(c) ==
    /\ c \in running
    /\ running' = running \ {c}
    /\ waits' = [r \in Requests |-> waits[r] \ {c}]
    /\ UNCHANGED <<result, keyOf, known>>

Answer(r) ==
    /\ result[r] = "asked" /\ waits[r] = {}
    /\ Asks[r] \subseteq known
    /\ result' = [result EXCEPT ![r] = "ok"]
    /\ UNCHANGED <<waits, running, keyOf, known>>

\* r fails or leaves; what only r waited for is never waited for again.
Fail(r) ==
    /\ result[r] = "asked"
    /\ \E why \in Failures : result' = [result EXCEPT ![r] = why]
    /\ waits' = [waits EXCEPT ![r] = {}]
    /\ UNCHANGED <<running, keyOf, known>>

Next ==
    \/ \E r \in Requests : Ask(r) \/ Answer(r) \/ Fail(r)
    \/ \E c \in Computations : Learn(c) \/ End(c)

Spec == Init /\ [][Next]_vars
=============================================================================
