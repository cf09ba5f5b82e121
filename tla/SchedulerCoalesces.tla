------------------------- MODULE SchedulerCoalesces -------------------------
(***************************************************************************)
(* Scheduler implements Coalescing: a WorkItem computes from its           *)
(* registration until its drop begins, and a request waits for those of    *)
(* its subscriptions that still compute.                                   *)
(***************************************************************************)
EXTENDS Scheduler

Computing == {g \in Gens : phase[g] \in Queued \cup Running}

C == INSTANCE Coalescing WITH
        Computations <- Gens,
        result  <- [r \in Requests |-> IF pc[r] \in Ended THEN pc[r] ELSE "asked"],
        waits   <- [r \in Requests |-> subs[r] \cap Computing],
        running <- Computing,
        keyOf   <- itemKey,
        known   <- cached

\* Behind the map, the queue and the worker threads there is one computation
\* per wanted key: no interleaving of requests that join, leave or time out,
\* of sweeps, of drops in four steps and of re-admissions begins a second one,
\* revives an abandoned one, takes a subscription away from a running one, or
\* answers a request with a key missing.
ImplementsCoalescing == C!Spec
=============================================================================
