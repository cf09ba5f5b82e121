------------------------- MODULE IdempotencyLeases -------------------------
(***************************************************************************)
(* Idempotency implements KeyLease: a pending record is the key, held by   *)
(* its owner, a done record is the response kept, and a request runs while *)
(* decide_items does.                                                      *)
(***************************************************************************)
EXTENDS Idempotency

\* What a request has come to: begin, its two ways on, and finish or no more.
Outcome(r) ==
    CASE pc[r] \in {"idle"} \cup Beginning -> "asked"
      [] pc[r] = "run"                     -> "running"
      [] pc[r] = "replay"                  -> "replayed"
      [] OTHER                             -> "ended"

OwnerOf(rec, kind) == IF rec.kind = kind THEN rec.owner ELSE None

Consulted == [r \in Requests |-> {Redis, InstanceOf[r]}]
Results   == [r \in Requests |-> Outcome(r)]
Holders   == [s \in Stores |-> OwnerOf(store[s], "pending")]
Kepts     == [s \in Stores |-> OwnerOf(store[s], "done")]
Seens     == [r \in Requests |-> OwnerOf(read[r], "done")]

L == INSTANCE KeyLease WITH
        Consults <- Consulted,
        result   <- Results,
        at       <- guard,
        holder   <- Holders,
        kept     <- Kepts,
        seen     <- Seens

\* Behind the TTLs, the Redis commands and the fallback to the in-process map
\* there is one key per store that one request holds at a time: no timeout, lost
\* or late command, disconnect or expiry lets a second request run with it,
\* takes it from a request that runs, leaves the response of one that did not
\* run, replaces one that is kept, or replays one of another body.
ImplementsLease == L!Spec
=============================================================================
