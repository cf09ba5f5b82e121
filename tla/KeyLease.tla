------------------------------ MODULE KeyLease ------------------------------
(***************************************************************************)
(* What an Idempotency-Key promises, without its records' clocks and       *)
(* without commands that are late or lost.  In each store the key is held  *)
(* by one request at a time or keeps one response.  A request runs only    *)
(* with the key that it took itself, nothing takes the key from it while   *)
(* it runs, only a request that ran leaves its response, and only a kept   *)
(* response of the same body is replayed.  Module IdempotencyLeases says   *)
(* how Idempotency implements it.                                          *)
(***************************************************************************)
CONSTANTS
    Requests, Stores,
    Consults,   \* the stores that a request may ask for the key
    BodyOf,     \* a request's body
    None

VARIABLES
    result,     \* of a request: "asked" until it runs, is replayed or ends
    at,         \* the store whose key a request was let run with
    holder,     \* the request that holds a store's key
    kept,       \* the request whose response a store keeps
    seen        \* the request whose response a request has seen kept

vars == <<result, at, holder, kept, seen>>

Init ==
    /\ result = [r \in Requests |-> "asked"]
    /\ at = [r \in Requests |-> None]
    /\ holder = [s \in Stores |-> None]
    /\ kept = [s \in Stores |-> None]
    /\ seen = [r \in Requests |-> None]

Free(s)    == holder[s] = None /\ kept[s] = None
RunsWith(s) == \E r \in Requests : result[r] = "running" /\ at[r] = s

Take(r) ==
    /\ result[r] = "asked"
    /\ \E s \in Consults[r] :
          /\ Free(s)
          /\ holder' = [holder EXCEPT ![s] = r]
          /\ at' = [at EXCEPT ![r] = s]
    /\ result' = [result EXCEPT ![r] = "running"]
    /\ UNCHANGED <<kept, seen>>

\* A key that r asked for and no longer waits for becomes r's, which will
\* neither run with it nor leave a response there.
Stray(r) ==
    /\ \E s \in Consults[r] :
          /\ Free(s) /\ at[r] # s
          /\ holder' = [holder EXCEPT ![s] = r]
    /\ UNCHANGED <<result, at, kept, seen>>

\* What r may know of: what it has seen, and what is kept now.
Known(r) == {seen[r]} \cup {kept[s] : s \in Consults[r]}

Look(r) ==
    /\ result[r] = "asked"
    /\ \E q \in Known(r) : seen' = [seen EXCEPT ![r] = q]
    /\ UNCHANGED <<result, at, holder, kept>>

Replay(r) ==
    /\ result[r] = "asked"
    /\ \E q \in Known(r) :
          /\ q # None /\ BodyOf[q] = BodyOf[r]
          /\ seen' = [seen EXCEPT ![r] = q]
    /\ result' = [result EXCEPT ![r] = "replayed"]
    /\ UNCHANGED <<at, holder, kept>>

\* r is refused, or gives up.
Refuse(r) ==
    /\ result[r] = "asked"
    /\ \E q \in Known(r) : seen' = [seen EXCEPT ![r] = q]
    /\ result' = [result EXCEPT ![r] = "ended"]
    /\ UNCHANGED <<at, holder, kept>>

\* r leaves its response in place of the key it holds.
Leaves(r) ==
    /\ holder[at[r]] = r
    /\ holder' = [holder EXCEPT ![at[r]] = None]
    /\ kept' = [kept EXCEPT ![at[r]] = r]

\* r gives back the key it holds.
GivesBack(r) ==
    /\ holder[at[r]] = r
    /\ holder' = [holder EXCEPT ![at[r]] = None]
    /\ UNCHANGED kept

\* r's run ends, and what it does with the key may come later.
End(r) ==
    /\ result[r] = "running"
    /\ Leaves(r) \/ GivesBack(r) \/ UNCHANGED <<holder, kept>>
    /\ result' = [result EXCEPT ![r] = "ended"]
    /\ UNCHANGED <<at, seen>>

Keep(r) ==
    /\ result[r] = "ended" /\ at[r] # None
    /\ Leaves(r)
    /\ UNCHANGED <<result, at, seen>>

\* Some stores, with whose key nobody runs, forget the key.
Lapse ==
    /\ \E S \in SUBSET {s \in Stores : ~ RunsWith(s)} :
          /\ holder' = [s \in Stores |-> IF s \in S THEN None ELSE holder[s]]
          /\ kept' = [s \in Stores |-> IF s \in S THEN None ELSE kept[s]]
    /\ UNCHANGED <<result, at, seen>>

Next ==
    \/ \E r \in Requests :
          \/ Take(r) \/ Stray(r) \/ Look(r) \/ Replay(r) \/ Refuse(r)
          \/ End(r) \/ Keep(r)
    \/ Lapse

Spec == Init /\ [][Next]_vars
=============================================================================
