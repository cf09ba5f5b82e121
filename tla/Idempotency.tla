----------------------------- MODULE Idempotency -----------------------------
(***************************************************************************)
(* src/idempotency.rs with its caller, run in src/api.rs: the record of    *)
(* one Idempotency-Key, in Redis for all instances or in the map of one.   *)
(*                                                                         *)
(* A command to Redis is executed while the request awaits it, or the      *)
(* request gives up (an error, redis_timeout, its deadline, its client     *)
(* gone) and the command is executed later or lost.  Time is kept as what  *)
(* is left of each timeout and TTL; a timeout is acted on before the next  *)
(* unit of time begins.                                                    *)
(*                                                                         *)
(* A definition marked "Variant" is used by no action: it is a mistake the *)
(* definition below it could be, kept to show which property notices.      *)
(***************************************************************************)
EXTENDS Integers

CONSTANTS
    Requests,       \* calls of run with the key: each is an owner id
    Instances,      \* server processes; a restarted one is another instance
    InstanceOf,     \* the instance that serves a request
    BodyOf,         \* body_sha of a request
    UsesRedis,      \* whether cache.redis_url is set
    LocalEvicts,    \* whether the in-process map is ever full
    Redis,          \* the name of the shared store
    RequestTimeout, \* request_timeout
    Slack,          \* what pending_ttl has beyond it (5 s)
    DoneTtl,        \* done_ttl
    RedisTimeout,   \* redis_timeout
    Delay,          \* bound: how long an abandoned command is on its way
    MaxTries,       \* rounds of begin_redis (3)
    None

Stores == Instances \cup {Redis}

ASSUME IdempotencyAssumption ==
    /\ InstanceOf \in [Requests -> Instances]
    /\ Redis \notin Instances
    /\ UsesRedis \in BOOLEAN /\ LocalEvicts \in BOOLEAN
    /\ RequestTimeout \in Nat /\ RedisTimeout \in Nat /\ Delay \in Nat
    /\ Slack \in Nat
    /\ DoneTtl \in Nat \ {0}
    /\ MaxTries \in Nat \ {0}
    /\ None \notin Requests \cup Stores

\* Neither validated nor in the code, and so not assumed: the two redis_timeouts
\* and the delay by which a command can outlast its request are within the slack.
Prompt == Slack > 2 * RedisTimeout + Delay

VARIABLES
    store,  \* the key's record in each store
    late,   \* commands on their way to Redis that nobody awaits
    pc,     \* where a request is
    left,   \* what is left of the timeout it is under
    tries,  \* the round of begin_redis it is in
    read,   \* the record it has read
    guard,  \* the store its Guard is for
    \* history: how long ago the record was set that a request has still to
    \* finish, and the stores where a finish was executed too late
    age, overdue

vars == <<store, late, pc, left, tries, read, guard, age, overdue>>

-----------------------------------------------------------------------------
Empty      == [kind |-> "none", owner |-> None, ttl |-> 0]
Done(r)    == [kind |-> "done", owner |-> r, ttl |-> DoneTtl]

PendingTtl == RequestTimeout + Slack

\* Variant: a pending record lives as long as a request may.
PendingTight(r) == [kind |-> "pending", owner |-> r, ttl |-> RequestTimeout]
Pending(r) ==
    [kind |-> "pending", owner |-> r, ttl |-> PendingTtl]

Kinds   == {"none", "pending", "done"}
Records == [kind : Kinds, owner : Requests \cup {None}, ttl : Nat]

Beginning == {"set", "get", "pttl", "local"}
Finishing == {"put", "release"}
Verdicts  == {"replay", "inprogress", "mismatch"}
Ends      == {"stored", "released", "deadline", "gone"} \cup Verdicts
Commands  == [op : {"set"} \cup Finishing, owner : Requests, fuse : 0 .. Delay]

\* Variant: a stored response is replayed whatever the body.
ExistingAnyBody(rec, r) ==
    CASE rec.kind = "done" -> "replay"
      [] rec.kind = "pending" ->
            IF BodyOf[rec.owner] = BodyOf[r] THEN "inprogress" ELSE "mismatch"

\* What an existing record tells request r.
Existing(rec, r) ==
    CASE BodyOf[rec.owner] # BodyOf[r] -> "mismatch"
      [] BodyOf[rec.owner] = BodyOf[r] ->
            IF rec.kind = "pending" THEN "inprogress" ELSE "replay"

\* Variant: SET without NX.
SetAlways(rec, r) == Pending(r)

\* SET NX PX, and or_insert_with on the in-process map.
SetNx(rec, r) == IF rec.kind = "none" THEN Pending(r) ELSE rec

\* Whether a SetNx of r on the record writes it.
Fresh(rec, r) == SetNx(rec, r) = Pending(r)

\* Variant: DEL whoever the owner is.
ReleaseAny(rec, r) == IF rec.kind = "pending" THEN Empty ELSE rec

\* DEL_IF_OWNER, and and_compute_with on the in-process map.
Release(rec, r) ==
    IF rec.kind = "pending" /\ rec.owner = r THEN Empty ELSE rec

\* The record after a command of r.
After(op, rec, r) ==
    CASE op = "set"     -> SetNx(rec, r)
      [] op = "put"     -> Done(r)
      [] op = "release" -> Release(rec, r)

\* Variant: a pending record has no PX.
AgedDone(rec) ==
    CASE rec.kind = "pending" -> rec
      [] rec.kind # "pending" ->
            IF rec.ttl <= 1 THEN Empty ELSE [rec EXCEPT !.ttl = @ - 1]

\* The record one unit of time later.
Aged(rec) == IF rec.ttl <= 1 THEN Empty ELSE [rec EXCEPT !.ttl = @ - 1]

Init ==
    /\ store = [s \in Stores |-> Empty]
    /\ late = {}
    /\ pc = [r \in Requests |-> "idle"]
    /\ left = [r \in Requests |-> 0]
    /\ tries = [r \in Requests |-> 0]
    /\ read = [r \in Requests |-> Empty]
    /\ guard = [r \in Requests |-> None]
    /\ age = [r \in Requests |-> 0]
    /\ overdue = {}

-----------------------------------------------------------------------------
(***************************************************************************)
(* begin                                                                   *)
(***************************************************************************)
Goto(r, label) == pc' = [pc EXCEPT ![r] = label]

Start(r) ==
    /\ pc[r] = "idle"
    /\ Goto(r, IF UsesRedis THEN "set" ELSE "local")
    /\ left' = [left EXCEPT ![r] = RequestTimeout]
    /\ tries' = [tries EXCEPT ![r] = 1]
    /\ UNCHANGED <<store, late, read, guard, age, overdue>>

\* Variant: the Guard does not say that the record is in the in-process map.
ProceedShared(r, s) ==
    /\ Goto(r, "run")
    /\ store' = [store EXCEPT ![s] = SetNx(store[s], r)]
    /\ guard' = [guard EXCEPT ![r] = IF UsesRedis THEN Redis ELSE s]
    /\ left' = [left EXCEPT ![r] = @ + RedisTimeout]
    /\ UNCHANGED <<late, tries, read, age, overdue>>

\* r owns a fresh pending record in s and runs decide_items, whose cache
\* lookup may outlast the deadline by redis_timeout.
Proceed(r, s) ==
    /\ Goto(r, "run")
    /\ store' = [store EXCEPT ![s] = SetNx(store[s], r)]
    /\ guard' = [guard EXCEPT ![r] = s]
    /\ left' = [left EXCEPT ![r] = @ + RedisTimeout]
    /\ UNCHANGED <<late, tries, read, age, overdue>>

\* SET NX is executed and its reply read.
ExecSet(r) ==
    /\ pc[r] = "set"
    /\ IF Fresh(store[Redis], r)
       THEN Proceed(r, Redis)
       ELSE /\ Goto(r, "get")
            /\ UNCHANGED <<store, late, left, tries, read, guard, age, overdue>>

ExecGet(r) ==
    /\ pc[r] = "get"
    /\ Goto(r, "pttl")
    /\ read' = [read EXCEPT ![r] = store[Redis]]
    /\ UNCHANGED <<store, late, left, tries, guard, age, overdue>>

\* The answer of PTTL only words the reply.  A record that was gone at GET is
\* set again, MaxTries times in all.
ExecPttl(r) ==
    /\ pc[r] = "pttl"
    /\ \/ /\ read[r].kind # "none"
          /\ Goto(r, Existing(read[r], r))
          /\ UNCHANGED tries
       \/ /\ read[r].kind = "none" /\ tries[r] < MaxTries
          /\ Goto(r, "set")
          /\ tries' = [tries EXCEPT ![r] = @ + 1]
       \/ /\ read[r].kind = "none" /\ tries[r] = MaxTries
          /\ Goto(r, "local")
          /\ UNCHANGED tries
    /\ UNCHANGED <<store, late, left, read, guard, age, overdue>>

\* The in-process map, when there is no Redis or it failed.
Local(r) ==
    /\ pc[r] = "local"
    /\ LET i == InstanceOf[r] IN
       IF Fresh(store[i], r)
       THEN Proceed(r, i)
       ELSE /\ Goto(r, Existing(store[i], r))
            /\ read' = [read EXCEPT ![r] = store[i]]
            /\ UNCHANGED <<store, late, left, tries, guard, age, overdue>>

-----------------------------------------------------------------------------
(***************************************************************************)
(* finish, and the ways a request stops waiting                            *)
(***************************************************************************)

\* A SET of finish is late when the pending record it is to replace may be gone.
FinishedLate(op, r, s) ==
    overdue' = IF op = "put" /\ age[r] >= PendingTtl THEN overdue \cup {s} ELSE overdue

\* decide_items has returned: a response that is stored, or an error or a
\* response over max_stored_bytes, which release the record.
Finish(r) ==
    /\ pc[r] = "run"
    /\ \E stored \in BOOLEAN :
       LET op == IF stored THEN "put" ELSE "release" IN
       IF guard[r] = Redis
       THEN /\ Goto(r, op)
            /\ left' = [left EXCEPT ![r] = RedisTimeout]
            /\ UNCHANGED <<store, overdue>>
       ELSE /\ Goto(r, IF stored THEN "stored" ELSE "released")
            /\ store' = [store EXCEPT ![guard[r]] = After(op, @, r)]
            /\ FinishedLate(op, r, guard[r])
            /\ UNCHANGED left
    /\ UNCHANGED <<late, tries, read, guard, age>>

ExecFinish(r) ==
    /\ pc[r] \in Finishing
    /\ store' = [store EXCEPT ![Redis] = After(pc[r], @, r)]
    /\ FinishedLate(pc[r], r, Redis)
    /\ Goto(r, IF pc[r] = "put" THEN "stored" ELSE "released")
    /\ UNCHANGED <<late, left, tries, read, guard, age>>

\* The command that r awaits, if it can change a record, is on its own.
Abandon(r) ==
    late' = IF pc[r] \in {"set"} \cup Finishing
            THEN late \cup {[op |-> pc[r], owner |-> r, fuse |-> Delay]}
            ELSE late

\* Variant: finish waits for Redis as long as it takes.
GiveUpBegin(r) ==
    /\ pc[r] \in {"set", "get", "pttl"}
    /\ Goto(r, "local")
    /\ Abandon(r)
    /\ UNCHANGED <<store, left, tries, read, guard, age, overdue>>

\* An error or redis_timeout: begin falls back, finish ignores it.
GiveUp(r) ==
    /\ \/ pc[r] \in {"set", "get", "pttl"} /\ Goto(r, "local")
       \/ pc[r] = "put" /\ Goto(r, "stored")
       \/ pc[r] = "release" /\ Goto(r, "released")
    /\ Abandon(r)
    /\ UNCHANGED <<store, left, tries, read, guard, age, overdue>>

\* timeout_at around begin.
DeadlineHit(r) ==
    /\ pc[r] \in {"set", "get", "pttl"} /\ left[r] = 0
    /\ Goto(r, "deadline")
    /\ Abandon(r)
    /\ UNCHANGED <<store, left, tries, read, guard, age, overdue>>

\* The client disconnects and the handler's future is dropped: Guard has no
\* Drop, the record stays.
Leave(r) ==
    /\ pc[r] \in (Beginning \ {"local"}) \cup {"run"} \cup Finishing
    /\ Goto(r, "gone")
    /\ Abandon(r)
    /\ UNCHANGED <<store, left, tries, read, guard, age, overdue>>

-----------------------------------------------------------------------------
(***************************************************************************)
(* Redis, the in-process map's limit, and time                             *)
(***************************************************************************)
ExecLate(c) ==
    /\ late' = late \ {c}
    /\ store' = [store EXCEPT ![Redis] = After(c.op, @, c.owner)]
    /\ FinishedLate(c.op, c.owner, Redis)
    /\ UNCHANGED <<pc, left, tries, read, guard, age>>

Lose(c) ==
    /\ late' = late \ {c}
    /\ UNCHANGED <<store, pc, left, tries, read, guard, age, overdue>>

Evict(i) ==
    /\ LocalEvicts /\ store[i].kind # "none"
    /\ store' = [store EXCEPT ![i] = Empty]
    /\ UNCHANGED <<late, pc, left, tries, read, guard, age, overdue>>

Timed == Beginning \cup {"run"} \cup Finishing

\* r was told to proceed, and its finish may still be executed.
Owes(r) ==
    \/ pc[r] \in {"run"} \cup Finishing
    \/ \E c \in late : c.op \in Finishing /\ c.owner = r

Tick ==
    /\ \A r \in Requests : pc[r] \in Timed => left[r] > 0
    /\ \A c \in late : c.fuse > 0
    /\ store' = [s \in Stores |-> Aged(store[s])]
    /\ left' = [r \in Requests |->
                    IF pc[r] \in Timed THEN left[r] - 1 ELSE left[r]]
    /\ late' = {[c EXCEPT !.fuse = @ - 1] : c \in late}
    /\ age' = [r \in Requests |-> IF Owes(r) THEN age[r] + 1 ELSE 0]
    /\ UNCHANGED <<pc, tries, read, guard, overdue>>

Request(r) ==
    \/ Start(r) \/ ExecSet(r) \/ ExecGet(r) \/ ExecPttl(r) \/ Local(r)
    \/ Finish(r) \/ ExecFinish(r) \/ GiveUp(r) \/ DeadlineHit(r) \/ Leave(r)

Next ==
    \/ \E r \in Requests : Request(r)
    \/ \E c \in late : ExecLate(c) \/ Lose(c)
    \/ \E i \in Instances : Evict(i)
    \/ Tick

\* The timeouts fire, decide_items returns, a sent command ends one way or the
\* other, and time passes; that Redis answers is not assumed.
Fairness ==
    /\ \A r \in Requests :
           /\ WF_vars(GiveUp(r)) /\ WF_vars(DeadlineHit(r))
           /\ WF_vars(Local(r)) /\ WF_vars(Finish(r))
    /\ WF_vars(\E c \in late : ExecLate(c) \/ Lose(c))
    /\ WF_vars(Tick)

Spec     == Init /\ [][Next]_vars
FairSpec == Spec /\ Fairness

-----------------------------------------------------------------------------
(***************************************************************************)
(* Properties                                                              *)
(***************************************************************************)

TypeOK ==
    /\ store \in [Stores -> Records]
    /\ late \subseteq Commands
    /\ pc \in [Requests -> {"idle", "run"} \cup Beginning \cup Finishing \cup Ends]
    /\ left \in [Requests -> 0 .. (RequestTimeout + RedisTimeout)]
    /\ tries \in [Requests -> 0 .. MaxTries]
    /\ read \in [Requests -> Records]
    /\ guard \in [Requests -> Stores \cup {None}]
    /\ age \in [Requests -> Nat] /\ overdue \subseteq Stores

\* r's pending record is in s and lives for more than n.
Holds(r, s, n) ==
    store[s].kind = "pending" /\ store[s].owner = r /\ store[s].ttl > n

\* Every variable has its type, and a running request that was told to proceed
\* has its pending record until it ends: nobody replaces or removes it, no late
\* command of another request does, and its TTL outlasts the request
\* (pending_ttl, :61).
HolderHasRecord ==
    /\ TypeOK
    /\ \A r \in Requests : pc[r] = "run" => Holds(r, guard[r], left[r])

\* One Idempotency-Key is executed by at most one request at a time among
\* those that use the same store; README.md:86.
Exclusive ==
    \A q, r \in Requests :
        (pc[q] = "run" /\ pc[r] = "run" /\ guard[q] = guard[r]) => q = r

\* A replayed response was stored for the same body by a request that had the
\* key, in a store the replayed one consults (existing, :175).
ReplayMatches ==
    \A r \in Requests :
        pc[r] = "replay" =>
            LET q == read[r].owner IN
            /\ BodyOf[q] = BodyOf[r]
            /\ pc[q] \in {"put", "stored", "gone"}
            /\ guard[q] \in {Redis, InstanceOf[r]}

\* A stored response never changes, and goes only when its TTL ends (or, in the
\* in-process map, when that is full).  The SET of finish has no condition (:133),
\* and one that is late may meet a successor's record or response: no order of
\* timeouts, disconnects, fallbacks and late commands replaces a response before
\* such a SET has been executed pending_ttl (:61) after its record was set.
StoredIsFinal ==
    [][\A s \in Stores \ overdue' :
          (store[s].kind = "done" /\ (s = Redis \/ ~LocalEvicts)) =>
              \/ store'[s] = store[s]
              \/ store'[s] = Aged(store[s])]_vars

\* A pending record is removed before its TTL ends only by the failure of its
\* own request, or by a step of no request (the limit of the in-process map, a
\* late command): a request whose record was evicted does not, when it fails,
\* remove the record of the one that took its place (:154).
OthersDoNotRelease ==
    [][\A s \in Stores :
          (store[s].kind = "pending" /\ store[s].ttl > 1 /\ store'[s].kind = "none") =>
              pc'[store[s].owner] = "released" \/ UNCHANGED pc]_vars

\* Whatever is lost, a key does not stay blocked: every pending record goes.
PendingEnds ==
    \A s \in Stores : (store[s].kind = "pending") ~> (store[s].kind # "pending")

\* Every request with a key ends, whether Redis answers or not.
RequestsEnd == \A r \in Requests : (pc[r] \in Timed) ~> (pc[r] \in Ends)

\* "A request with this Idempotency-Key is still running" (openapi.yaml:262):
\* a request that is told so is told while another one has the key and has not
\* ended.
InProgressIsRunning ==
    [][\A r \in Requests :
          (pc[r] # "inprogress" /\ pc'[r] = "inprogress") =>
              \E q \in Requests : pc[q] \in {"run"} \cup Finishing]_vars
=============================================================================
