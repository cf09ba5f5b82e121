------------------------------- MODULE Server -------------------------------
(***************************************************************************)
(* src/api.rs and the end of serve in src/main.rs: a request from its      *)
(* arrival to its answer, through the rate limit, the idempotency key, the *)
(* cache, the tokenizer threads and the scheduler, while keys are reloaded *)
(* and the server is told to stop.                                         *)
(*                                                                         *)
(* begin and finish of the idempotency key are module Idempotency, and     *)
(* run_jobs is module Scheduler: here they are awaited, and what they may  *)
(* answer is all that counts.  A tick is the unit of every timeout; the    *)
(* runtime is prompt, so that the clock waits for whoever can run.         *)
(*                                                                         *)
(* A definition marked "Variant" is used by no action: it is a mistake the *)
(* definition below it could be, kept to show which property notices.      *)
(***************************************************************************)
EXTENDS Keys, Sequences, FiniteSets, FiniteSetsExt

CONSTANTS
    Conns,       \* the connections: each sends one request after the other
    CacheKeys,   \* the questions, each of one model and state
    Items,       \* what a connection asks: a sequence of sets of questions
    KeyOf,       \* the API key it comes with
    Keyed,       \* the connections that send an Idempotency-Key
    Stored,      \* what Redis may hold at the start
    DrainSlack,  \* what serve adds to request_timeout to drain
    MaxArrivals, \* bound: requests
    MaxTime      \* bound: the clock

\* A cached value has one logit for each option, or it does not ("bad").
Values == {"none", "good", "bad"}

ASSUME ServerAssumption ==
    /\ IsFiniteSet(Conns)
    /\ Items \in [Conns -> Seq(SUBSET CacheKeys)]
    /\ \A r \in Conns : Len(Items[r]) \in 1 .. Boot.maxBatch
    /\ Keyed \subseteq Conns
    /\ Stored \subseteq [CacheKeys -> Values]
    /\ {Boot.timeout, Boot.redisTimeout, Boot.tokenizeThreads, Boot.tokenizeQueue} \subseteq Nat
    /\ {DrainSlack, MaxArrivals, MaxTime} \subseteq Nat
    /\ IsFiniteSet(DOMAIN Boot.pending) /\ \A m \in DOMAIN Boot.pending : Boot.pending[m] \in Nat

VARIABLES
    now, phase, stopAt,   \* the clock; serve
    arrivals,             \* requests so far
    pc, deadline, until,  \* a request, its deadline, and when its Redis wait ends
    raw, jobs,            \* decide_items: the raws it has, the questions tokenized
    closure,              \* its blocking tokenizer task
    detached,             \* the tasks that outlived their request
    threads, queue,       \* the semaphores tokenize and tokenize_queue
    l1, l2                \* the cache

locals == <<pc, deadline, until, raw, jobs>>
tokens == <<closure, detached, threads, queue>>
cache  == <<l1, l2>>
serve  == <<now, phase, stopAt, arrivals>>
vars   == <<serve, locals, tokens, cache, keyVars>>

-----------------------------------------------------------------------------
Threads   == Max({Boot.tokenizeThreads, 1})
\* The knob, or (0: not set) what the schedulers can admit.
QueueSize == IF Boot.tokenizeQueue # 0 THEN Boot.tokenizeQueue
             ELSE MapThenSumSet(LAMBDA m : Boot.pending[m], DOMAIN Boot.pending)

Awaits  == {"begin", "cache", "wait", "encode", "jobs", "finish"}
Ready   == {"items", "answer"}
Live(r) == pc[r] \in Awaits \cup Ready

AsksOf(r) == UNION {Items[r][i] : i \in DOMAIN Items[r]}
Nothing   == [k \in CacheKeys |-> "none"]

Init ==
    /\ now = 0 /\ phase = "serving" /\ stopAt = 0 /\ arrivals = 0
    /\ pc = [r \in Conns |-> "idle"]
    /\ deadline = [r \in Conns |-> 0]
    /\ until = [r \in Conns |-> 0]
    /\ raw = [r \in Conns |-> Nothing]
    /\ jobs = [r \in Conns |-> {}]
    /\ closure = [r \in Conns |-> "none"] /\ detached = 0
    /\ threads = Threads /\ queue = QueueSize
    /\ l1 = Nothing /\ l2 \in Stored
    /\ KeysInit

\* Variant: the wait for a tokenizer thread is not under the deadline.
TimerNoWait(r) ==
    CASE pc[r] \in {"begin", "encode", "jobs"} -> deadline[r]
      [] pc[r] \in {"cache", "finish"}         -> until[r]
      [] OTHER                                 -> MaxTime + 1

\* When the await of r gives up (timeout_at, or the timeout of Redis).
Timer(r) ==
    CASE pc[r] \in {"begin", "wait", "encode", "jobs"} -> deadline[r]
      [] pc[r] \in {"cache", "finish"}                 -> until[r]
      [] OTHER                                         -> MaxTime + 1

Due(r) == now >= Timer(r)

\* Variant: the drain is as long as a request.
DrainShort == stopAt + Boot.timeout

DrainEnds == stopAt + Boot.timeout + DrainSlack

Tick ==
    /\ now < MaxTime /\ phase # "exited"
    /\ \A r \in Conns : pc[r] \notin Ready /\ ~Due(r)
    /\ phase = "draining" => now < DrainEnds
    /\ now' = now + 1
    /\ Refill
    /\ UNCHANGED <<phase, stopAt, arrivals, locals, tokens, cache>>

ReloadKeys ==
    /\ phase # "exited"
    /\ Reload
    /\ UNCHANGED <<serve, locals, tokens, cache>>

-----------------------------------------------------------------------------
(* The handler.                                                            *)

\* run returns, and its locals are gone.
End(r) ==
    /\ pc' = [pc EXCEPT ![r] = "idle"]
    /\ deadline' = [deadline EXCEPT ![r] = 0]
    /\ until' = [until EXCEPT ![r] = 0]
    /\ raw' = [raw EXCEPT ![r] = Nothing]
    /\ jobs' = [jobs EXCEPT ![r] = {}]

\* decide_items returns: with an Idempotency-Key, finish comes first.
Settle(r) ==
    IF r \notin Keyed THEN End(r)
    ELSE /\ pc' = [pc EXCEPT ![r] = "finish"]
         /\ until' = [until EXCEPT ![r] = now + Boot.redisTimeout]
         /\ raw' = [raw EXCEPT ![r] = Nothing]
         /\ jobs' = [jobs EXCEPT ![r] = {}]
         /\ UNCHANGED deadline

\* A body has been read and handle begins: lookup, parse, check.  (A body may
\* still be read while the server drains.)  401, 413, 422 or 429.
Refuse(r) ==
    /\ pc[r] = "idle" /\ phase # "exited" /\ arrivals < MaxArrivals
    /\ arrivals' = arrivals + 1
    /\ UNCHANGED <<now, phase, stopAt, locals, tokens, cache, keyVars>>

Arrive(r) ==
    /\ pc[r] = "idle" /\ phase # "exited" /\ arrivals < MaxArrivals
    /\ arrivals' = arrivals + 1
    /\ KeyOf[r] \in DOMAIN keys
    /\ Charge(KeyOf[r], Len(Items[r]))
    /\ deadline' = [deadline EXCEPT ![r] = now + Boot.timeout]
    /\ pc' = [pc EXCEPT ![r] = "begin"]
    /\ UNCHANGED <<now, phase, stopAt, until, raw, jobs, tokens, cache>>

\* begin answers by itself (replay, in progress, mismatch) or times out: 504.
Replied(r) ==
    /\ pc[r] = "begin" /\ r \in Keyed
    /\ End(r)
    /\ UNCHANGED <<serve, tokens, cache, keyVars>>

\* begin proceeds, or there is no Idempotency-Key: the items are validated
\* (422), routed and made into questions, and these are looked up.
StartItems(r) ==
    /\ pc[r] = "begin"
    /\ \/ Settle(r)
       \/ /\ pc' = [pc EXCEPT ![r] = "cache"]
          /\ until' = [until EXCEPT ![r] = now + Boot.redisTimeout]
          /\ UNCHANGED <<deadline, raw, jobs>>
    /\ UNCHANGED <<serve, tokens, cache, keyVars>>

\* Variant: any decoded value will do.
AnyValue(v) == v # "none"

\* A value that does not decode to one logit per option is a miss.
Fits(v) == v = "good"

\* Cache::get of every question: L1, then Redis, whose hits go to L1.  What is
\* there may be missed (expired, evicted, an error, a timeout).
LookedUp(r) ==
    /\ pc[r] = "cache"
    /\ \E hits \in SUBSET {k \in AsksOf(r) : Fits(l1[k]) \/ Fits(l2[k])} :
        LET val(k) == IF Fits(l1[k]) THEN l1[k] ELSE l2[k] IN
        /\ raw' = [raw EXCEPT ![r] = [k \in CacheKeys |-> IF k \in hits THEN val(k) ELSE "none"]]
        /\ l1' = [k \in CacheKeys |-> IF k \in hits THEN val(k) ELSE l1[k]]
    /\ pc' = [pc EXCEPT ![r] = "items"]
    /\ until' = [until EXCEPT ![r] = 0]
    /\ UNCHANGED <<deadline, jobs, l2, serve, tokens, keyVars>>

-----------------------------------------------------------------------------
(* The tokenizer.                                                          *)

Missing(r, i) == {k \in Items[r][i] : raw[r][k] = "none" /\ k \notin jobs[r]}
Open(r)       == {i \in DOMAIN Items[r] : Missing(r, i) # {}}

\* The next item with a question to tokenize: past the deadline (504) or with
\* the queue full (529) the request is given up, else it waits for a thread.
Enqueue(r) ==
    /\ pc[r] = "items" /\ Open(r) # {}
    /\ IF now >= deadline[r] \/ queue = 0 THEN Settle(r) /\ UNCHANGED queue
       ELSE /\ queue' = queue - 1
            /\ pc' = [pc EXCEPT ![r] = "wait"]
            /\ UNCHANGED <<deadline, until, raw, jobs>>
    /\ UNCHANGED <<closure, detached, threads, serve, cache, keyVars>>

\* A permit: both permits move into the blocking task.
Acquire(r) ==
    /\ pc[r] = "wait" /\ threads > 0
    /\ threads' = threads - 1
    /\ closure' = [closure EXCEPT ![r] = "running"]
    /\ pc' = [pc EXCEPT ![r] = "encode"]
    /\ UNCHANGED <<detached, queue, deadline, until, raw, jobs, serve, cache, keyVars>>

\* 504
WaitTimeout(r) ==
    /\ pc[r] = "wait" /\ Due(r)
    /\ queue' = queue + 1
    /\ Settle(r)
    /\ UNCHANGED <<closure, detached, threads, serve, cache, keyVars>>

\* A task ends, whether or not anybody waits for it.
TaskEnds ==
    /\ phase # "exited"
    /\ \/ detached > 0 /\ detached' = detached - 1 /\ UNCHANGED closure
       \/ \E r \in Conns :
            /\ closure[r] = "running"
            /\ closure' = [closure EXCEPT ![r] = "ended"]
            /\ UNCHANGED detached
    /\ threads' = threads + 1 /\ queue' = queue + 1
    /\ UNCHANGED <<serve, locals, cache, keyVars>>

\* Its encodings become jobs; one that does not fit (422) or an error (500)
\* ends the request.
Encoded(r) ==
    /\ pc[r] = "encode" /\ closure[r] = "ended"
    /\ closure' = [closure EXCEPT ![r] = "none"]
    /\ \/ Settle(r)
       \/ /\ jobs' = [jobs EXCEPT ![r] = @ \cup Missing(r, Min(Open(r)))]
          /\ pc' = [pc EXCEPT ![r] = "items"]
          /\ UNCHANGED <<deadline, until, raw>>
    /\ UNCHANGED <<detached, threads, queue, serve, cache, keyVars>>

\* The request stops waiting for its task, which runs on if it had not ended.
Detach(r) ==
    /\ closure' = [closure EXCEPT ![r] = "none"]
    /\ detached' = IF closure[r] = "running" THEN detached + 1 ELSE detached

\* Variant: the permits are the request's.
ReleaseOnTimeout(r) ==
    /\ pc[r] = "encode" /\ Due(r)
    /\ Detach(r)
    /\ threads' = IF closure[r] = "running" THEN threads + 1 ELSE threads
    /\ queue' = IF closure[r] = "running" THEN queue + 1 ELSE queue
    /\ Settle(r)
    /\ UNCHANGED <<serve, cache, keyVars>>

\* 504; the permits stay with the task.
EncodeTimeout(r) ==
    /\ pc[r] = "encode" /\ Due(r)
    /\ Detach(r)
    /\ Settle(r)
    /\ UNCHANGED <<threads, queue, serve, cache, keyVars>>

-----------------------------------------------------------------------------
(* The scheduler and the answer.                                           *)

Submit(r) ==
    /\ pc[r] = "items" /\ Open(r) = {}
    /\ pc' = [pc EXCEPT ![r] = IF jobs[r] = {} THEN "answer" ELSE "jobs"]
    /\ UNCHANGED <<deadline, until, raw, jobs, serve, tokens, cache, keyVars>>

\* The raws of done are put in L1, and on their way to Redis.  A write to Redis
\* that is lost is as if late.
Put(done) ==
    /\ l1' = [k \in CacheKeys |-> IF k \in done THEN "good" ELSE l1[k]]
    /\ \E w \in SUBSET done : l2' = [k \in CacheKeys |-> IF k \in w THEN "good" ELSE l2[k]]

\* run_jobs returns the raw of every key it was given, each in L1 by then.
Computed(r) ==
    /\ pc[r] = "jobs"
    /\ raw' = [raw EXCEPT ![r] = [k \in CacheKeys |-> IF k \in jobs[r] THEN "good" ELSE raw[r][k]]]
    /\ Put(jobs[r])
    /\ jobs' = [jobs EXCEPT ![r] = {}]
    /\ pc' = [pc EXCEPT ![r] = "answer"]
    /\ UNCHANGED <<deadline, until, serve, tokens, keyVars>>

\* 529, 500, or 504 at the deadline; some of the keys have been computed, or are
\* when nobody waits any more, which is as if they were missed until then.
JobsFail(r) ==
    /\ pc[r] = "jobs"
    /\ \E done \in SUBSET jobs[r] : Put(done)
    /\ Settle(r)
    /\ UNCHANGED <<serve, tokens, keyVars>>

\* 200
Answer(r) ==
    /\ pc[r] = "answer"
    /\ Settle(r)
    /\ UNCHANGED <<serve, tokens, cache, keyVars>>

\* finish returns, after at most one Redis command.
Finished(r) ==
    /\ pc[r] = "finish"
    /\ End(r)
    /\ UNCHANGED <<serve, tokens, cache, keyVars>>

\* The client leaves: the handler is dropped at its await.
Leave(r) ==
    /\ pc[r] \in Awaits
    /\ End(r)
    /\ queue' = IF pc[r] = "wait" THEN queue + 1 ELSE queue
    /\ Detach(r)
    /\ IF pc[r] = "jobs" THEN \E done \in SUBSET jobs[r] : Put(done) ELSE UNCHANGED cache
    /\ UNCHANGED <<threads, serve, keyVars>>

-----------------------------------------------------------------------------
(* The end of serve.                                                       *)

Stop ==
    /\ phase = "serving"
    /\ phase' = "draining" /\ stopAt' = now
    /\ UNCHANGED <<now, arrivals, locals, tokens, cache, keyVars>>

\* The servers have ended, or the drain has.
Exit ==
    /\ phase = "draining"
    /\ (\A r \in Conns : ~Live(r)) \/ now >= DrainEnds
    /\ phase' = "exited"
    /\ pc' = [r \in Conns |-> IF Live(r) THEN "cut" ELSE pc[r]]
    /\ UNCHANGED <<now, stopAt, arrivals, deadline, until, raw, jobs, tokens, cache, keyVars>>

Next ==
    \/ Tick \/ ReloadKeys \/ TaskEnds \/ Stop \/ Exit
    \/ \E r \in Conns :
        \/ Refuse(r) \/ Arrive(r) \/ Replied(r) \/ StartItems(r) \/ LookedUp(r)
        \/ Enqueue(r) \/ Acquire(r) \/ WaitTimeout(r) \/ Encoded(r) \/ EncodeTimeout(r)
        \/ Submit(r) \/ Computed(r) \/ JobsFail(r) \/ Answer(r) \/ Finished(r) \/ Leave(r)

Spec == Init /\ [][Next]_vars

-----------------------------------------------------------------------------
(* Correctness.                                                            *)

TypeOK ==
    /\ now \in 0 .. MaxTime /\ stopAt \in 0 .. now /\ arrivals \in 0 .. MaxArrivals
    /\ phase \in {"serving", "draining", "exited"}
    /\ pc \in [Conns -> {"idle", "cut"} \cup Ready \cup Awaits]
    /\ deadline \in [Conns -> Nat] /\ until \in [Conns -> Nat]
    /\ raw \in [Conns -> [CacheKeys -> Values]]
    /\ jobs \in [Conns -> SUBSET CacheKeys]
    /\ closure \in [Conns -> {"none", "running", "ended"}] /\ detached \in 0 .. Threads
    /\ threads \in 0 .. Threads /\ queue \in 0 .. QueueSize
    /\ l1 \in [CacheKeys -> Values] /\ l2 \in [CacheKeys -> Values]

Running == {r \in Conns : closure[r] = "running"}
Waiting == {r \in Conns : pc[r] = "wait"}

\* Every variable has its type, and a blocking task holds its permits until it
\* ends, also when its request has timed out or left: no more than
\* tokenize_threads run at a time, and what waits or runs is within
\* tokenize_queue.
PermitsExact ==
    /\ TypeOK
    /\ phase # "exited" =>
        /\ threads + Cardinality(Running) + detached = Threads
        /\ queue + Cardinality(Waiting) + Cardinality(Running) + detached = QueueSize

\* A request is answered with a raw of the right shape for each question of
\* each item, whatever was cached, malformed, shared between items or computed.
EveryQuestionAnswered ==
    \A r \in Conns : pc[r] = "answer" => \A k \in AsksOf(r) : raw[r][k] = "good"

\* No wait is unbounded: a request ends at its deadline or, where Redis is
\* waited for without the deadline, two commands later.
EndsInTime ==
    \A r \in Conns : Live(r) => now <= deadline[r] + 2 * Boot.redisTimeout

\* A stop cuts a request that had begun only when Redis, which is awaited outside
\* the deadline by the cache lookup and by finish, has kept it past its deadline
\* for as long as the drain is longer than a request; none, then, if that is
\* longer than two redis_timeouts, which nothing validates (:303).
DrainCovers ==
    \A r \in Conns : (pc[r] = "cut" /\ deadline[r] - Boot.timeout <= stopAt) =>
        now - deadline[r] \in DrainSlack .. 2 * Boot.redisTimeout
=============================================================================
