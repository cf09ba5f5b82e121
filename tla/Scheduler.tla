----------------------------- MODULE Scheduler -----------------------------
(***************************************************************************)
(* src/scheduler.rs: admission, in-flight coalescing, the batcher task and *)
(* the inference worker threads, seen as the life of a WorkItem.           *)
(*                                                                         *)
(* A request (run_jobs) joins the in-flight item of a key it wants or      *)
(* registers a new one; the item then belongs, one after the other, to the *)
(* request that sends it, the batcher that sweeps it and the worker that   *)
(* runs it.  Whoever owns it drops it, and the drop is four steps other    *)
(* threads can see: tokens subtracted, map entry removed, result sender    *)
(* dropped, permit released.                                               *)
(*                                                                         *)
(* The order of the queue and the choice of a batch are module Pick; the   *)
(* idle slots and the channel to the workers are module WorkerPool.        *)
(*                                                                         *)
(* A definition marked "Variant" is used by no action: it is a mistake the *)
(* definition below it could be, kept to show which property notices.      *)
(***************************************************************************)
EXTENDS Integers, FiniteSets, FiniteSetsExt, Functions

CONSTANTS
    Requests,     \* calls of run_jobs
    Keys,         \* cache keys: a question of one model
    Models,       \* the models served
    Workers,      \* the worker threads of all models
    ModelOf,      \* the model of a key (Job.model)
    TokensOf,     \* the token length of a key's encoding
    WorkerModel,  \* the model a worker thread serves
    Asks,         \* the keys a request wants
    DeadlineOf,   \* the deadline of a request
    MaxPending,   \* permits of a model (ModelSpec.max_pending)
    MaxBatch,     \* ModelSpec.max_batch_items
    MaxReadmits,  \* MAX_READMITS
    MaxGens,      \* bound: WorkItems ever created
    MaxTime,      \* bound: the clock
    None

Gens == 0 .. MaxGens - 1

ASSUME ModelsAssumption ==
    /\ ModelOf \in [Keys -> Models]
    /\ WorkerModel \in [Workers -> Models]
    /\ MaxPending \in [Models -> Nat]

ASSUME RequestsAssumption ==
    /\ Asks \in [Requests -> SUBSET Keys]
    /\ DeadlineOf \in [Requests -> Nat]
    /\ TokensOf \in [Keys -> Nat]
    /\ IsFiniteSet(Keys)

ASSUME BoundsAssumption ==
    /\ MaxGens \in Nat /\ MaxTime \in Nat
    /\ MaxReadmits \in Nat /\ MaxBatch \in Nat \ {0}
    /\ None \notin Gens

VARIABLES
    now,        \* the clock
    \* a request: run_jobs and the cache lookup before it
    pc, todo, subs, parts, lost, failed, readmits,
    \* shared under the map lock
    entry, nextGen,
    \* a WorkItem, by generation
    phase, itemKey, due, out,
    \* a model's queue
    permits, queuedTokens, estimated,
    \* its batcher and the workers
    batcher, sweptAt, work, worker,
    \* the keys ever put in the cache
    cached

request  == <<pc, todo, subs, parts, lost, failed, readmits>>
item     == <<phase, itemKey, due, out>>
queue    == <<permits, queuedTokens, estimated>>
pool     == <<batcher, sweptAt, work, worker>>
vars     == <<now, request, entry, nextGen, item, queue, pool, cached>>

-----------------------------------------------------------------------------
(* Item phases.  "held" is a member of admit's parts, registered but not   *)
(* yet sent; the last five are steps of the drop.                          *)
Queued    == {"held", "queued", "judging", "kept"}
Running   == {"running", "stored"}
Dropping  == {"dropping", "subtracted", "unmapped", "hungup"}
Phases    == {"unborn", "gone"} \cup Queued \cup Running \cup Dropping
Ended     == {"ok", "overloaded", "deadline", "backend", "gone"}

Item(g)        == phase[g] \notin {"unborn", "gone"}
ItemsOf(m)     == {g \in Gens : Item(g) /\ ModelOf[itemKey[g]] = m}
In(m, p)       == {g \in ItemsOf(m) : phase[g] = p}
Subscribers(g) == {r \in Requests : g \in subs[r]}
FreeWorkers(m) == {w \in Workers : WorkerModel[w] = m /\ worker[w] = "free"}
\* An item nobody resolved is dropped by the batcher.
BatcherDrops(m) == {g \in ItemsOf(m) : phase[g] \in Dropping /\ out[g] \in {"none", "canceled"}}
\* Variant: admit registers every key, whatever is in flight.
NeverJoinable(k) == FALSE
\* The in-flight item of k that some request still holds (WeakShared::upgrade).
Joinable(k)    == entry[k] # None /\ Subscribers(entry[k]) # {}

Init ==
    /\ now = 0
    /\ pc = [r \in Requests |-> "lookup"]
    /\ todo = [r \in Requests |-> {}]
    /\ subs = [r \in Requests |-> {}]
    /\ parts = [r \in Requests |-> {}]
    /\ lost = [r \in Requests |-> FALSE]
    /\ failed = [r \in Requests |-> FALSE]
    /\ readmits = [r \in Requests |-> 0]
    /\ entry = [k \in Keys |-> None]
    /\ nextGen = 0
    /\ phase = [g \in Gens |-> "unborn"]
    /\ itemKey = [g \in Gens |-> None]
    /\ due = [g \in Gens |-> 0]
    /\ out = [g \in Gens |-> "none"]
    /\ permits = MaxPending
    /\ queuedTokens = [m \in Models |-> 0]
    /\ estimated = [m \in Models |-> FALSE]
    /\ batcher = [m \in Models |-> "collect"]
    /\ sweptAt = [m \in Models |-> 0]
    /\ work = [w \in Workers |-> {}]
    /\ worker = [w \in Workers |-> "free"]
    /\ cached = {}

Tick ==
    /\ now < MaxTime
    /\ now' = now + 1
    /\ UNCHANGED <<request, entry, nextGen, item, queue, pool, cached>>

-----------------------------------------------------------------------------
(* The request.                                                            *)

\* run_jobs returns: its locals are gone, the Shared handles among them.
Return(r, result) ==
    /\ pc' = [pc EXCEPT ![r] = result]
    /\ todo' = [todo EXCEPT ![r] = {}]
    /\ subs' = [subs EXCEPT ![r] = {}]
    /\ lost' = [lost EXCEPT ![r] = FALSE]
    /\ failed' = [failed EXCEPT ![r] = FALSE]
    /\ readmits' = [readmits EXCEPT ![r] = 0]
    /\ UNCHANGED parts

\* The cache lookup of decide_items: only the misses become jobs, and what
\* it read is not read again when the jobs are admitted.  A key put in the
\* cache can still miss (expired, evicted, Redis down).
Lookup(r) ==
    /\ pc[r] = "lookup"
    /\ \E hits \in SUBSET (Asks[r] \cap cached) :
        /\ todo' = [todo EXCEPT ![r] = Asks[r] \ hits]
        /\ pc' = [pc EXCEPT ![r] = IF Asks[r] \subseteq hits THEN "ok" ELSE "check"]
    /\ UNCHANGED <<now, subs, parts, lost, failed, readmits, entry, nextGen, item, queue, pool, cached>>

CheckDeadline(r) ==
    /\ pc[r] = "check"
    /\ IF now >= DeadlineOf[r] THEN Return(r, "deadline")
       ELSE /\ pc' = [pc EXCEPT ![r] = "admit"]
            /\ UNCHANGED <<todo, subs, parts, lost, failed, readmits>>
    /\ UNCHANGED <<now, entry, nextGen, item, queue, pool, cached>>

Later(a, b) == IF a > b THEN a ELSE b

Joined(r) == {entry[k] : k \in {j \in todo[r] : Joinable(j)}}
Fresh(r)  == {k \in todo[r] : ~Joinable(k)}

\* Variant: joining leaves the deadline alone.
NotExtended(r, J) == due

\* The deadlines after r joined the items in J: extended, never shrunk.
Extended(r, J) == [g \in Gens |-> IF g \in J THEN Later(due[g], DeadlineOf[r]) ELSE due[g]]

\* The prediction (tokens ahead times the estimate against the deadline) may
\* shed once there is an estimate, unless nothing is ahead.
MayShed(m) == estimated[m] /\ queuedTokens[m] > 0

\* admit, one critical section of the map lock: of the keys in todo, join the
\* in-flight items and register a new one for each of the others, all or none.
\* "new" is the generations next_gen hands out and "of" the key of each.
Admit(r) ==
    /\ pc[r] = "admit"
    /\ nextGen + Cardinality(Fresh(r)) <= MaxGens
    /\ LET new == nextGen .. (nextGen + Cardinality(Fresh(r)) - 1)
           J == Joined(r)
       IN \E of \in Bijection(new, Fresh(r)) :
            LET mine(m) == {g \in new : ModelOf[of[g]] = m} IN
            /\ \A m \in Models : Cardinality(mine(m)) <= permits[m]
            /\ entry' = [k \in Keys |-> IF k \in Fresh(r) THEN CHOOSE g \in new : of[g] = k ELSE entry[k]]
            /\ nextGen' = nextGen + Cardinality(Fresh(r))
            /\ phase' = [g \in Gens |-> IF g \in new THEN "held" ELSE phase[g]]
            /\ itemKey' = [g \in Gens |-> IF g \in new THEN of[g] ELSE itemKey[g]]
            /\ due' = [g \in Gens |-> IF g \in new THEN DeadlineOf[r] ELSE Extended(r, J)[g]]
            /\ permits' = [m \in Models |-> permits[m] - Cardinality(mine(m))]
            /\ queuedTokens' = [m \in Models |->
                                  queuedTokens[m] + MapThenSumSet(LAMBDA g : TokensOf[of[g]], mine(m))]
            /\ subs' = [subs EXCEPT ![r] = J \cup new]
            /\ parts' = [parts EXCEPT ![r] = new]
            /\ pc' = [pc EXCEPT ![r] = "send"]
    /\ UNCHANGED <<now, todo, lost, failed, readmits, out, estimated, pool, cached>>

\* admit sheds: the joined items keep their extended deadlines, the permits
\* taken for earlier models are returned and nothing is registered.
Shed(r) ==
    /\ pc[r] = "admit"
    /\ \E m \in Models :
          LET n == Cardinality({k \in Fresh(r) : ModelOf[k] = m}) IN
          n > 0 /\ (MayShed(m) \/ n > permits[m])
    /\ due' = Extended(r, Joined(r))
    /\ Return(r, "overloaded")
    /\ UNCHANGED <<now, entry, nextGen, phase, itemKey, out, queue, pool, cached>>

\* A part becomes a WorkItem and is sent to the batcher; when the batcher is
\* gone the item gets the error at once and its sender drops it, before the
\* next part is sent.
Send(r, g) ==
    /\ pc[r] = "send"
    /\ g \in parts[r] /\ phase[g] = "held"
    /\ \A h \in parts[r] : phase[h] \notin Dropping
    /\ IF batcher[ModelOf[itemKey[g]]] # "closed"
       THEN /\ phase' = [phase EXCEPT ![g] = "queued"]
            /\ parts' = [parts EXCEPT ![r] = @ \ {g}]
            /\ UNCHANGED out
       ELSE /\ phase' = [phase EXCEPT ![g] = "dropping"]
            /\ out' = [out EXCEPT ![g] = "err"]
            /\ UNCHANGED parts
    /\ UNCHANGED <<now, pc, todo, subs, lost, failed, readmits, entry, nextGen,
                   itemKey, due, queue, pool, cached>>

\* Every part is sent, or failed and dropped: await the subscriptions.
Sent(r) ==
    /\ pc[r] = "send"
    /\ \A g \in parts[r] : phase[g] = "gone"
    /\ pc' = [pc EXCEPT ![r] = "wait"]
    /\ parts' = [parts EXCEPT ![r] = {}]
    /\ UNCHANGED <<now, todo, subs, lost, failed, readmits, entry, nextGen, item, queue, pool, cached>>

\* Variant: a lost item counts as an answered one.
PollAnything(r, g) ==
    /\ pc[r] = "wait"
    /\ g \in subs[r] /\ out[g] # "none"
    /\ subs' = [subs EXCEPT ![r] = @ \ {g}]
    /\ todo' = [todo EXCEPT ![r] = @ \ {itemKey[g]}]
    /\ failed' = [failed EXCEPT ![r] = @ \/ out[g] = "err"]
    /\ UNCHANGED <<now, pc, parts, lost, readmits, entry, nextGen, item, queue, pool, cached>>

\* One subscription yields; the handle is gone with it.
Poll(r, g) ==
    /\ pc[r] = "wait"
    /\ g \in subs[r] /\ out[g] # "none"
    /\ subs' = [subs EXCEPT ![r] = @ \ {g}]
    /\ todo' = [todo EXCEPT ![r] = IF out[g] = "ok" THEN @ \ {itemKey[g]} ELSE @]
    /\ failed' = [failed EXCEPT ![r] = @ \/ out[g] = "err"]
    /\ lost' = [lost EXCEPT ![r] = @ \/ out[g] = "canceled"]
    /\ UNCHANGED <<now, pc, parts, readmits, entry, nextGen, item, queue, pool, cached>>

\* All subscriptions have yielded: an error ends the request, a lost item
\* sends it round again, at most MaxReadmits times.
Settle(r) ==
    /\ pc[r] = "wait" /\ subs[r] = {}
    /\ \/ /\ failed[r] \/ (lost[r] /\ readmits[r] >= MaxReadmits)
          /\ Return(r, "backend")
       \/ /\ ~failed[r] /\ lost[r] /\ readmits[r] < MaxReadmits
          /\ readmits' = [readmits EXCEPT ![r] = @ + 1]
          /\ lost' = [lost EXCEPT ![r] = FALSE]
          /\ pc' = [pc EXCEPT ![r] = "check"]
          /\ UNCHANGED <<todo, subs, parts, failed>>
       \/ /\ ~failed[r] /\ ~lost[r] /\ todo[r] = {}
          /\ Return(r, "ok")
    /\ UNCHANGED <<now, entry, nextGen, item, queue, pool, cached>>

\* timeout_at: some subscription was found pending and the deadline has passed
\* (a result sent after it was found pending does not change the verdict).
Timeout(r) ==
    /\ pc[r] = "wait" /\ subs[r] # {}
    /\ now >= DeadlineOf[r]
    /\ Return(r, "deadline")
    /\ UNCHANGED <<now, entry, nextGen, item, queue, pool, cached>>

\* The client disconnects: the future is dropped at its only await.
Abandon(r) ==
    /\ pc[r] = "wait"
    /\ Return(r, "gone")
    /\ UNCHANGED <<now, entry, nextGen, item, queue, pool, cached>>

-----------------------------------------------------------------------------
(* WorkItem's drop, by its owner.                                          *)

\* What the batcher rejects in a sweep it drops when all is judged, and one item
\* after another.
Droppable(g) ==
    out[g] = "none" =>
        LET m == ModelOf[itemKey[g]] IN
        In(m, "judging") = {} /\ \A h \in BatcherDrops(m) : phase[h] = "dropping"

\* Variants: one is subtracted for each item; the sender is dropped before the
\* entry is removed.
SubtractOne(g) ==
    /\ phase[g] = "dropping" /\ Droppable(g)
    /\ phase' = [phase EXCEPT ![g] = "subtracted"]
    /\ queuedTokens' = [queuedTokens EXCEPT ![ModelOf[itemKey[g]]] = @ - 1]
    /\ UNCHANGED <<now, request, entry, nextGen, itemKey, due, out, permits, estimated, pool, cached>>

HangUpFirst(g) ==
    /\ phase[g] = "dropping" /\ Droppable(g)
    /\ phase' = [phase EXCEPT ![g] = "subtracted"]
    /\ out' = [out EXCEPT ![g] = IF @ = "none" THEN "canceled" ELSE @]
    /\ queuedTokens' = [queuedTokens EXCEPT ![ModelOf[itemKey[g]]] = @ - TokensOf[itemKey[g]]]
    /\ UNCHANGED <<now, request, entry, nextGen, itemKey, due, permits, estimated, pool, cached>>

SubtractTokens(g) ==
    /\ phase[g] = "dropping" /\ Droppable(g)
    /\ phase' = [phase EXCEPT ![g] = "subtracted"]
    /\ queuedTokens' = [queuedTokens EXCEPT ![ModelOf[itemKey[g]]] = @ - TokensOf[itemKey[g]]]
    /\ UNCHANGED <<now, request, entry, nextGen, itemKey, due, out, permits, estimated, pool, cached>>

\* Variants: the removal does not look at the generation; nothing is removed.
UnmappedAny(g) == [entry EXCEPT ![itemKey[g]] = None]
LeftMapped(g)  == entry

\* An entry that is another generation's stays.
Unmapped(g) == [entry EXCEPT ![itemKey[g]] = IF @ = g THEN None ELSE @]

\* Under the map lock.
RemoveEntry(g) ==
    /\ phase[g] = "subtracted"
    /\ phase' = [phase EXCEPT ![g] = "unmapped"]
    /\ entry' = Unmapped(g)
    /\ UNCHANGED <<now, request, nextGen, itemKey, due, out, queue, pool, cached>>

\* The field tx: a sender dropped unused cancels the subscribers.
DropSender(g) ==
    /\ phase[g] = "unmapped"
    /\ phase' = [phase EXCEPT ![g] = "hungup"]
    /\ out' = [out EXCEPT ![g] = IF @ = "none" THEN "canceled" ELSE @]
    /\ UNCHANGED <<now, request, entry, nextGen, itemKey, due, queue, pool, cached>>

\* Variant: the permit goes with the item.
LosePermit(g) ==
    /\ phase[g] = "hungup"
    /\ phase' = [phase EXCEPT ![g] = "gone"]
    /\ UNCHANGED <<now, request, entry, nextGen, itemKey, due, out, queue, pool, cached>>

\* The field _permit, the last the drop releases.
ReleasePermit(g) ==
    /\ phase[g] = "hungup"
    /\ phase' = [phase EXCEPT ![g] = "gone"]
    /\ permits' = [permits EXCEPT ![ModelOf[itemKey[g]]] = @ + 1]
    /\ UNCHANGED <<now, request, entry, nextGen, itemKey, due, out, queuedTokens, estimated, pool, cached>>

Drop(g) == SubtractTokens(g) \/ RemoveEntry(g) \/ DropSender(g) \/ ReleasePermit(g)

-----------------------------------------------------------------------------
(* The batcher task of a model.                                            *)

\* Variant: the sweep reads the end of max_wait, not the clock.
CloseTime == now + 1

\* The clock as the sweep reads it, once for all items.
SweepTime == now

\* A worker is idle and there is work: everything queued is moved to the
\* buffer.
Collect(m) ==
    /\ batcher[m] = "collect"
    /\ FreeWorkers(m) # {}
    /\ LET buf == In(m, "queued") \cup In(m, "kept") IN
        /\ buf # {}
        /\ phase' = [g \in Gens |-> IF g \in buf THEN "judging" ELSE phase[g]]
    /\ batcher' = [batcher EXCEPT ![m] = "sweep"]
    /\ sweptAt' = [sweptAt EXCEPT ![m] = SweepTime]
    /\ UNCHANGED <<now, request, entry, nextGen, itemKey, due, out, queue, work, worker, cached>>

Live(g, t) == Subscribers(g) # {} /\ t < due[g]

\* buf.retain(live)
Judge(m, g) ==
    /\ batcher[m] = "sweep"
    /\ g \in In(m, "judging")
    /\ phase' = [phase EXCEPT ![g] = IF Live(g, sweptAt[m]) THEN "kept" ELSE "dropping"]
    /\ UNCHANGED <<now, request, entry, nextGen, itemKey, due, out, queue, pool, cached>>

Swept(m) == batcher[m] = "sweep" /\ In(m, "judging") = {} /\ BatcherDrops(m) = {}

\* The next batch, some of the kept items (which ones is module Pick), goes
\* to an idle worker.
Dispatch(m, w) ==
    /\ Swept(m)
    /\ w \in FreeWorkers(m)
    /\ \E batch \in SUBSET In(m, "kept") :
        /\ batch # {} /\ Cardinality(batch) <= MaxBatch
        /\ phase' = [g \in Gens |-> IF g \in batch THEN "running" ELSE phase[g]]
        /\ work' = [work EXCEPT ![w] = batch]
    /\ worker' = [worker EXCEPT ![w] = "run"]
    /\ batcher' = [batcher EXCEPT ![m] = "collect"]
    /\ sweptAt' = [sweptAt EXCEPT ![m] = 0]
    /\ UNCHANGED <<now, request, entry, nextGen, itemKey, due, out, queue, cached>>

\* Nothing live: round again, the idle slot released.
NothingLive(m) ==
    /\ Swept(m) /\ In(m, "kept") = {}
    /\ batcher' = [batcher EXCEPT ![m] = "collect"]
    /\ sweptAt' = [sweptAt EXCEPT ![m] = 0]
    /\ UNCHANGED <<now, request, entry, nextGen, item, queue, work, worker, cached>>

\* Variant: nothing closes the idle semaphore.
NeverStopped(m) == FALSE

\* The last worker retired and closed the idle semaphore: the batcher returns,
\* dropping its buffer, then its receiver with what is still queued in it.
StopBatcher(m) ==
    /\ batcher[m] = "collect"
    /\ \A w \in Workers : WorkerModel[w] = m => worker[w] = "retired"
    /\ batcher' = [batcher EXCEPT ![m] = "dropbuf"]
    /\ UNCHANGED <<now, request, entry, nextGen, item, queue, sweptAt, work, worker, cached>>

CloseReceiver(m) ==
    /\ batcher[m] = "dropbuf"
    /\ In(m, "kept") = {} /\ BatcherDrops(m) = {}
    /\ batcher' = [batcher EXCEPT ![m] = "closed"]
    /\ UNCHANGED <<now, request, entry, nextGen, item, queue, sweptAt, work, worker, cached>>

Discard(m, g) ==
    /\ \/ batcher[m] = "dropbuf" /\ g \in In(m, "kept")
       \/ batcher[m] = "closed" /\ g \in In(m, "queued")
    /\ BatcherDrops(m) = {}
    /\ phase' = [phase EXCEPT ![g] = "dropping"]
    /\ UNCHANGED <<now, request, entry, nextGen, itemKey, due, out, queue, pool, cached>>

-----------------------------------------------------------------------------
(* A worker thread.                                                        *)

\* backend.run returns, with a result per item or without, or it panics.
RunBatch(w) ==
    /\ worker[w] = "run"
    /\ \E result \in {"answer", "fail", "panic"} :
        /\ worker' = [worker EXCEPT ![w] = result]
        /\ estimated' = [estimated EXCEPT ![WorkerModel[w]] = @ \/ result = "answer"]
    /\ UNCHANGED <<now, request, entry, nextGen, item, permits, queuedTokens, batcher, sweptAt, work, cached>>

\* The items of a batch are handled one at a time, each dropped before the next.
NextItem(w, g) ==
    /\ g \in work[w]
    /\ \A h \in work[w] \ {g} : phase[h] \in {"running", "gone"}

\* Variant: L1 is written after the answer, if at all.
SkipL1(w, g) ==
    /\ worker[w] = "answer" /\ NextItem(w, g) /\ phase[g] = "running"
    /\ phase' = [phase EXCEPT ![g] = "stored"]
    /\ UNCHANGED <<now, request, entry, nextGen, itemKey, due, out, queue, pool, cached>>

PutL1(w, g) ==
    /\ worker[w] = "answer" /\ NextItem(w, g) /\ phase[g] = "running"
    /\ phase' = [phase EXCEPT ![g] = "stored"]
    /\ cached' = cached \cup {itemKey[g]}
    /\ UNCHANGED <<now, request, entry, nextGen, itemKey, due, out, queue, pool>>

\* Variant: the items of a failed batch are not told.
FinishAnswered(w, g) ==
    /\ NextItem(w, g) /\ worker[w] = "answer" /\ phase[g] = "stored"
    /\ out' = [out EXCEPT ![g] = "ok"]
    /\ phase' = [phase EXCEPT ![g] = "dropping"]
    /\ UNCHANGED <<now, request, entry, nextGen, itemKey, due, queue, pool, cached>>

\* finish, then the drop begins.
Finish(w, g) ==
    /\ NextItem(w, g)
    /\ \/ /\ worker[w] = "answer" /\ phase[g] = "stored"
          /\ out' = [out EXCEPT ![g] = "ok"]
       \/ /\ worker[w] \in {"fail", "panic"} /\ phase[g] = "running"
          /\ out' = [out EXCEPT ![g] = "err"]
    /\ phase' = [phase EXCEPT ![g] = "dropping"]
    /\ UNCHANGED <<now, request, entry, nextGen, itemKey, due, queue, pool, cached>>

\* The batch is done.  After a panic the backend is rebuilt; a factory that
\* fails retires the worker (one that panics is module WorkerPool).
EndBatch(w) ==
    /\ worker[w] \in {"answer", "fail", "panic"}
    /\ \A g \in work[w] : phase[g] = "gone"
    /\ work' = [work EXCEPT ![w] = {}]
    /\ \/ worker' = [worker EXCEPT ![w] = "free"]
       \/ worker[w] = "panic" /\ worker' = [worker EXCEPT ![w] = "retired"]
    /\ UNCHANGED <<now, request, entry, nextGen, item, queue, batcher, sweptAt, cached>>

-----------------------------------------------------------------------------
RunJobs(r) ==
    \/ CheckDeadline(r) \/ Admit(r) \/ Shed(r) \/ Sent(r) \/ Settle(r)
    \/ \E g \in Gens : Send(r, g) \/ Poll(r, g)

Batcher(m) ==
    \/ Collect(m) \/ NothingLive(m) \/ StopBatcher(m) \/ CloseReceiver(m)
    \/ \E g \in Gens : Judge(m, g) \/ Discard(m, g)
    \/ \E w \in Workers : Dispatch(m, w)

Worker(w) ==
    \/ RunBatch(w) \/ EndBatch(w)
    \/ \E g \in Gens : PutL1(w, g) \/ Finish(w, g)

Next ==
    \/ Tick
    \/ \E r \in Requests : Lookup(r) \/ RunJobs(r) \/ Timeout(r) \/ Abandon(r)
    \/ \E g \in Gens : Drop(g)
    \/ \E m \in Models : Batcher(m)
    \/ \E w \in Workers : Worker(w)

Spec == Init /\ [][Next]_vars

\* The runtime polls ready tasks and the OS runs threads, and backend.run
\* returns: while some of them can go on, one does, whichever.  (Less than fairness
\* to each.)  Nothing makes a client ask, leave, or the clock move.
Progress ==
    \/ \E r \in Requests : RunJobs(r) \/ Timeout(r)
    \/ \E g \in Gens : Drop(g)
    \/ \E m \in Models : Batcher(m)
    \/ \E w \in Workers : Worker(w)

Fairness == WF_vars(Progress)

FairSpec == Spec /\ Fairness

-----------------------------------------------------------------------------
(* Correctness.                                                            *)

RequestsOK ==
    /\ pc \in [Requests -> {"lookup", "check", "admit", "send", "wait"} \cup Ended]
    /\ todo \in [Requests -> SUBSET Keys]
    /\ subs \in [Requests -> SUBSET Gens]
    /\ parts \in [Requests -> SUBSET Gens]
    /\ lost \in [Requests -> BOOLEAN]
    /\ failed \in [Requests -> BOOLEAN]
    /\ readmits \in [Requests -> 0 .. MaxReadmits]

ItemsOK ==
    /\ entry \in [Keys -> Gens \cup {None}]
    /\ nextGen \in 0 .. MaxGens
    /\ phase \in [Gens -> Phases]
    /\ \A g \in Gens : phase[g] = "unborn" <=> g >= nextGen
    /\ itemKey \in [Gens -> Keys \cup {None}]
    /\ \A g \in Gens : phase[g] # "unborn" => itemKey[g] \in Keys
    /\ due \in [Gens -> Nat]
    /\ out \in [Gens -> {"none", "ok", "err", "canceled"}]

PoolOK ==
    /\ permits \in [Models -> Nat]
    /\ estimated \in [Models -> BOOLEAN]
    /\ batcher \in [Models -> {"collect", "sweep", "dropbuf", "closed"}]
    /\ sweptAt \in [Models -> Nat] /\ \A m \in Models : sweptAt[m] <= now
    /\ work \in [Workers -> SUBSET Gens]
    /\ worker \in [Workers -> {"free", "run", "answer", "fail", "panic", "retired"}]

\* Every variable has its type (queuedTokens, a sum, has its value in
\* TokensExact), the items that exist are those with a generation, and no
\* sweep is dated in the future.
TypeOK ==
    /\ now \in 0 .. MaxTime
    /\ cached \subseteq Keys
    /\ RequestsOK /\ ItemsOK /\ PoolOK

\* No permit is leaked or returned twice, whichever way an item ends and
\* whoever drops it: the free permits and the items alive are max_pending.
PermitsConserved ==
    \A m \in Models : permits[m] + Cardinality(ItemsOf(m)) = MaxPending[m]

\* queued_tokens, on which admission sheds, is the length of the items alive
\* that have not begun to drop: it returns to 0 when the model is idle, so
\* that a stale estimate cannot shed for ever.
TokensExact ==
    \A m \in Models :
        queuedTokens[m] =
            MapThenSumSet(LAMBDA g : TokensOf[itemKey[g]],
                          {g \in ItemsOf(m) : phase[g] \in Queued \cup Running \cup {"dropping"}})

\* An item that will still be run and that somebody waits for is the one the
\* map holds for its key: the next request joins it.  In particular a dying
\* item's late removal never takes away the entry of its successor.
WantedIsMapped ==
    \A g \in Gens :
        phase[g] \in Queued \cup Running /\ Subscribers(g) # {} => entry[itemKey[g]] = g

\* Coalescing: of one key at most one computation that somebody waits for is
\* queued or running.
OneComputation ==
    \A g, h \in Gens :
        /\ phase[g] \in Queued \cup Running /\ Subscribers(g) # {}
        /\ phase[h] \in Queued \cup Running /\ Subscribers(h) # {}
        /\ itemKey[g] = itemKey[h]
        => g = h

\* The map holds no entry whose item has gone (nobody would ever resolve or
\* remove it, and every later request of that key would wait for nothing).
EntriesAlive ==
    \A k \in Keys : entry[k] # None =>
        /\ itemKey[entry[k]] = k
        /\ phase[entry[k]] \in Queued \cup Running \cup {"dropping", "subtracted"}

\* A canceled subscriber that admits again cannot join the item that was
\* canceled: the entry goes before the sender (the order of Drop).
CanceledIsUnmapped ==
    \A g \in Gens : out[g] = "canceled" => \A k \in Keys : entry[k] # g

\* A queued item lives at least as long as every request that joined it.
DueCoversWaiters ==
    \A r \in Requests : \A g \in subs[r] : due[g] >= DeadlineOf[r]

\* A request is answered only when each of its keys was computed (and put in
\* L1 before the answer), whatever mixture of joined, lost and re-admitted
\* items it went through.
AnswersComplete ==
    \A r \in Requests : pc[r] = "ok" => Asks[r] \subseteq cached

\* The sweep drops no item somebody with time left was waiting for when it
\* was judged, however late they joined it.
SweepSparesWaiters ==
    [][\A g \in Gens : phase[g] = "judging" /\ phase'[g] = "dropping" =>
         \A r \in Subscribers(g) : DeadlineOf[r] <= now]_vars

\* A finished computation leaves the map only when L1 has it: no request sees
\* the key neither in flight nor cached.
CachedBeforeUnmapped ==
    [][\A k \in Keys : entry[k] # None /\ entry'[k] # entry[k] /\ out[entry[k]] = "ok" =>
         k \in cached]_vars

\* Each request that begins is answered, shed or failed, with the clock stopped
\* before its deadline too: none waits for an item that nobody will resolve,
\* whether the batch fails, the worker panics or the model shuts down under it.
\* (A request begins once and its end is final.)
RequestsSettle == <>[](\A r \in Requests : pc[r] \in {"lookup"} \cup Ended)

\* Every registered item ends and gives its permit back.  (What has gone does
\* not come back: a generation is used once.)
ItemsDrain == <>[](\A g \in Gens : ~Item(g))
=============================================================================
