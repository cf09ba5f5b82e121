# Verification of rsdecider

TLA+ models of the rsdecider inference server, the TLC configurations that check
them and TLAPS proofs of their most important properties. Paths in this file are
relative to the repository (`src/scheduler.rs` is the Rust file).

- [The system](#the-system): components, state, operations, interactions
- [Modules](#modules): what models what, and how state and actions map to the code
- [Runs](#runs): what TLC checks, with which bounds, and what it shows
- [Fairness](#fairness)
- [Proofs](#proofs)
- [Findings](#findings)
- [Not modelled](#not-modelled) and the [plan](#plan)

## The system

A client posts states and questions. The server authenticates it, charges its rate
limit, checks its idempotency key, builds one *cache key* per question, looks the
keys up in a two-tier cache, tokenizes the misses and hands them as *jobs* to the
scheduler, which coalesces identical jobs in flight, batches the rest and runs the
batches on worker threads.

| Component | Source | State | Operations | What makes it correct |
|---|---|---|---|---|
| Scheduler | `src/scheduler.rs` | in-flight map (key → generation, weak handle, deadline), permits, queued-token counter and estimate of each model; per request the todo list, subscriptions, readmissions | `run_jobs`, `admit`, `WorkItem::drop`, batcher's sweep, worker's results | one computation per key; no permit or token leaked; nobody with time left is dropped; a request is answered with every key or not at all |
| Worker pool | `src/scheduler.rs` | idle semaphore, bounded batch channel, live counter, worker threads | batcher loop, dispatch, failure, retirement | the channel never blocks the batcher; no batch goes to nobody; the last retirement stops the batcher |
| Batch choice | `src/scheduler.rs` `pick` | none | `pick` | caps respected, arrival order kept, nothing lost |
| Cache | `src/cache.rs` | L1 (weight and TTL bounded), L2 in Redis | `get` with promotion, `put_l1`, `put_l2` | a hit is a value of that key; L2 failures are misses |
| Idempotency | `src/idempotency.rs` | pending/done records in Redis or in process | `begin`, `finish` | one execution per key at a time, replay of the stored body, release on error by the owner only |
| Request pipeline | `src/api.rs` | tokenize and tokenize-queue semaphores; per request its deadline, raws and jobs | `run`, `decide_items` | permits held while work really runs; every question answered with a raw of its shape; no unbounded wait |
| Auth | `src/auth.rs` | key map behind an `ArcSwap`, a limiter per key | `lookup`, `check`, `reload` | reload never resets an unchanged key's limiter |
| Download | `src/download.rs` | a model folder on disk | `check`, `decide`, `pull` | a folder that passes the check is complete, whenever the process died |
| Life cycle | `src/main.rs`, `Scheduler::start` | ready channel, stop signal | start-up, SIGHUP, drain | start-up never hangs on a dead worker; a stop cuts a request that had begun only when Redis kept it beyond the drain |
| Configuration | `src/config.rs`, `src/knobs.rs` | none | parse, validate | the relations other parts assume (`max_batch_states * max_questions <= max_pending`, `burst >= max_batch_states`, `max_batch_tokens >= max_len`) |
| Language routing | `src/lang.rs` | none | `detect_script`, `guess_latin_language`, `is_english` | the model a state goes to follows from its counts, ties included |
| Sequences | `src/model/sequence.rs`, `src/model/mod.rs` | none | `prepare`, `assemble`, `encode`, `tokenize_prefix` | nothing past `max_len`, every option scored at its own mask, a prefix as good as the text |
| Numbers | `src/model/postprocess.rs` | none | softmax, scores | pure floating-point functions |
| Runtimes | `src/model/session.rs`, `mlx.rs`, `src/fake.rs` | a session | `run` | external |

Interactions: requests (tokio tasks) share the map under one mutex; they send items
through an unbounded channel to one batcher task per model; the batcher shares a
semaphore of idle slots and a channel of batches with the worker threads; a worker
writes L1, then answers through the item's oneshot, whose receiver every subscriber
shares. Dropping an item is itself an operation: tokens subtracted, entry removed
under the lock, sender dropped, permit released, each visible to other threads.

What is hard here: a request joins an item that is being dropped; the sweep judges by
a clock that is already old; a client goes away; a batch fails or panics; a worker
cannot be rebuilt; the last worker retires while items are on their way. The hazards
are listed at their lines in `PROJECT.json`.

## Modules

| Module | Models | Notes |
|---|---|---|
| `Scheduler` | requests, map, item life cycle, permits, batcher, workers | any number of models and workers |
| `Coalescing` | what the scheduler promises: a wanted key is computed once | the abstract specification |
| `SchedulerCoalesces` | the refinement mapping from `Scheduler` to `Coalescing` | extends `Scheduler`; checked by TLC and proved |
| `WorkerPool` | one model's start-up, idle slots, batch channel, retirement and crash of workers | refines the "idle slot" that `Scheduler` only counts |
| `Idempotency` | one Idempotency-Key in Redis and in the in-process maps | `begin`, `finish`, and the deadline and disconnects of `run` |
| `KeyLease` | what an Idempotency-Key promises: one holder or one kept response per store | the abstract specification |
| `IdempotencyLeases` | the refinement mapping from `Idempotency` to `KeyLease` | extends `Idempotency`; checked by TLC and proved |
| `Keys` | the API keys, their limiters, validation and the reload at SIGHUP | extended by `Server` |
| `Server` | a request from arrival to answer: rate limit, cache tiers, tokenizer threads, drain | awaits what `Idempotency` and `Scheduler` may answer |
| `ModelFolder` | a model folder: `check`, `pull`, `download`, `ensure_models`, and the server that loads it | kills between any two file operations |
| `Pick` | `pick` as a pure function | used by `WorkerPool` |
| `Sequence` | limits on options, `assemble`, `encode`, `tokenize_prefix` over token lengths | pure functions |
| `Language` | `detect_script`, `guess_latin_language`, `is_english` over counts | pure functions |
| `Helpers` | max, min and filter, as the functions use them | extended by `Pick`, `Sequence`, `Language` |
| `MCScheduler`, `MCWorkerPool`, `MCIdempotency`, `MCServer`, `MCModelFolder` | instances for TLC | |
| `MCFunctions` | the pure functions on bounded inputs, against declarative definitions | a state is an input |
| `SchedulerProofs`, `RefinementProofs` | theorems about `Scheduler`, and that it implements `Coalescing` | TLAPS |
| `WorkerPoolProofs`, `ServerProofs`, `FolderProofs` | theorems about `WorkerPool`, `Server` with `Keys`, `ModelFolder` | TLAPS |
| `IdempotencyProofs` | theorems about `Idempotency`, and that it implements `KeyLease` | TLAPS |
| `FunctionProofs` | theorems about the pure functions | TLAPS |
| `FoldLemmas` | induction, sums and folds: the lemmas that the counting proofs share | TLAPS |

The composition: `Scheduler` implements `Coalescing`, `Idempotency` implements `KeyLease`. `Server` extends `Keys` and takes from the scheduler
only that `run_jobs` returns a raw for every key it was given, or fails (`AnswersComplete` and
`RequestsSettle` of `Scheduler`), and from the idempotency key that `begin` proceeds or answers and that
`finish` awaits one command (`Idempotency`).

**Scheduler.** A WorkItem is a generation `g` with a phase: `held` (in admit's `parts`),
`queued` (in the channel), `judging`/`kept` (in the batcher's buffer, before and after
`retain` has looked at it), `running`/`stored` (in a worker, before and after L1 is
written), then `dropping`, `subtracted`, `unmapped`, `hungup`, `gone`: the steps of
its drop. `out[g]` is what its oneshot carries, `due[g]` its shared deadline, `entry[k]`
the map (the weak handle upgrades exactly while some request holds the item:
`Joinable`). A request's `pc` follows `run_jobs`; `subs` are the subscriptions not yet
resolved, `parts` the items registered and not sent. `Admit` and `Shed` are each one
critical section. The choice of a batch is any non-empty set of kept items, which
includes what `pick` chooses; channel and buffer order are in `WorkerPool`. `retain` judges the whole buffer
and then drops what it has rejected, one item after another (`Droppable`). The error for an unknown model index
(`:189`) is left out: `ModelOf` maps keys to models, and `api.rs` takes its
indices from the configured models. The
estimate is abstracted to whether there is one (`estimated`): then and with tokens ahead
admission may shed. `cached` is every key ever put in the cache; a lookup may miss any
of them, which covers expiry, eviction and Redis failures.

**SchedulerCoalesces.** A computation is a generation that is neither unborn nor dropping (`Computing`); a
request waits for those of its subscriptions that still compute, and its result is its `pc` once it has
ended. Then `Admit` is `Ask`, `PutL1` is `Learn`, the first step of a drop is `End`, the returns are `Answer`
and `Fail`, and everything else is a stutter.

**WorkerPool.** Start-up comes first: each thread calls its factory (`Build`: it has a backend, fails or
panics), sends one message and drops its sender (`DropReady`); `Hear` is the loop of `start` over the ready
channel. Items arrive once the scheduler is up. Items are numbered in arrival order. `waiters` is what `WorkItem::live`
sees and other threads change at any time. A worker that retires passes through
`forgot`, `closing`, `leaving`, so that two retirements interleave between
`idle_permit.forget()`, `live.fetch_sub` and `idle.close()`. A factory that panics on
the rebuild unwinds the thread (`Unwind`): the slot's permit is dropped, which returns
it, and the live counter is left as it was. Dropping the last receiver of the batch
channel makes the next send fail (`Dispatch` with no thread left).

**Idempotency.** A store is Redis or the map of one instance; a record has its kind, its
owner and what is left of its TTL. `pc` is the Redis command a request awaits (`set`, `get`,
`pttl`, `put`, `release`), the in-process step (`local`), `run` (all of `decide_items`), or an
end. A request that stops waiting leaves its command in `late`, from where it is executed
or lost. `Tick` is one unit of time; it waits until those whose timeout is over have acted, which is the
promptness that the slack of five seconds (`:61`) pays for. The cache lookup of `decide_items` is not under
the deadline, so a run may outlast it by one `redis_timeout`.
`Prompt`, `Slack > 2 * RedisTimeout + Delay`, holds for the defaults (5 s, 250 ms) unless Redis
executes an abandoned command more than 4.5 s later; `redis_timeout_ms` itself is only validated to be positive, so `Prompt`
is no assumption of the module: `idem_trio` satisfies it, `idem_live` does not, and the theorems that need it say so.
`age` and `overdue` are history variables: how long ago the record was set that a request still owes a `finish`, and
the stores in which a `finish` was executed when that record had expired.
A restarted process is another instance. Stores are independent: with Redis failing for
some requests only, one may run with a Redis record and another with a local one, which the
code accepts; the properties are per store.

**IdempotencyLeases.** A pending record is the key, held by its owner; a done record is the response kept;
`at` is the store of the `Guard`; a request has seen what its last `GET` returned. Its result is where it has
come to: `begin` is "asked", `decide_items` is "running", a replay is "replayed", everything later has "ended".
Then `Proceed` is `Take`, a late `SET NX` is `Stray`, `finish` is `End` and, for Redis, `Keep` or `Lapse` later,
expiry is `Lapse`, and clocks, retries and commands that are lost or abandoned are stutters.

**Server.** A connection sends one request after the other; `pc` is the await a request is at (`begin`, `cache`,
`wait` for a tokenizer thread, `encode`, `jobs`, `finish`) or the code between two. `closure` is its blocking
task, `detached` counts tasks whose request has gone; the semaphores `threads` and `queue` are released by
the task (`TaskEnds`) and never by a request that has one. When jobs fail, or their request leaves, any of their keys may
have been cached (`Put`). A cached value is good, bad (it does not
have one logit per option) or missing; a lookup may miss anything, which covers expiry, eviction, errors and
timeouts, and a write to Redis may be lost. `Timer` is when an await gives up: the deadline, or for the
cache lookup and `finish`, which are not under it, the Redis timeout. `Tick` waits for whoever can run at once.
`Stop` and `Exit` are the drain; requests whose body was still being read may begin during it. Reading a
body is before `handle` and under no timeout, so it is outside the model.

**Keys.** A configuration is what validation relates: `max_batch_states`, `max_questions_per_state`, `max_pending`, rates
and bursts. `Reload` replaces the map as a whole and keeps a limiter whose configuration is as before.
`age` and `granted` are history variables. Lookup and charge of one request are one step: there is no await
between them, and a reload on another thread that falls between charges the record it replaced. A file is validated
against its own limits; `Boot`, which the server was started with, does not change.

**ModelFolder.** A file is the sequence of its blocks, a manifest maps names to contents (a checksum is taken to
determine the content). A pull streams into a `.part` file, renames it when size and checksum are right, and
writes the manifest last, also by way of a `.part` file (`WriteManifest`, `Commit`); `Kill` and `NetworkError` may come between
any two steps. A server checks the folder, loads the fingerprint once (`Load`) and opens the weights at start and again when a
worker is rebuilt (`Open`), each also while `models pull` is at work on the folder.

**Sequence, Language.** A token is what it stands for, a text is its number of tokens, their width in bytes
and the places of white space. The tokenizer is external: it is taken to give the same tokens for a text and a prefix
of it except within `Reach` bytes of the cut (64 in the run, the margin of `tokenize_prefix`). For `Language` a text is the counts that the code makes of it.

**Variants.** A definition whose comment says "Variant" is used by no action and no other definition. It is a
plausible mistake in the definition it precedes; `PROJECT.json` pairs each checked property with a variant
that breaks it, which shows that the property depends on the code.

## Runs

The runs of `Scheduler`, `WorkerPool`, `Server` and `MCFunctions` take `CHECK_DEADLOCK FALSE`: the system
comes to rest when nobody asks, the server exits, and an input is complete. Those of `Idempotency` and
`ModelFolder` check for deadlock: a timeout, or a start, always lets somebody act.

| Run | Instance | States | Shows |
|---|---|---|---|
| `sched_trio` | 3 requests of one key, one with an earlier deadline, clock to 2, 1 worker, 2 permits, 3 generations, 1 readmission; the two later requests are interchangeable | 772 k | coalescing when a successor is registered and joined while its predecessor is dropping; expiry, cancellation, failure, panic, retirement; the refinement of `Coalescing` |
| `sched_both` | 2 models with a worker and one permit each, one request of both keys, one of the second, one deadline, clock to 1, 4 generations, 3 readmissions | 0.97 M | all-or-nothing admission, permits and tokens (lengths 2 and 3) across models, complete answers; requests settle and items drain |
| `pool_live` | 2 workers from their first step, 3 items (lengths 3, 2, 2), batches of 2, 3 panics, a factory that may fail or panic | 140 k | start-up ends; slots, counter and channel survive retirements and a panicking factory; arrival order; items end, the batcher stops |
| `pool_ready` | 2 workers, 2 items, 2 panics, factory may panic | - | a violation, see [Findings](#findings) |
| `functions` | `pick`: lengths 1-5, up to 4 buffered items, 12 pairs of caps; `assemble`: 20 models, up to 3 options, heads to 20, states to 40 tokens; `tokenize_prefix`: texts to 200 tokens of 5 widths with white space in 4 patterns; detection: up to 3 letters of 4 kinds and 640 counts | 179 k | each function equals, or has the properties of, a definition that is not an algorithm |
| `idem_trio` | 3 requests with Redis: one with another body on one instance, two interchangeable ones on a second; `RequestTimeout` 0, `RedisTimeout` 1, `Delay` 1, `Slack` 4, one round | 1.6 M | a holder keeps its record, no two run in one store, replay and mismatch, with a successor of a successor; the refinement of `KeyLease` |
| `idem_live` | 2 requests on one instance with Redis and a map that evicts, `RequestTimeout` 1, `DoneTtl` 2, `Slack` 2, 2 rounds | 128 k | stored responses are final up to a SET later than the pending TTL (3), which occurs; failing requests remove their own record only, requests end, pending records go |
| `idem_gone` | 2 requests on one instance without Redis | - | a violation, see [Findings](#findings) |
| `folder` | a server and a pull, 3 files, 2 of them core, folders missing, broken, legacy or older; 2 faults | 66 k | no torn file, the manifest last, nothing lost, the server serves in the end |
| `folder_print` | the same with 1 fault | - | a violation, see [Findings](#findings) |
| `server` | 2 connections, 3 requests (one a batch of two states that share a question with the other), 1 tokenizer thread, queue of 2, request and Redis timeout 1, drain slack 2, clock to 4, one reload from 4 files | 1.7 M | tokenizer permits, complete answers, ends in time, the drain, rate budgets across a reload |
| `server_burst` | the same with one request, clock to 1 | - | a violation, see [Findings](#findings) |

Bounds. `MaxGens` bounds the WorkItems ever created; three let an item, its successor
and the successor's successor exist together, which is the depth the generation check
is about. In `sched_both` four suffice for liveness too: a request held back by the bound would never settle,
and `RequestsSettle` would fail. `MaxTime` is the later deadline: nothing reads
the clock beyond it. `MaxPanics` lets every worker retire. Three requests on two connections let a detached task of the first meet
a second and a third request; `MaxTime` 4 passes the end of a drain that begins at 0 or 1. The drain slack is two Redis timeouts, the greatest with which
a drain still cuts a request that had begun, so both sides of `DrainCovers` are reached. The files of `Server` are the same keys, a burst that goes with lower limits, no key, and a
burst that does not validate. Two faults interrupt a pull and the pull that repairs it. Two workers are needed for
two concurrent retirements, and suffice: the counter and the semaphore treat them alike.
In `Idempotency` the number of requests bounds everything: each makes one pass. The
timeouts are the least that keep their order (`DoneTtl` may be shorter than the pending TTL, which
lets a stored response expire while commands are late).

## Fairness

`Scheduler`: weak fairness of `Progress`, any step of a request inside `run_jobs`, its timer, a drop, a batcher or a worker: as long
as some of them can go on, one of them does. The runtime polls every ready task and the OS runs every thread, which
is more (fairness to each), so what holds here holds of the code; for a worker it includes that `backend.run`
and the factory return. There is no fairness for the clock, for a client that begins (`Lookup`) or disconnects
(`Abandon`). `RequestsSettle` is checked with the clock stopped before the deadline too, where no request settles by its timeout.

`Idempotency`: the timeouts fire (`GiveUp`, `DeadlineHit`), the in-process step and
`decide_items` return (`Local`, `Finish`: every wait in it is bounded), a late command is
executed or lost, and time passes. That Redis ever answers is not assumed.

`WorkerPool`: `start` is polled, each thread runs, its factory returns or panics.

`ModelFolder`: a process that is not killed goes on, and a server that ended is started again (strongly fair, since a
pull that happens to be at work does not keep a supervisor from trying for ever). Nobody need run `models pull`. Two
processes do not pull into one folder at the same time: the code takes no lock, and two pulls would share
a `.part` file.

## Proofs

Proved by TLAPS for every value of the constants that meets the named assumptions of the modules, which
say that the constants have their types, that sets which are counted are finite, and no more than the code ensures.
What goes beyond the code is a hypothesis of the theorem that needs it: `~LocalEvicts` and `Prompt` of `HolderCorrect`, `ExclusiveCorrect`
and `LeaseCorrect`, `Reach <= Margin` of `PrefixCorrect`, and of `BurstCoversBatchThm` that no valid file lowers `max_batch_states`. TLC
evaluates every assumption, `idem_trio` satisfies the first two, and `functions` has `Reach` equal to `Margin`. Every invariant
and every action property of a passing run is stated by one of the theorems.

| Theorem | States |
|---|---|
| **`SchedulerProofs`** | |
| `TypeCorrect` | `Spec => []TypeOK` |
| `MapCorrect` | entries are alive, wanted items are mapped, deadlines cover the waiters |
| `CoalescingCorrect` | at most one wanted computation per key |
| `SweepCorrect` | the sweep drops nobody with time left (action property) |
| `CancelCorrect` | a cancelled item is not in the map |
| `CacheCorrect` | an answered item leaves the map only once cached (action property) |
| `AnswersCorrect` | an answered request has every key it asked for |
| `PermitsCorrect` | free permits + items alive = `max_pending` |
| `TokensCorrect` | a model's token counter is the sum of the lengths of its counted items |
| **`RefinementProofs`** | |
| `RefinesCoalescing` | `Spec => ImplementsCoalescing`: every step is one of `Coalescing`, or none |
| **`WorkerPoolProofs`** | |
| `PoolSoundThm` | slots, live counter and channel are exact; nothing is admitted before all workers have built |
| `DroppedOnlyWithoutWorkersThm` | a sent item is dropped unanswered only when no worker is left |
| `NotOvertakenThm` | an item that waits is not overtaken by a later one of its length |
| **`IdempotencyProofs`** | |
| `TypeCorrect` | the types, whatever is evicted, lost or late |
| `HolderCorrect`, `ExclusiveCorrect` | a running request has its record; one per store at a time (given `~LocalEvicts` and `Prompt`) |
| `StoredCorrect` | for all timeouts and delays, a stored response is not replaced before a SET later than the pending TTL (action property) |
| `ReplayCorrect` | a replayed response was stored for the same body, in a store that is consulted |
| `ReleaseCorrect` | a failing request removes its own record only (action property) |
| `LeaseCorrect` | `Spec => ImplementsLease`: every step is one of `KeyLease`, or none (given `~LocalEvicts` and `Prompt`) |
| **`ServerProofs`** | |
| `PermitsExactThm` | the tokenizer's semaphores are what its running tasks and waiters hold |
| `EveryQuestionAnsweredThm` | a 200 carries a raw of the right shape for every question |
| `EndsInTimeThm` | a request ends at most two Redis timeouts after its deadline |
| `DrainCoversThm` | for every configuration, the exit cuts a request that had begun at the stop only when Redis kept it at least the drain's slack, at most two Redis timeouts, past its deadline |
| `BudgetKeptThm` | what a key is granted across reloads |
| `BurstCoversBatchThm` | bursts cover a full batch if no valid file lowers `max_batch_states` |
| **`FolderProofs`** | |
| `WholeFilesThm` | a file under its own name is whole, however often processes are killed |
| `ManifestLastThm`, `FilesStayThm` | the manifest comes last; nothing is taken from a folder (action properties) |
| **`FunctionProofs`** | |
| `PickCorrect` | `pick` is its reference definition, on every buffer and under every cap |
| `LanguageCorrect` | whether a state goes to the English model is as in the reference, for any letters, words and diacritics |
| `SequenceCorrect` | a sequence fits `max_len`; each encoded option has a mask of its own, followed by its text |
| `RoomCorrect` | head and state get their shares, for any question within the limits |
| `PrefixCorrect` | a prefix of a long state gives the sequence its whole text would give, if `Reach <= Margin` |

**Scheduler.** The inductive invariant is `TypeOK` with `MapInv`, which adds to `EntriesAlive`,
`WantedIsMapped` and `DueCoversWaiters` that nobody subscribes to an unborn generation
(else an admission could hand an old subscriber a new item). `OneComputation` follows: two
wanted items of a key would be the one its entry names. `SweepCorrect` needs that a sweep's clock reading is
never in the future (part of `PoolOK`) and that a subscriber's deadline is within its
item's. `FateInv` ties an item's result to its phase; `AsksInv` says that what a request no
longer asks for is cached. `AdmitFacts` collects what the critical section of admission
does to fresh and to old generations; `ItemsForward` that phases only advance, and an
entry's item stays alive until `RemoveEntry`. `PermitsCorrect` counts: an admission adds
to a model's items the generations it takes permits for, `ReleasePermit` removes one. `TokensCorrect` adds: the
counter is a sum over the counted generations, an admission adds the sum over the disjoint set of fresh ones
(`SumViaAdd`), the second step of a drop takes one term away (`SumViaWithout`), and no other step changes which are
counted or what they weigh.

`RefinesCoalescing` takes these invariants together with two of its own: only a request that is sending or
waiting has subscriptions (`SubsIdle`), and what it still has to do is among what it asked for (`TodoAsked`). `WantedEntry` is the heart: the computations
of a key that somebody waits for are exactly the one its entry names if it can be joined, and none if not, which
makes the map's lookup the abstract question. `AdmitAsks` then shows the one critical section of
admission to be one `Ask`, `RequestRefines` and `ItemRefines` go through the other actions.

**WorkerPool.** `PoolSound` is not inductive: that the start heard `n` workers says something about them only together with what
is still in the ready channel (`HeardFromBuilt`), and before the start succeeds there is nothing to count (`NotUp`). `PoolInv`
adds these (`StartInv`) to the two sums. Slots are counted as a sum with named parts (free, in the
batcher's hand, in the channel, at workers), each step moves one from part to part (`SlotMove`); the
channel's room follows, since a slot in the batcher's hand is not in the channel. `DroppedOnlyWithoutWorkers` needs that
the semaphore is closed only at `live = 0` (`ClosedInv`), and that `live = 0` means nobody counted.
`NotOvertaken` needs that channel and buffer increase, one after the other (`OrderInv`), that `pick` leaves no
item behind a later one of its length (`PickInOrder`, from `ChosenInOrder`), and that an item out of the queue has
not been lost while a thread lives (`OutInv`).

**Idempotency.** The strengthening is `RecordInv`: a running request's record has at least
`Slack - RedisTimeout` more to live than the request, a finishing one's at least `Delay`
more than the wait, and an abandoned last command still meets its own record (`LateInv`). So whatever
such a command writes replaces only its own record (`OwnStep`), and a new request
finds no record only when nobody relies on one (`ProceedStep`). This takes `~LocalEvicts`, without which a full map forgets records
as the code intends, and `Prompt`, without which a command outlives the record it is about. The other theorems need neither.

`StoredCorrect` is about every choice of the timeouts, commands later than the pending TTL included. While a request owes its
`finish`, `age` counts from when its record was set (`OwesInv`), and as long as that is less than the pending TTL
nobody can have taken the key in that store: the record is still its own, with the rest of the TTL, unless a late SET
had been executed there before (`ClaimInv`). So a SET within the TTL replaces its own record, and one after it makes the store
`overdue`. `ClaimStep` has a step per action; `ProceedClaim`, `AbandonClaim`, `WriteClaim` and `TickClaim` are those that touch a claim.

`ReplayCorrect` follows the response instead of the record: wherever one
is, in a store, in a request's hand or on its way, it was stored by a request that had the key there (`ResponseInv`).
`LeaseCorrect` adds `LeaseInv`: a request that has yet to ask for the key in a store has no record
and no command on its way there, so that the key it takes is free (`PendingInv`); a late `SET NX` is of a request
without a Guard for Redis, so it can only stray (`StrayInv`). `ProceedTakes`, `VerdictEnds`,
`RunEnds`, `LastCommand`, `LateTakes` and `TickLapses` are the abstract steps; time lets only keys lapse that nobody runs with,
because of `RunInv`.

**Server.** `PermitsExact` says what the semaphores have left where a request awaits; to be inductive it needs that a task has a
request in `encode` or is counted as detached (`TaskHasRequest`), and that a request waits for a thread only with a question
open (`OpenInv`). `RawInv`: no raw of a bad shape is ever kept, and at the jobs every question has its raw or its job. `TimeInv` bounds every await
by the timer it is under; a tick cannot pass a timer that is over, and `EndsInTime` is its maximum. `DrainCovers` is
`TimeInv` at the exit (`CutLate`): the drain has lasted a request's timeout and its slack, so a request that is cut and had begun is
past its deadline by the slack at least, and by `TimeInv` two Redis timeouts at most; `CutInv` keeps that.
`BurstCoversBatchThm` follows the file that the keys in use came from. `KeysInv` keeps for each limiter `granted + cells <= burst + rps * age`.

**ModelFolder.** `FolderInv` adds to `WholeFiles` that at most one process pulls (which the model assumes in `Start`, see
[Fairness](#fairness)), that the `.part` file it writes is what it has hashed, and that the files it has passed are the remote ones: so
a rename puts a whole file in place, and at the manifest all are.

**Functions.** `pick` is translated with `Keep` and a recursion over positions; `ChosenFacts` shows by induction over the
buffer that the chosen positions are those that join, `RoomIsJoins` that joining is having room after the chosen ones before it, and
`PickShape` that batch and rest share the buffer. For `LanguageCorrect`, the fold in `FirstMost` is followed step by step: after
each candidate it holds the first of the greatest so far (`FirstMostIsFirst`). As `Counted` lists Latin last, Latin loses a tie
(`DetectScriptFacts`); `GuessFacts` says the same of stop words and `DiacriticRates` compares the rates without dividing.

For the sequences, `FlattenFacts` says where the elements of each part lie once parts are put in a row: part `j` begins at the sum of
the lengths before it. `AssembleIs` names the pieces of `assemble`, `QuestionFacts` and `WholeFacts` say at which position each of them is, and
`AssembleScores` reads the masks off that: the marker of an option is where its part begins (`MarkerFacts`), a part begins with a mask, and a marker that
is kept is before the cut, so the mask is too. `SequenceCorrect` follows, as `encode` refuses a question that has lost a marker. For
`RoomCorrect`, `DivideFacts` and `PartsFacts` bound what options that share a budget take of it, `LengthFacts` what that leaves to the
head and the state, and `KindTogether` turns their stretch of positions into the number of their elements.

`PrefixCorrect` is about the cut: a token that `tokenize_prefix` keeps ends at least `Margin` bytes before
it, so the tokenizer gives what it gives for the whole text (`PrefixFacts`, where `Reach <= Margin` is used), and when
fewer than `max_len` tokens would be kept the code takes the whole text. `assemble` uses no more than `max_len`
tokens of a state, so two states that agree so far give one sequence (`AssembleSame`). `Reach <= Margin` is a property of the tokenizer, which
is external; the margin of the code is there for it.

The library's induction theorems take an operator as parameter, which no installed prover
instantiates. `FoldLemmas` does induction with a set instead: a set that holds 0 and the
successor of each of its members holds every natural (`NatSetInduction`, from well-foundedness). With it
come the sums over finite sets and the folds over sequences that the theorems above need. A predicate
passed as an argument (`SelectSeq`, a `LAMBDA`) cannot be expanded either, which is why `Helpers` has `Keep`
and why `RoomForAll` counts positions.

Only model-checked: liveness (`RequestsSettle`, `ItemsDrain`, `StartEnds`, `ItemsEnd`, `BatcherStops`, `RequestsEnd`,
`PendingEnds`, `ServesInTheEnd`). It rests on fairness, hence on ENABLED, which is outside the prover's reach. The runs
that check it have the bounds told above.

## Findings

`pool_ready`: `Scheduler::ready` is documented as "Every model has at least one live
worker" (`src/scheduler.rs:181`) and `/readyz` as "`ready` while every model has a live
worker, else `503`" (`README.md:149`). A worker counts itself out only when the factory *returns* an error
on the rebuild; a factory that *panics* there (line 455) unwinds the thread without
`live.fetch_sub`, and `ready()` stays true with no worker thread left. The items themselves are not lost:
`pool_live` shows that the send to the channel without receivers fails and everything
queued is dropped.

`idem_gone`: the `409` is documented as "A request with this Idempotency-Key is still running"
(`openapi.yaml:262`) and "Same `Idempotency-Key` still running" (`README.md:184`). When the client of the first request
disconnects, the handler is dropped between `begin` and `finish` (`src/api.rs:265`); `Guard` has
no `Drop`, and a retry is told `409` until `request_timeout` + 5 s have passed although
nothing runs. `idem_live` shows that the record does go then.

`folder_print`: `src/model/mod.rs:71` says of the fingerprint that it is "sha256 over the weights actually
served"; cache keys and the model name of responses derive from it. It is computed once, by `LoadedModel::load`,
while the factory that starts a session, and rebuilds it after a panic, opens the file by its path (`src/main.rs:187`). `models pull`
replaces files only where the folder fails its full check of checksums (`src/main.rs:87`); the server starts on a folder
that passes a check of sizes, or of names while it has no manifest. If the pull renames the weights after the
server took the fingerprint, the next session answers with the new weights, and its
answers are cached under the fingerprint of the old.

`server_burst`: `KeyRecord::check` answers `429` with a retry of one second when a charge is above the burst, with the
comment "n > burst; startup validation prevents this" (`src/auth.rs:29`). `Config::validate` does require
`burst >= max_batch_states`, but a reload at SIGHUP (`src/main.rs:274`) takes keys that were validated against `max_batch_states` of the new
file into a server that goes on accepting batches up to the `max_batch_states` it was started with. After a file that lowers both, a full
batch is refused for ever. `BurstCoversBatchThm` says that files which do not lower it are safe.

Observations that no run states as a violation:

- The cache is looked up before admission and not again under the map lock, so a key whose computation
  finishes in between is computed twice.
- The drain is `request_timeout` + 1 s. A request may outlast its deadline by two Redis waits (lookup and `finish`), so with
  `redis_timeout_ms` of 500 or more, which validation accepts, a stop can cut a request that had begun. `DrainCovers` says when.
- `pending_ttl` is `request_timeout` + 5 s whatever `redis_timeout_ms` is. Without `Prompt` a key can be executed twice
  at once, and a SET that Redis executes after the pending TTL replaces what a successor stored.
- "Only a manifest that isn't there means a legacy folder" (`src/download.rs:109`): a first pull that is killed
  before its last rename also leaves a folder without manifest. If all core files are there, of
  two exports perhaps, it passes as legacy and is served.
- Many options can leave the state no room: with more options than `(head_max_len - 16) / 4` each still takes
  4 tokens. `RoomForAll` holds where `head_max_len` has room for that share.

## Not modelled

Floating-point estimate and scores, text handling (rendering of questions, the tables of scripts and stop words), HTTP, the syntax of
the configuration, metrics, the model runtimes, the Python tools. Components with status `not_modelled` in
`PROJECT.json` say why. Two pulls into one folder at once, and the reading of a request's body, are outside the models as said above.

## Plan

What is modelled is checked, and its safety is proved. Left is the step between the two views of a worker: `WorkerPool` as an
implementation of the worker part of `Scheduler`, which only counts the idle slots and lets any non-empty set of kept items
be a batch. `PoolSound` and `PickCorrect` say what the step would use: a slot in the batcher's hand is one of the pool's, and a
batch is of items that were kept.
