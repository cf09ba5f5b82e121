----------------------------- MODULE WorkerPool -----------------------------
(***************************************************************************)
(* src/scheduler.rs: one model's start-up, its batcher and its worker      *)
(* threads, joined by a semaphore of idle slots and a bounded channel of   *)
(* batches.                                                                *)
(*                                                                         *)
(* start spawns the threads and waits for one message of each on a channel *)
(* whose senders only they hold; a thread that ends without a message must *)
(* end the wait by dropping its sender.                                    *)
(*                                                                         *)
(* A slot travels: the batcher takes it before it collects a batch, sends  *)
(* it with the batch, and the worker gives it back when the batch is over. *)
(* A worker whose backend cannot be rebuilt after a panic retires and      *)
(* keeps its slot for ever; the last to retire closes the semaphore.  A    *)
(* factory that panics instead unwinds the thread.                         *)
(*                                                                         *)
(* A definition marked "Variant" is used by no action: it is a mistake the *)
(* definition below it could be, kept to show which property notices.      *)
(*                                                                         *)
(* Items arrive in the order of their numbers.  What an item's drop does   *)
(* to the map and the permits is module Scheduler.                         *)
(***************************************************************************)
EXTENDS Integers, FiniteSets, Sequences, SequencesExt, Pick

CONSTANTS
    Workers,     \* the worker threads of the model
    MaxItems,    \* bound: items ever sent
    ItemLens,    \* the token length of an item
    MaxBatch,    \* max_batch_items
    MaxTokens,   \* max_batch_tokens
    MaxPanics,   \* bound: times backend.run panics
    FactoryMayPanic  \* whether the factory can panic, not only fail

Items == 1 .. MaxItems

ASSUME PoolAssumption ==
    /\ IsFiniteSet(Workers) /\ Workers # {}
    /\ MaxItems \in Nat /\ MaxPanics \in Nat
    /\ ItemLens \in [Items -> Nat]
    /\ MaxBatch \in Nat \ {0} /\ MaxTokens \in Nat
    /\ FactoryMayPanic \in BOOLEAN

VARIABLES
    \* start: where it is, the messages it waits for and those it has had, the
    \* threads that can still send one
    start, reports, heard, senders,
    \* the items
    arrived,     \* items sent so far
    waiters,     \* whether an item is still wanted
    fate,        \* how an item ended
    \* the batcher
    rx, rxOpen, buf, bpc,
    \* the idle semaphore, the channel of batches, the live counter
    idle, idleClosed, chan, live,
    \* the workers
    wpc, batch, panics

startup == <<start, reports, heard, senders>>
items   == <<arrived, waiters, fate>>
bvars   == <<rx, rxOpen, buf, bpc>>
slots   == <<idle, idleClosed, chan, live>>
workers == <<wpc, batch, panics>>
vars    == <<startup, items, bvars, slots, workers>>

-----------------------------------------------------------------------------
\* A thread that has not returned or been unwound.
Threads == {w \in Workers : wpc[w] \notin {"failed", "quit", "retired", "crashed"}}
\* The threads that hold a slot.
Holding == {w \in Workers : wpc[w] \in {"run", "done", "rebuild"}}
BatcherHolds == bpc \in {"recv", "collect", "swept"}

\* The items in s end as how says.
End(s, how) ==
    fate' = [i \in Items |-> IF i \in ToSet(s) THEN how ELSE fate[i]]

Init ==
    /\ start = "waiting" /\ reports = <<>> /\ heard = 0 /\ senders = Workers
    /\ arrived = 0
    /\ waiters = [i \in Items |-> "live"]
    /\ fate = [i \in Items |-> "open"]
    /\ rx = <<>> /\ rxOpen = TRUE /\ buf = <<>> /\ bpc = "unborn"
    /\ idle = Cardinality(Workers) /\ idleClosed = FALSE
    /\ chan = <<>> /\ live = Cardinality(Workers)
    /\ wpc = [w \in Workers |-> "build"]
    /\ batch = [w \in Workers |-> <<>>]
    /\ panics = 0

-----------------------------------------------------------------------------
(* Start-up.                                                               *)

\* A new thread calls the factory: it has a backend, fails, or panics.
Build(w) ==
    /\ wpc[w] = "build"
    /\ \/ /\ reports' = Append(reports, "ok")
          /\ wpc' = [wpc EXCEPT ![w] = "built"]
          /\ UNCHANGED senders
       \/ /\ \/ reports' = Append(reports, "error")
             \/ FactoryMayPanic /\ UNCHANGED reports
          /\ wpc' = [wpc EXCEPT ![w] = "failed"]
          /\ senders' = senders \ {w}
    /\ UNCHANGED <<start, heard, items, bvars, slots, batch, panics>>

\* Variant: a worker that serves keeps its sender.
KeepReady(w) ==
    /\ wpc[w] = "built"
    /\ wpc' = [wpc EXCEPT ![w] = "recv"]
    /\ UNCHANGED <<startup, items, bvars, slots, batch, panics>>

\* drop(ready)
DropReady(w) ==
    /\ wpc[w] = "built"
    /\ senders' = senders \ {w}
    /\ wpc' = [wpc EXCEPT ![w] = "recv"]
    /\ UNCHANGED <<start, reports, heard, items, bvars, slots, batch, panics>>

\* start receives: with the last "ok" the batcher is spawned; an error, or
\* nobody left to hear from, ends the start and drops the batches' sender.
Hear ==
    /\ start = "waiting"
    /\ \/ /\ reports # <<>> /\ Head(reports) = "ok"
          /\ heard' = heard + 1
          /\ reports' = Tail(reports)
          /\ IF heard' = Cardinality(Workers) THEN start' = "up" /\ bpc' = "acquire"
                                             ELSE UNCHANGED <<start, bpc>>
       \/ /\ \/ reports # <<>> /\ Head(reports) = "error"
             \/ reports = <<>> /\ senders = {}
          /\ start' = "failed"
          /\ UNCHANGED <<heard, reports, bpc>>
    /\ UNCHANGED <<senders, items, rx, rxOpen, buf, slots, workers>>

\* recv fails in a worker of a start that failed.
Quit(w) ==
    /\ start = "failed" /\ wpc[w] = "recv"
    /\ wpc' = [wpc EXCEPT ![w] = "quit"]
    /\ UNCHANGED <<startup, items, bvars, slots, batch, panics>>

-----------------------------------------------------------------------------
(* The senders.                                                            *)

\* admit sends an item; once the receiver is gone it fails at once.
Arrive ==
    /\ start = "up" /\ arrived < MaxItems
    /\ arrived' = arrived + 1
    /\ IF rxOpen
       THEN rx' = Append(rx, arrived + 1) /\ UNCHANGED fate
       ELSE End(<<arrived + 1>>, "refused") /\ UNCHANGED rx
    /\ UNCHANGED <<startup, waiters, rxOpen, buf, bpc, slots, workers>>

\* What Live sees of an item changes while it is open: its deadline passes, a
\* request with a later deadline joins it, its last subscriber leaves.
Waiters(i, from, to) ==
    /\ i <= arrived /\ fate[i] = "open"
    /\ waiters[i] \in from
    /\ waiters' = [waiters EXCEPT ![i] = to]
    /\ UNCHANGED <<startup, arrived, fate, bvars, slots, workers>>

Expire(i)  == Waiters(i, {"live"}, "expired")
Extend(i)  == Waiters(i, {"expired"}, "live")
Abandon(i) == Waiters(i, {"live", "expired"}, "abandoned")

-----------------------------------------------------------------------------
(* The batcher.                                                            *)

Acquire ==
    /\ bpc = "acquire" /\ ~idleClosed /\ idle > 0
    /\ idle' = idle - 1
    /\ bpc' = IF buf = <<>> THEN "recv" ELSE "collect"
    /\ UNCHANGED <<startup, items, rx, rxOpen, buf, idleClosed, chan, live, workers>>

\* The batcher returns: its buffer and what is still queued are dropped.
Return ==
    /\ bpc' = "stopped"
    /\ rxOpen' = FALSE
    /\ rx' = <<>> /\ buf' = <<>>

\* The semaphore is closed.
Stop ==
    /\ bpc = "acquire" /\ idleClosed
    /\ Return
    /\ End(rx \o buf, "dropped")
    /\ UNCHANGED <<startup, arrived, waiters, slots, workers>>

Full == Len(buf) >= MaxBatch \/ FoldLeft(LAMBDA n, i : n + ItemLens[i], 0, buf) >= MaxTokens

\* recv: the first item at leisure, the others until the batch is full.
Receive ==
    /\ rx # <<>>
    /\ bpc = "recv" \/ (bpc = "collect" /\ ~Full)
    /\ buf' = Append(buf, Head(rx))
    /\ rx' = Tail(rx)
    /\ bpc' = "collect"
    /\ UNCHANGED <<startup, items, rxOpen, slots, workers>>

\* The batch is full or max_wait is over (at any time, for the model): take
\* all that is queued and drop the dead; with nothing left go round again.
Sweep ==
    /\ bpc = "collect"
    /\ LET all  == buf \o rx
           dead == {i \in Items : waiters[i] # "live"}
       IN /\ buf' = Keep(all, Items \ dead)
          /\ End(Keep(all, dead), "skipped")
    /\ rx' = <<>>
    /\ IF buf' = <<>> THEN bpc' = "acquire" /\ idle' = idle + 1
                      ELSE bpc' = "swept" /\ UNCHANGED idle
    /\ UNCHANGED <<startup, arrived, waiters, rxOpen, idleClosed, chan, live, workers>>

\* pick and send.  The send fails when every worker thread is gone; the batch
\* is dropped with the rest.
Dispatch ==
    /\ bpc = "swept"
    /\ LET picked == PickBatch(Head(buf), Tail(buf), ItemLens, MaxBatch, MaxTokens) IN
        \/ /\ Threads # {}
           /\ chan' = Append(chan, picked.batch)
           /\ buf' = picked.rest
           /\ bpc' = "acquire"
           /\ UNCHANGED <<rx, rxOpen, fate, idle>>
        \/ /\ Threads = {}
           /\ Return
           /\ idle' = idle + 1
           /\ End(rx \o buf, "dropped")
           /\ UNCHANGED chan
    /\ UNCHANGED <<startup, arrived, waiters, idleClosed, live, workers>>

-----------------------------------------------------------------------------
(* A worker.                                                               *)

Take(w) ==
    /\ wpc[w] = "recv" /\ chan # <<>>
    /\ batch' = [batch EXCEPT ![w] = Head(chan)]
    /\ chan' = Tail(chan)
    /\ wpc' = [wpc EXCEPT ![w] = "run"]
    /\ UNCHANGED <<startup, items, bvars, idle, idleClosed, live, panics>>

\* backend.run, then every item of the batch is answered, or failed, and dropped.
Run(w) ==
    /\ wpc[w] = "run"
    /\ \/ /\ wpc' = [wpc EXCEPT ![w] = "done"]
          /\ \/ End(batch[w], "answered")
             \/ End(batch[w], "failed")
          /\ UNCHANGED panics
       \/ /\ panics < MaxPanics /\ panics' = panics + 1
          /\ wpc' = [wpc EXCEPT ![w] = "rebuild"]
          /\ End(batch[w], "failed")
    /\ batch' = [batch EXCEPT ![w] = <<>>]
    /\ UNCHANGED <<startup, arrived, waiters, bvars, slots>>

\* Variant: the slot stays with the worker.
KeepSlot(w) ==
    /\ wpc[w] \in {"done", "rebuild"}
    /\ wpc' = [wpc EXCEPT ![w] = "recv"]
    /\ UNCHANGED <<startup, items, bvars, slots, batch, panics>>

\* The end of the loop's body, after a rebuild that worked too, gives the slot back.
GiveBack(w) ==
    /\ wpc[w] \in {"done", "rebuild"}
    /\ idle' = idle + 1
    /\ wpc' = [wpc EXCEPT ![w] = "recv"]
    /\ UNCHANGED <<startup, items, bvars, idleClosed, chan, live, batch, panics>>

\* The factory fails: the slot is forgotten.
Forget(w) ==
    /\ wpc[w] = "rebuild"
    /\ wpc' = [wpc EXCEPT ![w] = "forgot"]
    /\ UNCHANGED <<startup, items, bvars, slots, batch, panics>>

\* Variant: the last but one closes.
CountDownEarly(w) ==
    /\ wpc[w] = "forgot"
    /\ live' = live - 1
    /\ wpc' = [wpc EXCEPT ![w] = IF live = 2 THEN "closing" ELSE "leaving"]
    /\ UNCHANGED <<startup, items, bvars, idle, idleClosed, chan, batch, panics>>

\* live.fetch_sub; the worker that was the last closes the semaphore.
CountDown(w) ==
    /\ wpc[w] = "forgot"
    /\ live' = live - 1
    /\ wpc' = [wpc EXCEPT ![w] = IF live = 1 THEN "closing" ELSE "leaving"]
    /\ UNCHANGED <<startup, items, bvars, idle, idleClosed, chan, batch, panics>>

\* Variant: the semaphore stays open.
LeaveOpen(w) ==
    /\ wpc[w] = "closing"
    /\ wpc' = [wpc EXCEPT ![w] = "leaving"]
    /\ UNCHANGED <<startup, items, bvars, slots, batch, panics>>

CloseIdle(w) ==
    /\ wpc[w] = "closing"
    /\ idleClosed' = TRUE
    /\ wpc' = [wpc EXCEPT ![w] = "leaving"]
    /\ UNCHANGED <<startup, items, bvars, idle, chan, live, batch, panics>>

\* The factory panics: unwinding gives the slot back, and nothing else.
Unwind(w) ==
    /\ FactoryMayPanic
    /\ wpc[w] = "rebuild"
    /\ idle' = idle + 1
    /\ wpc' = [wpc EXCEPT ![w] = "unwinding"]
    /\ UNCHANGED <<startup, items, bvars, idleClosed, chan, live, batch, panics>>

\* The thread ends.  The last to go takes the channel with it: the batches in
\* it are dropped and their slots given back.
Exit(w) ==
    /\ \/ wpc[w] = "leaving" /\ wpc' = [wpc EXCEPT ![w] = "retired"]
       \/ wpc[w] = "unwinding" /\ wpc' = [wpc EXCEPT ![w] = "crashed"]
    /\ IF Threads = {w}
       THEN /\ chan' = <<>>
            /\ idle' = idle + Len(chan)
            /\ End(FlattenSeq(chan), "dropped")
       ELSE UNCHANGED <<chan, idle, fate>>
    /\ UNCHANGED <<startup, arrived, waiters, bvars, idleClosed, live, batch, panics>>

-----------------------------------------------------------------------------
Batcher == Acquire \/ Stop \/ Receive \/ Sweep \/ Dispatch

Worker(w) ==
    \/ Build(w) \/ DropReady(w) \/ Quit(w)
    \/ Take(w) \/ Run(w) \/ GiveBack(w)
    \/ Forget(w) \/ CountDown(w) \/ CloseIdle(w) \/ Unwind(w) \/ Exit(w)

Next ==
    \/ Hear
    \/ Arrive
    \/ \E i \in Items : Expire(i) \/ Extend(i) \/ Abandon(i)
    \/ Batcher
    \/ \E w \in Workers : Worker(w)

Spec == Init /\ [][Next]_vars

\* The batcher task is polled, the threads run, backend.run and the factory
\* return.  Nothing makes an item arrive or its subscribers leave.
Fairness == WF_vars(Hear) /\ WF_vars(Batcher) /\ \A w \in Workers : WF_vars(Worker(w))

FairSpec == Spec /\ Fairness

-----------------------------------------------------------------------------
(* Correctness.                                                            *)

Gone == {w \in Workers : wpc[w] \in {"closing", "leaving", "retired"}}

TypeOK ==
    /\ start \in {"waiting", "up", "failed"}
    /\ reports \in Seq({"ok", "error"}) /\ heard \in 0 .. Cardinality(Workers)
    /\ senders \subseteq Workers
    /\ arrived \in 0 .. MaxItems
    /\ waiters \in [Items -> {"live", "expired", "abandoned"}]
    /\ fate \in [Items -> {"open", "refused", "skipped", "answered", "failed", "dropped"}]
    /\ rx \in Seq(Items) /\ buf \in Seq(Items)
    /\ rxOpen \in BOOLEAN
    /\ bpc \in {"unborn", "acquire", "recv", "collect", "swept", "stopped"}
    /\ idle \in Nat /\ idleClosed \in BOOLEAN
    /\ chan \in Seq(Seq(Items)) /\ live \in Nat
    /\ wpc \in [Workers -> {"build", "built", "failed", "quit", "recv", "run", "done", "rebuild",
                            "forgot", "closing", "leaving", "unwinding", "retired", "crashed"}]
    /\ batch \in [Workers -> Seq(Items)]
    /\ panics \in 0 .. MaxPanics

UpMeansBuilt == start = "up" => \A w \in Workers : wpc[w] \notin {"build", "failed", "quit"}

SlotsExact ==
    idle + (IF BatcherHolds THEN 1 ELSE 0) + Len(chan) + Cardinality(Holding)
        = Cardinality(Workers \ (Gone \cup {w \in Workers : wpc[w] = "forgot"}))

LiveExact == live = Cardinality(Workers \ Gone)

ChannelHasRoom == bpc = "swept" => Len(chan) < Cardinality(Workers)

\* Every variable has its type, and through failures, retirements and crashes:
\* a request can only be admitted when every worker has had a backend; no slot
\* is lost or made (idle, in the batcher's hand, with a batch in the channel or
\* held by a worker there is one for each worker that has not forgotten its
\* own); the live counter is the workers that have not counted themselves out;
\* and "never blocks": a batch about to be sent has room in the channel.
PoolSound == TypeOK /\ UpMeansBuilt /\ SlotsExact /\ LiveExact /\ ChannelHasRoom

\* /readyz: while the live counter is positive some worker thread is serving.
ReadyMeansWorker == live > 0 => \E w \in Workers : wpc[w] \notin {"unwinding", "crashed", "retired"}

\* An item is dropped unanswered only when no worker is left to run it.
DroppedOnlyWithoutWorkers ==
    (\E i \in Items : fate[i] = "dropped") =>
        \A w \in Workers : wpc[w] \in {"closing", "leaving", "retired", "crashed"}

\* An item that still waits is never overtaken by a later one of its length.
NotOvertaken ==
    \A i, j \in 1 .. arrived :
        /\ i < j /\ ItemLens[i] = ItemLens[j]
        /\ i \in ToSet(rx) \cup ToSet(buf)
        => j \in ToSet(rx) \cup ToSet(buf) \/ fate[j] \in {"skipped", "dropped"}

\* start never waits for ever, whichever threads fail or panic, and a start that
\* fails leaves no thread behind.
StartEnds ==
    <>(start = "up" \/ (start = "failed" /\ Threads = {}))

\* Every item that arrives ends: answered, failed, or dropped for a reason,
\* whatever the workers do.
ItemsEnd == \A i \in Items : i <= arrived ~> fate[i] # "open"

\* When the last worker has retired the batcher stops.
BatcherStops == (\A w \in Workers : wpc[w] = "retired") ~> bpc = "stopped"
=============================================================================
