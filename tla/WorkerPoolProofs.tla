-------------------------- MODULE WorkerPoolProofs --------------------------
(***************************************************************************)
(* What the runs check of a model's threads, proved for any number of      *)
(* workers, items and panics, any lengths and any caps: the slots and the  *)
(* counters add up, a dropped item means that no worker was left, and no   *)
(* item overtakes an older one of its length.                              *)
(***************************************************************************)
EXTENDS WorkerPool, FoldLemmas

Labels == {"build", "built", "failed", "quit", "recv", "run", "done", "rebuild",
           "forgot", "closing", "leaving", "unwinding", "retired", "crashed"}

\* Before the start succeeds there is no batcher, no item and no batch, and the
\* workers are building, waiting or gone.
NotUp == start # "up" =>
    /\ bpc = "unborn" /\ arrived = 0
    /\ rx = <<>> /\ buf = <<>> /\ chan = <<>>
    /\ \A w \in Workers : wpc[w] \in {"build", "built", "failed", "quit", "recv"}

\* Nobody quits while the start still waits.
NoneQuits == start = "waiting" => \A w \in Workers : wpc[w] # "quit"

\* A batcher that is about to pick has something to pick from, and it exists
\* once the start has succeeded.
HasItems == (bpc = "swept" => buf # <<>>) /\ (start = "up" => bpc # "unborn")

\* The messages, numbered as they are received, that say "ok": every one of them
\* comes from a worker that has built.
Oks == {k \in 1 .. (heard + Len(reports)) : k <= heard \/ reports[k - heard] = "ok"}
Built == {w \in Workers : wpc[w] \notin {"build", "failed"}}
HeardFromBuilt == Cardinality(Oks) <= Cardinality(Built)

StartInv == NotUp /\ NoneQuits /\ HasItems /\ HeardFromBuilt /\ UpMeansBuilt

-----------------------------------------------------------------------------
(* Sets of workers.                                                        *)

\* The workers whose slot is in use or free, and those not counted out.
Keeping == Workers \ (Gone \cup {w \in Workers : wpc[w] = "forgot"})
Counted == Workers \ Gone

\* Every set of workers is finite.
LEMMA WorkersFinite ==
    ASSUME NEW S \in SUBSET Workers
    PROVE  /\ IsFiniteSet(S) /\ Cardinality(S) \in Nat /\ Cardinality(S) <= Cardinality(Workers)
           /\ \A w \in Workers : /\ Cardinality(S \cup {w}) = IF w \in S THEN Cardinality(S) ELSE Cardinality(S) + 1
                                 /\ Cardinality(S \ {w}) = IF w \in S THEN Cardinality(S) - 1 ELSE Cardinality(S)
<1>1. IsFiniteSet(Workers)
  BY PoolAssumption
<1>2. IsFiniteSet(S) /\ Cardinality(S) <= Cardinality(Workers)
  BY <1>1, FS_Subset
<1>3. Cardinality(S) \in Nat
  BY <1>2, FS_CardinalityType
<1> QED
  BY <1>2, <1>3, FS_AddElement, FS_RemoveElement

\* What a worker's step does to the sets of workers.
LEMMA WorkerMoves ==
    ASSUME TypeOK, NEW w \in Workers, NEW to, wpc' = [wpc EXCEPT ![w] = to]
    PROVE  /\ Holding' = IF to \in {"run", "done", "rebuild"} THEN Holding \cup {w} ELSE Holding \ {w}
           /\ Keeping' = IF to \in {"closing", "leaving", "retired", "forgot"}
                         THEN Keeping \ {w} ELSE Keeping \cup {w}
           /\ Counted' = IF to \in {"closing", "leaving", "retired"} THEN Counted \ {w} ELSE Counted \cup {w}
           /\ Built' = IF to \in {"build", "failed"} THEN Built \ {w} ELSE Built \cup {w}
           /\ \A v \in Workers : v # w => wpc'[v] = wpc[v]
           /\ wpc'[w] = to
<1>1. wpc'[w] = to /\ \A v \in Workers : v # w => wpc'[v] = wpc[v]
  BY DEF TypeOK
<1>2. Holding' = IF to \in {"run", "done", "rebuild"} THEN Holding \cup {w} ELSE Holding \ {w}
  BY <1>1 DEF Holding
<1>3. Keeping' = IF to \in {"closing", "leaving", "retired", "forgot"} THEN Keeping \ {w} ELSE Keeping \cup {w}
  BY <1>1 DEF Keeping, Gone
<1>4. Counted' = IF to \in {"closing", "leaving", "retired"} THEN Counted \ {w} ELSE Counted \cup {w}
  BY <1>1 DEF Counted, Gone
<1>5. Built' = IF to \in {"build", "failed"} THEN Built \ {w} ELSE Built \cup {w}
  BY <1>1 DEF Built
<1> QED
  BY <1>1, <1>2, <1>3, <1>4, <1>5

-----------------------------------------------------------------------------
(* Types.                                                                  *)

PoolInv == TypeOK /\ StartInv /\ SlotsExact /\ LiveExact

Fates == {"open", "refused", "skipped", "answered", "failed", "dropped"}

\* However items end, each has a fate.
LEMMA EndType ==
    ASSUME TypeOK, NEW s, NEW how \in Fates, End(s, how)
    PROVE  fate' \in [Items -> Fates]
BY DEF End, TypeOK, Fates

\* The batcher's return leaves it with typed, empty queues.
LEMMA ReturnType ==
    ASSUME Return
    PROVE  /\ rx' \in Seq(Items) /\ buf' \in Seq(Items) /\ rxOpen' \in BOOLEAN
           /\ bpc' \in {"unborn", "acquire", "recv", "collect", "swept", "stopped"}
<1>1. rxOpen' \in BOOLEAN
  BY Zenon DEF Return
<1>2. rx' = <<>> /\ buf' = <<>> /\ bpc' = "stopped"
  BY DEF Return
<1> QED
  BY <1>1, <1>2

\* A worker's label stays one of the labels.
LEMMA GotoType ==
    ASSUME TypeOK, NEW w \in Workers, NEW to \in Labels, wpc' = [wpc EXCEPT ![w] = to]
    PROVE  wpc' \in [Workers -> Labels]
BY DEF TypeOK, Labels

\* Only start's steps and the workers' can change the labels and counters; the
\* variables of the items and of the batcher keep their types.
LEMMA BatcherType ==
    ASSUME TypeOK, StartInv, SlotsExact, Batcher
    PROVE  TypeOK'
<1> USE DEF startup, items, slots, workers
<1>1. CASE Acquire
  BY <1>1 DEF Acquire, TypeOK
<1>2. CASE Stop
  <2>1. fate' \in [Items -> Fates]
    BY <1>2, EndType DEF Stop, Fates
  <2>2. Return
    BY <1>2 DEF Stop
  <2> QED
    BY <1>2, <2>1, <2>2, ReturnType DEF Stop, TypeOK, Fates
<1>3. CASE Receive
  BY <1>3 DEF Receive, TypeOK
<1>4. CASE Sweep
  <2>1. fate' \in [Items -> Fates]
    BY <1>4, EndType DEF Sweep, Fates
  <2>2. buf \o rx \in Seq(Items)
    BY DEF TypeOK
  <2>3. buf' \in Seq(Items)
    BY <1>4, <2>2, KeepSet DEF Sweep
  <2> QED
    BY <1>4, <2>1, <2>3 DEF Sweep, TypeOK, Fates
<1>5. CASE Dispatch
  <2> DEFINE picked == PickBatch(Head(buf), Tail(buf), ItemLens, MaxBatch, MaxTokens)
  <2>1. Head(buf) \in Items /\ Tail(buf) \in Seq(Items)
    BY <1>5 DEF Dispatch, TypeOK, StartInv, HasItems
  <2>2. MaxBatch \in Nat /\ MaxTokens \in Nat /\ \A x \in Items : ItemLens[x] \in Nat
    BY PoolAssumption
  <2> HIDE DEF picked
  <2>3. picked.batch \in Seq(Items) /\ picked.rest \in Seq(Items)
    <3>1. PICK lens, q, r : Picks(Head(buf), Tail(buf), ItemLens, MaxBatch, MaxTokens, lens, q, r, picked)
      BY DEF Picks, picked
    <3> QED
      BY <2>1, <2>2, <3>1, PickShape DEF Shape
  <2>4. CASE Threads # {} /\ UNCHANGED fate
    <3>1. chan' = Append(chan, picked.batch) /\ buf' = picked.rest /\ bpc' = "acquire"
          /\ UNCHANGED <<rx, rxOpen, idle>>
      BY <1>5, <2>4 DEF Dispatch, picked
    <3> QED
      BY <1>5, <2>3, <2>4, <3>1 DEF Dispatch, TypeOK
  <2>5. CASE Threads = {}
    <3>1. Return /\ idle' = idle + 1 /\ End(rx \o buf, "dropped") /\ UNCHANGED chan
      BY <1>5, <2>5 DEF Dispatch
    <3>2. fate' \in [Items -> Fates]
      BY <3>1, EndType DEF Fates
    <3> QED
      BY <1>5, <3>1, <3>2, ReturnType DEF Dispatch, TypeOK, Fates
  <2> QED
    BY <1>5, <2>4, <2>5 DEF Dispatch
<1> QED
  BY <1>1, <1>2, <1>3, <1>4, <1>5 DEF Batcher

\* A worker's label and counters.
LEMMA WorkerType ==
    ASSUME TypeOK, LiveExact, NEW w \in Workers, Worker(w)
    PROVE  TypeOK'
<1> USE DEF startup, items, bvars, slots
<1>1. CASE Build(w)
  <2>1. wpc' \in [Workers -> Labels]
    BY <1>1, GotoType DEF Build, Labels
  <2>2. /\ reports' \in {reports, Append(reports, "ok"), Append(reports, "error")}
        /\ senders' \in {senders, senders \ {w}}
    BY <1>1 DEF Build
  <2>3. reports \in Seq({"ok", "error"}) /\ senders \subseteq Workers
    BY DEF TypeOK
  <2>4. reports' \in Seq({"ok", "error"}) /\ senders' \subseteq Workers
    BY <2>2, <2>3, SMTT(30)
  <2> QED
    BY <1>1, <2>1, <2>4 DEF Build, TypeOK, Labels
<1>2. CASE DropReady(w) \/ Quit(w)
  BY <1>2 DEF DropReady, Quit, TypeOK
<1>3. CASE Take(w)
  <2>1. Head(chan) \in Seq(Items) /\ Tail(chan) \in Seq(Seq(Items))
    BY <1>3 DEF Take, TypeOK
  <2> QED
    BY <1>3, <2>1 DEF Take, TypeOK
<1>4. CASE Run(w)
  <2>1. fate' \in [Items -> Fates]
    BY <1>4, EndType DEF Run, Fates
  <2>2. panics' \in 0 .. MaxPanics
    BY <1>4, PoolAssumption DEF Run, TypeOK
  <2>3. wpc' \in [Workers -> Labels]
    BY <1>4, GotoType DEF Run, Labels
  <2>4. batch' \in [Workers -> Seq(Items)]
    BY <1>4 DEF Run, TypeOK
  <2> QED
    BY <1>4, <2>1, <2>2, <2>3, <2>4 DEF Run, TypeOK, Fates, Labels
<1>5. CASE GiveBack(w) \/ Forget(w) \/ CloseIdle(w) \/ Unwind(w)
  <2>1. wpc' \in [Workers -> Labels]
    BY <1>5, GotoType DEF GiveBack, Forget, CloseIdle, Unwind, Labels
  <2>2. idle' \in {idle, idle + 1} /\ idle \in Nat
    BY <1>5 DEF GiveBack, Forget, CloseIdle, Unwind, TypeOK
  <2>3. idleClosed' \in BOOLEAN
    BY <1>5, Zenon DEF GiveBack, Forget, CloseIdle, Unwind, TypeOK
  <2> QED
    BY <1>5, <2>1, <2>2, <2>3 DEF GiveBack, Forget, CloseIdle, Unwind, TypeOK, Labels
<1>6. CASE CountDown(w)
  <2>1. w \in Counted
    BY <1>6 DEF CountDown, Counted, Gone
  <2>2. Cardinality(Counted) \in Nat /\ Cardinality(Counted \ {w}) \in Nat
        /\ Cardinality(Counted \ {w}) = Cardinality(Counted) - 1
    <3>1. Counted \in SUBSET Workers /\ Counted \ {w} \in SUBSET Workers
      BY DEF Counted
    <3> QED
      BY <2>1, <3>1, WorkersFinite
  <2>3. live' \in Nat
    BY <1>6, <2>2 DEF CountDown, LiveExact, Counted
  <2> QED
    BY <1>6, <2>3 DEF CountDown, TypeOK
<1>7. CASE Exit(w)
  <2>1. fate' \in [Items -> Fates]
    BY <1>7, EndType DEF Exit, TypeOK, Fates
  <2>2. chan' \in Seq(Seq(Items)) /\ idle' \in Nat
    <3>1. chan \in Seq(Seq(Items)) /\ idle \in Nat /\ Len(chan) \in Nat /\ <<>> \in Seq(Seq(Items))
      BY DEF TypeOK
    <3>2. chan' \in {chan, <<>>} /\ idle' \in {idle, idle + Len(chan)}
      BY <1>7 DEF Exit
    <3>3. idle' \in Nat
      BY <3>1, <3>2
    <3>4. chan' \in Seq(Seq(Items))
      BY <3>1, <3>2
    <3> QED
      BY <3>3, <3>4
  <2>3. wpc' \in [Workers -> Labels]
    BY <1>7, GotoType DEF Exit, Labels
  <2> QED
    BY <1>7, <2>1, <2>2, <2>3 DEF Exit, TypeOK, Fates, Labels
<1> QED
  BY <1>1, <1>2, <1>3, <1>4, <1>5, <1>6, <1>7 DEF Worker

\* The rest: items arrive and change, and start hears.
LEMMA OtherType ==
    ASSUME TypeOK, StartInv,
           Hear \/ Arrive \/ \E i \in Items : Expire(i) \/ Extend(i) \/ Abandon(i)
    PROVE  TypeOK'
<1> USE DEF startup, items, bvars, slots, workers
<1>1. CASE Hear
  <2>1. CASE heard' = heard + 1
    <3>1. reports # <<>> /\ Head(reports) = "ok"
      BY <1>1, <2>1 DEF Hear, TypeOK
    <3>2. reports' = Tail(reports) /\ reports[1] = "ok" /\ Len(reports) \in Nat \ {0}
          /\ reports' \in Seq({"ok", "error"})
      <4>1. reports \in Seq({"ok", "error"}) /\ reports' = Tail(reports)
        BY <1>1, <2>1 DEF Hear, TypeOK
      <4> QED
        BY <3>1, <4>1
    <3>3. 1 .. (heard + 1) \subseteq Oks
      BY <3>2 DEF Oks, TypeOK
    <3>4. Cardinality(1 .. (heard + 1)) = heard + 1
      <4>1. heard + 1 \in Nat
        BY DEF TypeOK
      <4> QED
        BY <4>1, FS_Interval
    <3>5. IsFiniteSet(Oks)
      <4>1. heard + Len(reports) \in Nat
        BY DEF TypeOK
      <4>2. IsFiniteSet(1 .. (heard + Len(reports)))
        BY <4>1, FS_Interval
      <4> QED
        BY <4>2, FS_Subset DEF Oks
    <3>6. heard + 1 <= Cardinality(Oks) /\ Cardinality(Oks) \in Nat
      BY <3>3, <3>4, <3>5, FS_Subset, FS_CardinalityType
    <3>7. Cardinality(Built) \in Nat /\ Cardinality(Built) <= Cardinality(Workers)
          /\ Cardinality(Workers) \in Nat
      BY WorkersFinite DEF Built
    <3>8. heard' \in 0 .. Cardinality(Workers)
      BY <2>1, <3>6, <3>7 DEF StartInv, HeardFromBuilt, TypeOK
    <3> QED
      BY <1>1, <3>2, <3>8 DEF Hear, TypeOK
  <2>2. CASE UNCHANGED <<heard, reports, bpc>>
    BY <1>1, <2>2 DEF Hear, TypeOK
  <2> QED
    BY <1>1, <2>1, <2>2 DEF Hear
<1>2. CASE Arrive
  <2>1. arrived + 1 \in Items /\ arrived' \in 0 .. MaxItems
    BY <1>2, PoolAssumption DEF Arrive, TypeOK, Items
  <2>2. fate' \in [Items -> Fates]
    BY <1>2, EndType DEF Arrive, TypeOK, Fates
  <2>3. rx' \in Seq(Items)
    <3>1. rx' \in {rx, Append(rx, arrived + 1)} /\ rx \in Seq(Items)
      BY <1>2, Zenon DEF Arrive, TypeOK
    <3> QED
      BY <2>1, <3>1
  <2> QED
    BY <1>2, <2>1, <2>2, <2>3 DEF Arrive, TypeOK, Fates
<1>3. CASE \E i \in Items : Expire(i) \/ Extend(i) \/ Abandon(i)
  BY <1>3 DEF Expire, Extend, Abandon, Waiters, TypeOK
<1> QED
  BY <1>1, <1>2, <1>3

-----------------------------------------------------------------------------
(* The start.                                                              *)

\* Hear, of an "ok": the messages keep their numbers, and the last of them says
\* that every worker has built.
LEMMA HearOk ==
    ASSUME TypeOK, StartInv, Hear, heard' = heard + 1
    PROVE  /\ Oks' = Oks
           /\ heard' = Cardinality(Workers) => \A w \in Workers : wpc[w] \notin {"build", "failed"}
<1>1. reports # <<>> /\ Head(reports) = "ok" /\ reports' = Tail(reports)
  BY DEF Hear, TypeOK
<1>2. /\ Len(reports) \in Nat \ {0} /\ reports[1] = "ok" /\ heard \in Nat
      /\ Len(reports') = Len(reports) - 1
      /\ \A i \in 1 .. (Len(reports) - 1) : reports'[i] = reports[i + 1]
  <2>1. reports \in Seq({"ok", "error"}) /\ heard \in Nat
    BY DEF TypeOK
  <2> QED
    BY <1>1, <2>1
<1>3. heard' + Len(reports') = heard + Len(reports)
  BY <1>2
<1>4. ASSUME NEW k \in 1 .. (heard + Len(reports))
      PROVE  (k <= heard \/ reports[k - heard] = "ok") <=> (k <= heard' \/ reports'[k - heard'] = "ok")
  <2>1. CASE k <= heard
    BY <1>2, <2>1
  <2>2. CASE k = heard + 1
    BY <1>2, <2>2
  <2>3. CASE k > heard + 1
    <3>1. k - heard' \in 1 .. (Len(reports) - 1) /\ (k - heard') + 1 = k - heard
          /\ ~(k <= heard) /\ ~(k <= heard')
      BY <1>2, <2>3
    <3> QED
      BY <1>2, <3>1
  <2> QED
    BY <1>2, <2>1, <2>2, <2>3
<1>5. Oks' = Oks
  BY <1>3, <1>4 DEF Oks
<1>6. ASSUME heard' = Cardinality(Workers)
      PROVE  \A w \in Workers : wpc[w] \notin {"build", "failed"}
  <2>1. 1 .. heard' \subseteq Oks /\ heard' \in Nat /\ heard + Len(reports) \in Nat
    BY <1>2 DEF Oks
  <2>2. IsFiniteSet(Oks) /\ IsFiniteSet(1 .. heard') /\ Cardinality(1 .. heard') = heard'
    <3>1. IsFiniteSet(1 .. (heard + Len(reports)))
      BY <2>1, FS_Interval
    <3>2. IsFiniteSet(Oks)
      BY <3>1, FS_Subset DEF Oks
    <3>3. Cardinality(1 .. heard') = heard' /\ IsFiniteSet(1 .. heard')
      BY <2>1, FS_Interval
    <3> QED
      BY <3>2, <3>3
  <2>3. heard' <= Cardinality(Oks) /\ Cardinality(Oks) \in Nat
    BY <2>1, <2>2, FS_Subset, FS_CardinalityType
  <2>4. /\ Built \in SUBSET Workers /\ IsFiniteSet(Workers)
        /\ Cardinality(Built) \in Nat /\ Cardinality(Built) <= Cardinality(Workers)
    BY WorkersFinite, PoolAssumption DEF Built
  <2>5. Cardinality(Built) = Cardinality(Workers)
    BY <1>6, <2>1, <2>3, <2>4 DEF StartInv, HeardFromBuilt
  <2>6. Built = Workers
    BY <2>4, <2>5, FS_Subset
  <2> QED
    BY <2>6 DEF Built
<1> QED
  BY <1>5, <1>6

\* The steps of a worker leave the start's invariants.
LEMMA WorkerStart ==
    ASSUME TypeOK, StartInv, NEW w \in Workers, Worker(w)
    PROVE  StartInv'
<1> USE DEF startup, items, bvars, slots
<1>1. CASE Build(w)
  <2>1. PICK to \in {"built", "failed"} :
          /\ wpc' = [wpc EXCEPT ![w] = to]
          /\ \/ to = "built" /\ reports' = Append(reports, "ok")
             \/ to = "failed" /\ reports' \in {reports, Append(reports, "error")}
    BY <1>1 DEF Build
  <2>2. /\ wpc[w] = "build" /\ start # "up"
        /\ UNCHANGED <<start, heard, arrived, bpc, rx, buf, chan>>
    BY <1>1 DEF Build, StartInv, UpMeansBuilt
  <2>3. wpc'[w] = to /\ \A v \in Workers : v # w => wpc'[v] = wpc[v]
    BY <2>1, WorkerMoves
  <2>4. NotUp' /\ NoneQuits' /\ HasItems' /\ UpMeansBuilt'
    BY <2>2, <2>3 DEF StartInv, NotUp, NoneQuits, HasItems, UpMeansBuilt
  <2>5. HeardFromBuilt'
    <3> DEFINE top == heard + Len(reports)
    <3>1. /\ heard \in Nat /\ Len(reports) \in Nat /\ top \in Nat /\ IsFiniteSet(Oks)
          /\ \A k \in Oks : k \in 1 .. top
      <4>1. heard \in Nat /\ Len(reports) \in Nat /\ top \in Nat
        BY DEF TypeOK
      <4>2. IsFiniteSet(1 .. top)
        BY <4>1, FS_Interval
      <4> QED
        BY <4>1, <4>2, FS_Subset DEF Oks
    <3>2. w \notin Built /\ Built \in SUBSET Workers
      BY <2>2 DEF Built
    <3>3. Cardinality(Oks) \in Nat /\ Cardinality(Built) \in Nat
      BY <3>1, <3>2, FS_CardinalityType, WorkersFinite
    <3>4. CASE to = "built" /\ reports' = Append(reports, "ok")
      <4>1. /\ Len(reports') = Len(reports) + 1 /\ reports'[Len(reports) + 1] = "ok"
            /\ \A i \in 1 .. Len(reports) : reports'[i] = reports[i]
        <5>1. reports \in Seq({"ok", "error"})
          BY DEF TypeOK
        <5> QED
          BY <3>4, <5>1
      <4>2. heard' + Len(reports') = top + 1
        BY <2>2, <3>1, <4>1
      <4>3. ASSUME NEW k \in 1 .. (top + 1)
            PROVE  (k <= heard' \/ reports'[k - heard'] = "ok") <=> (k \in Oks \/ k = top + 1)
        <5>1. CASE k = top + 1
          BY <2>2, <3>1, <4>1, <5>1
        <5>2. CASE k # top + 1
          <6>1. k \in 1 .. top /\ (k <= heard \/ k - heard \in 1 .. Len(reports))
            BY <3>1, <5>2
          <6> QED
            BY <2>2, <4>1, <5>2, <6>1 DEF Oks
        <5> QED
          BY <5>1, <5>2
      <4>4. Oks' = Oks \cup {top + 1} /\ top + 1 \notin Oks
        <5>1. Oks' = {k \in 1 .. (top + 1) : k <= heard' \/ reports'[k - heard'] = "ok"}
          BY <4>2 DEF Oks
        <5>2. top + 1 \notin Oks /\ Oks \subseteq 1 .. (top + 1) /\ top + 1 \in 1 .. (top + 1)
          BY <3>1
        <5> HIDE DEF top
        <5> QED
          BY <4>3, <5>1, <5>2
      <4>5. Cardinality(Oks') = Cardinality(Oks) + 1
        BY <3>1, <4>4, FS_AddElement
      <4>6. Built' = Built \cup {w}
        BY <2>1, <3>4, WorkerMoves
      <4>7. Cardinality(Built') = Cardinality(Built) + 1
        BY <3>2, <4>6, WorkersFinite
      <4> QED
        BY <3>3, <4>5, <4>7 DEF StartInv, HeardFromBuilt
    <3>5. CASE to = "failed" /\ reports' \in {reports, Append(reports, "error")}
      <4>1. /\ \A i \in 1 .. Len(reports) : reports'[i] = reports[i]
            /\ \/ Len(reports') = Len(reports)
               \/ Len(reports') = Len(reports) + 1 /\ reports'[Len(reports) + 1] = "error"
        <5>1. reports \in Seq({"ok", "error"})
          BY DEF TypeOK
        <5> QED
          BY <3>5, <5>1
      <4>2. ASSUME NEW k \in 1 .. (heard' + Len(reports')), k <= heard' \/ reports'[k - heard'] = "ok"
            PROVE  k \in Oks
        <5>1. k \in 1 .. top
          BY <2>2, <3>1, <4>1, <4>2
        <5>2. k <= heard \/ k - heard \in 1 .. Len(reports)
          BY <3>1, <5>1
        <5> QED
          BY <2>2, <4>1, <4>2, <5>1, <5>2 DEF Oks
      <4>3. ASSUME NEW k \in Oks PROVE k \in Oks'
        <5>1. k \in 1 .. top /\ (k <= heard \/ reports[k - heard] = "ok")
          BY DEF Oks
        <5>2. k <= heard \/ k - heard \in 1 .. Len(reports)
          BY <3>1, <5>1
        <5>3. k \in 1 .. (heard' + Len(reports'))
          BY <2>2, <3>1, <4>1, <5>1
        <5> QED
          BY <2>2, <4>1, <5>1, <5>2, <5>3 DEF Oks
      <4>4. Oks' = Oks
        BY <4>2, <4>3 DEF Oks
      <4>5. Built' = Built
        <5>1. Built' = Built \ {w}
          BY <2>1, <3>5, WorkerMoves
        <5> QED
          BY <3>2, <5>1
      <4> QED
        BY <4>4, <4>5 DEF StartInv, HeardFromBuilt
    <3> QED
      BY <2>1, <3>4, <3>5
  <2> QED
    BY <2>4, <2>5 DEF StartInv
<1>2. CASE ~ Build(w)
  <2>1. PICK to \in Labels \ {"build", "failed"} :
          /\ wpc' = [wpc EXCEPT ![w] = to]
          /\ start = "up" \/ to \in {"recv", "quit"}
          /\ to = "quit" => start = "failed"
    <3>1. wpc[w] \notin {"build", "built", "failed", "quit", "recv"} => start = "up"
      BY DEF StartInv, NotUp
    <3>2. chan # <<>> => start = "up"
      BY DEF StartInv, NotUp
    <3>3. CASE DropReady(w) \/ Quit(w)
      BY <3>3 DEF DropReady, Quit, Labels
    <3>4. CASE Take(w)
      <4>1. chan # <<>> /\ wpc' = [wpc EXCEPT ![w] = "run"]
        BY <3>4 DEF Take
      <4>2. "run" \in Labels \ {"build", "failed"}
        BY DEF Labels
      <4> WITNESS "run" \in Labels \ {"build", "failed"}
      <4> QED
        BY <3>2, <4>1
    <3>5. CASE Run(w)
      BY <3>1, <3>5 DEF Run, Labels
    <3>6. CASE GiveBack(w) \/ Forget(w) \/ CloseIdle(w) \/ Unwind(w)
      BY <3>1, <3>6 DEF GiveBack, Forget, CloseIdle, Unwind, Labels
    <3>7. CASE CountDown(w)
      <4>1. wpc[w] = "forgot" /\ wpc' = [wpc EXCEPT ![w] = IF live = 1 THEN "closing" ELSE "leaving"]
        BY <3>7 DEF CountDown
      <4>2. start = "up"
        BY <3>1, <4>1
      <4> DEFINE next == IF live = 1 THEN "closing" ELSE "leaving"
      <4>3. next \in Labels \ {"build", "failed"} /\ next # "quit"
        BY DEF Labels
      <4>4. wpc' = [wpc EXCEPT ![w] = next]
        BY <4>1
      <4> HIDE DEF next
      <4> QED
        BY <4>2, <4>3, <4>4, Zenon
    <3>8. CASE Exit(w)
      BY <3>1, <3>8 DEF Exit, Labels
    <3> QED
      BY <1>2, <3>3, <3>4, <3>5, <3>6, <3>7, <3>8 DEF Worker
  <2>2. /\ wpc[w] \notin {"build", "failed"} /\ UNCHANGED <<start, heard, reports, arrived, bpc, rx, buf>>
        /\ start # "up" => chan' = chan
    <3>1. start # "up" => wpc[w] \in {"build", "built", "failed", "quit", "recv"} /\ chan = <<>>
      BY DEF StartInv, NotUp
    <3>2. CASE DropReady(w) \/ Quit(w)
      BY <3>2 DEF DropReady, Quit
    <3>3. CASE Take(w)
      BY <3>1, <3>3 DEF Take
    <3>4. CASE Run(w)
      BY <3>4 DEF Run
    <3>5. CASE GiveBack(w) \/ Forget(w) \/ CloseIdle(w) \/ Unwind(w)
      BY <3>5 DEF GiveBack, Forget, CloseIdle, Unwind
    <3>6. CASE CountDown(w)
      BY <3>6 DEF CountDown
    <3>7. CASE Exit(w)
      BY <3>1, <3>7 DEF Exit
    <3> QED
      BY <1>2, <3>2, <3>3, <3>4, <3>5, <3>6, <3>7 DEF Worker
  <2>3. wpc'[w] = to /\ \A v \in Workers : v # w => wpc'[v] = wpc[v]
    BY <2>1, WorkerMoves
  <2>4. NotUp'
    BY <2>1, <2>2, <2>3 DEF StartInv, NotUp
  <2>5. NoneQuits' /\ HasItems'
    BY <2>1, <2>2, <2>3 DEF StartInv, NoneQuits, HasItems
  <2>6. UpMeansBuilt'
    BY <2>1, <2>2, <2>3 DEF StartInv, UpMeansBuilt
  <2>7. HeardFromBuilt'
    <3>1. Oks' = Oks
      BY <2>2 DEF Oks
    <3>2. Built' = Built
      <4>1. w \in Built
        BY <2>2 DEF Built
      <4>2. Built' = Built \cup {w}
        BY <2>1, WorkerMoves
      <4> QED
        BY <4>1, <4>2
    <3> QED
      BY <3>1, <3>2 DEF StartInv, HeardFromBuilt
  <2> QED
    BY <2>4, <2>5, <2>6, <2>7 DEF StartInv
<1> QED
  BY <1>1, <1>2

\* The other steps leave the start's invariants; start is up only when its last
\* worker has built.
LEMMA OtherStart ==
    ASSUME TypeOK, StartInv,
           \/ Hear \/ Arrive \/ Batcher
           \/ \E i \in Items : Expire(i) \/ Extend(i) \/ Abandon(i)
    PROVE  StartInv'
<1> USE DEF startup, items, slots, workers
<1>1. CASE Hear
  <2>1. /\ start = "waiting"
        /\ UNCHANGED <<arrived, rx, buf, chan, wpc>> /\ bpc = "unborn"
    BY <1>1 DEF Hear, StartInv, NotUp, bvars
  <2>2. Built' = Built
    BY <2>1 DEF Built
  <2>3. CASE heard' = heard + 1
    <3>1. /\ \/ start' = "up" /\ bpc' = "acquire" /\ heard' = Cardinality(Workers)
             \/ start' = "waiting" /\ bpc' = bpc
      BY <1>1, <2>1, <2>3 DEF Hear, TypeOK
    <3>2. HeardFromBuilt'
      BY <1>1, <2>2, <2>3, HearOk DEF StartInv, HeardFromBuilt
    <3>3. UpMeansBuilt'
      BY <1>1, <2>1, <2>3, <3>1, HearOk DEF StartInv, NoneQuits, UpMeansBuilt
    <3>4. NotUp' /\ NoneQuits' /\ HasItems'
      BY <2>1, <3>1 DEF StartInv, NotUp, NoneQuits, HasItems
    <3> QED
      BY <3>2, <3>3, <3>4 DEF StartInv
  <2>4. CASE start' = "failed" /\ UNCHANGED <<heard, reports, bpc>>
    <3>1. Oks' = Oks
      BY <2>4 DEF Oks
    <3>2. HeardFromBuilt'
      BY <2>2, <3>1 DEF StartInv, HeardFromBuilt
    <3>3. NotUp' /\ NoneQuits' /\ HasItems' /\ UpMeansBuilt'
      BY <2>1, <2>4 DEF StartInv, NotUp, NoneQuits, HasItems, UpMeansBuilt
    <3> QED
      BY <3>2, <3>3 DEF StartInv
  <2> QED
    BY <1>1, <2>3, <2>4 DEF Hear
<1>2. ASSUME UNCHANGED <<start, heard, reports, wpc>>, start = "up", bpc' # "unborn",
             bpc' = "swept" => buf' # <<>>
      PROVE  StartInv'
  <2>1. Oks' = Oks /\ Built' = Built
    BY <1>2 DEF Oks, Built
  <2>2. HeardFromBuilt'
    BY <2>1 DEF StartInv, HeardFromBuilt
  <2>3. NotUp' /\ NoneQuits' /\ HasItems' /\ UpMeansBuilt'
    BY <1>2 DEF StartInv, NotUp, NoneQuits, HasItems, UpMeansBuilt
  <2> QED
    BY <2>2, <2>3 DEF StartInv
<1>3. CASE Arrive
  BY <1>2, <1>3 DEF Arrive, StartInv, HasItems
<1>4. CASE Batcher
  <2>1. UNCHANGED <<start, heard, reports, wpc>>
    BY <1>4 DEF Batcher, Acquire, Stop, Receive, Sweep, Dispatch
  <2>2. start = "up"
    BY <1>4 DEF Batcher, Acquire, Stop, Receive, Sweep, Dispatch, StartInv, NotUp
  <2>3. bpc' # "unborn" /\ (bpc' = "swept" => buf' # <<>>)
    BY <1>4 DEF Batcher, Acquire, Stop, Receive, Sweep, Dispatch, Return
  <2> QED
    BY <1>2, <2>1, <2>2, <2>3
<1>5. CASE \E i \in Items : Expire(i) \/ Extend(i) \/ Abandon(i)
  <2>1. UNCHANGED <<start, heard, reports, wpc, arrived, rx, buf, bpc, chan>>
    BY <1>5 DEF Expire, Extend, Abandon, Waiters, bvars
  <2>2. Oks' = Oks /\ Built' = Built
    BY <2>1 DEF Oks, Built
  <2> QED
    BY <2>1, <2>2 DEF StartInv, NotUp, NoneQuits, HasItems, HeardFromBuilt, UpMeansBuilt
<1> QED
  BY <1>1, <1>3, <1>4, <1>5

-----------------------------------------------------------------------------
(* The slots and the live counter.                                         *)

InHand == IF BatcherHolds THEN 1 ELSE 0

\* The sum of the slots, with its parts named.
LEMMA SlotSum ==
    /\ SlotsExact <=> idle + InHand + Len(chan) + Cardinality(Holding) = Cardinality(Keeping)
    /\ SlotsExact' <=> idle' + InHand' + Len(chan') + Cardinality(Holding') = Cardinality(Keeping')
    /\ LiveExact <=> live = Cardinality(Counted)
    /\ LiveExact' <=> live' = Cardinality(Counted')
BY DEF SlotsExact, LiveExact, InHand, Keeping, Counted

\* The types of what the sums add up.
LEMMA SlotTypes ==
    ASSUME TypeOK
    PROVE  /\ idle \in Nat /\ InHand \in {0, 1} /\ Len(chan) \in Nat /\ live \in Nat
           /\ Holding \in SUBSET Workers /\ Cardinality(Holding) \in Nat
           /\ Keeping \in SUBSET Workers /\ Cardinality(Keeping) \in Nat
           /\ Counted \in SUBSET Workers /\ Cardinality(Counted) \in Nat
<1>1. idle \in Nat /\ InHand \in {0, 1} /\ Len(chan) \in Nat /\ live \in Nat
  BY DEF TypeOK, InHand
<1>2. Holding \in SUBSET Workers /\ Keeping \in SUBSET Workers /\ Counted \in SUBSET Workers
  BY DEF Holding, Keeping, Counted
<1> QED
  BY <1>1, <1>2, WorkersFinite

\* What a worker at label l has of the slots and of the count.
Holds(l)  == IF l \in {"run", "done", "rebuild"} THEN 1 ELSE 0
Keeps(l)  == IF l \in {"closing", "leaving", "retired", "forgot"} THEN 0 ELSE 1
Counts(l) == IF l \in {"closing", "leaving", "retired"} THEN 0 ELSE 1

\* What a worker's step must keep even between the labels l and m.
Even(l, m) ==
    /\ idle' \in Nat /\ Len(chan') \in Nat /\ live' \in Int /\ bpc' = bpc
    /\ idle' + Len(chan') + Holds(m) + Keeps(l) = idle + Len(chan) + Holds(l) + Keeps(m)
    /\ live' + Counts(l) = live + Counts(m)

\* A worker's step leaves the sums right if what it gives and takes is even.
LEMMA SlotMove ==
    ASSUME TypeOK, SlotsExact, LiveExact,
           NEW w \in Workers, NEW l, NEW to, wpc[w] = l, wpc' = [wpc EXCEPT ![w] = to], Even(l, to)
    PROVE  SlotsExact' /\ LiveExact'
<1> DEFINE H == Cardinality(Holding)
           K == Cardinality(Keeping)
           C == Cardinality(Counted)
<1>1. /\ idle \in Nat /\ InHand \in {0, 1} /\ Len(chan) \in Nat /\ live \in Nat
      /\ H \in Nat /\ K \in Nat /\ C \in Nat
      /\ idle + InHand + Len(chan) + H = K /\ live = C
  BY SlotSum, SlotTypes
<1>2. /\ Cardinality(Holding \cup {w}) = IF w \in Holding THEN H ELSE H + 1
      /\ Cardinality(Holding \ {w}) = IF w \in Holding THEN H - 1 ELSE H
      /\ Cardinality(Keeping \cup {w}) = IF w \in Keeping THEN K ELSE K + 1
      /\ Cardinality(Keeping \ {w}) = IF w \in Keeping THEN K - 1 ELSE K
      /\ Cardinality(Counted \cup {w}) = IF w \in Counted THEN C ELSE C + 1
      /\ Cardinality(Counted \ {w}) = IF w \in Counted THEN C - 1 ELSE C
  BY SlotTypes, WorkersFinite
<1>3. /\ w \in Holding <=> Holds(l) = 1
      /\ w \in Keeping <=> Keeps(l) = 1
      /\ w \in Counted <=> Counts(l) = 1
  BY DEF Holding, Keeping, Counted, Gone, Holds, Keeps, Counts
<1>4. /\ Holding' = IF Holds(to) = 1 THEN Holding \cup {w} ELSE Holding \ {w}
      /\ Keeping' = IF Keeps(to) = 1 THEN Keeping \cup {w} ELSE Keeping \ {w}
      /\ Counted' = IF Counts(to) = 1 THEN Counted \cup {w} ELSE Counted \ {w}
  <2>1. /\ Holding' = IF to \in {"run", "done", "rebuild"} THEN Holding \cup {w} ELSE Holding \ {w}
        /\ Keeping' = IF to \in {"closing", "leaving", "retired", "forgot"}
                      THEN Keeping \ {w} ELSE Keeping \cup {w}
        /\ Counted' = IF to \in {"closing", "leaving", "retired"} THEN Counted \ {w} ELSE Counted \cup {w}
    BY WorkerMoves
  <2> QED
    BY <2>1 DEF Holds, Keeps, Counts
<1>5. /\ Holds(l) \in {0, 1} /\ Keeps(l) \in {0, 1} /\ Counts(l) \in {0, 1}
      /\ Holds(to) \in {0, 1} /\ Keeps(to) \in {0, 1} /\ Counts(to) \in {0, 1}
  BY DEF Holds, Keeps, Counts
<1>6. /\ idle' \in Nat /\ Len(chan') \in Nat /\ live' \in Int
      /\ idle' + Len(chan') + Holds(to) + Keeps(l) = idle + Len(chan) + Holds(l) + Keeps(to)
      /\ live' + Counts(l) = live + Counts(to)
  BY DEF Even
<1> DEFINE hl == Holds(l)  ht == Holds(to)  kl == Keeps(l)  kt == Keeps(to)
           i1 == idle'  c1 == Len(chan')  c == Len(chan)
<1> HIDE DEF H, K, C
<1>7. Cardinality(Holding') = H + Holds(to) - Holds(l)
  BY <1>1, <1>2, <1>3, <1>4, <1>5
<1>8. Cardinality(Keeping') = K + Keeps(to) - Keeps(l)
  BY <1>1, <1>2, <1>3, <1>4, <1>5
<1>9. Cardinality(Counted') = C + Counts(to) - Counts(l)
  BY <1>1, <1>2, <1>3, <1>4, <1>5
<1>10. InHand' = InHand
  BY DEF InHand, BatcherHolds, Even
<1>11. idle' + InHand + Len(chan') + (H + Holds(to) - Holds(l)) = K + Keeps(to) - Keeps(l)
  <2>1. /\ idle \in Int /\ i1 \in Int /\ InHand \in Int /\ c \in Int /\ c1 \in Int
        /\ H \in Int /\ K \in Int /\ hl \in Int /\ ht \in Int /\ kl \in Int /\ kt \in Int
    BY <1>1, <1>5, <1>6
  <2>2. idle + InHand + c + H = K
    BY <1>1
  <2>3. i1 + c1 + ht + kl = idle + c + hl + kt
    BY <1>6
  <2> HIDE DEF hl, ht, kl, kt, i1, c1, c
  <2>4. i1 + InHand + c1 + (H + ht - hl) = K + kt - kl
    BY <2>1, <2>2, <2>3
  <2> QED
    BY <2>4 DEF hl, ht, kl, kt, i1, c1
<1>12. idle' + InHand' + Len(chan') + Cardinality(Holding') = Cardinality(Keeping')
  BY <1>7, <1>8, <1>10, <1>11
<1>13. live' = Cardinality(Counted')
  BY <1>1, <1>5, <1>6, <1>9
<1> QED
  BY <1>12, <1>13, SlotSum

\* A worker's step moves its slot, or gives back those of the batches that the
\* channel takes with it, and counts the worker out once.
LEMMA WorkerSlots ==
    ASSUME TypeOK, SlotsExact, LiveExact, NEW w \in Workers, Worker(w)
    PROVE  SlotsExact' /\ LiveExact'
<1> USE DEF startup, items, bvars, slots
<1>0. idle \in Nat /\ Len(chan) \in Nat /\ live \in Nat
  BY SlotTypes
<1>1. CASE Build(w)
  <2>1. PICK l \in {"build"}, to \in {"built", "failed"} : wpc[w] = l /\ wpc' = [wpc EXCEPT ![w] = to]
    BY <1>1 DEF Build
  <2>2. /\ Holds(l) = 0 /\ Keeps(l) = 1 /\ Counts(l) = 1
        /\ Holds(to) = 0 /\ Keeps(to) = 1 /\ Counts(to) = 1
    BY DEF Holds, Keeps, Counts
  <2>3. UNCHANGED <<bpc, idle, chan, live>>
    BY <1>1 DEF Build
  <2>4. Even(l, to)
    BY <1>0, <2>2, <2>3 DEF Even
  <2> QED
    BY <2>1, <2>4, SlotMove
<1>2. CASE DropReady(w) \/ Quit(w)
  <2>1. PICK l \in {"built", "recv"}, to \in {"recv", "quit"} : wpc[w] = l /\ wpc' = [wpc EXCEPT ![w] = to]
    BY <1>2 DEF DropReady, Quit
  <2>2. /\ Holds(l) = 0 /\ Keeps(l) = 1 /\ Counts(l) = 1
        /\ Holds(to) = 0 /\ Keeps(to) = 1 /\ Counts(to) = 1
    BY DEF Holds, Keeps, Counts
  <2>3. UNCHANGED <<bpc, idle, chan, live>>
    BY <1>2 DEF DropReady, Quit
  <2>4. Even(l, to)
    BY <1>0, <2>2, <2>3 DEF Even
  <2> QED
    BY <2>1, <2>4, SlotMove
<1>3. CASE Take(w)
  <2>1. PICK l \in {"recv"}, to \in {"run"} : wpc[w] = l /\ wpc' = [wpc EXCEPT ![w] = to]
    BY <1>3 DEF Take
  <2>2. /\ Holds(l) = 0 /\ Keeps(l) = 1 /\ Counts(l) = 1
        /\ Holds(to) = 1 /\ Keeps(to) = 1 /\ Counts(to) = 1
    BY DEF Holds, Keeps, Counts
  <2>3. Len(chan') \in Nat /\ Len(chan') = Len(chan) - 1 /\ UNCHANGED <<bpc, idle, live>>
    <3>1. chan \in Seq(Seq(Items)) /\ chan # <<>> /\ chan' = Tail(chan) /\ UNCHANGED <<bpc, idle, live>>
      BY <1>3 DEF Take, TypeOK
    <3> QED
      BY <3>1
  <2>4. Even(l, to)
    BY <1>0, <2>2, <2>3 DEF Even
  <2> QED
    BY <2>1, <2>4, SlotMove
<1>4. CASE Run(w)
  <2>1. PICK l \in {"run"}, to \in {"done", "rebuild"} : wpc[w] = l /\ wpc' = [wpc EXCEPT ![w] = to]
    BY <1>4 DEF Run
  <2>2. /\ Holds(l) = 1 /\ Keeps(l) = 1 /\ Counts(l) = 1
        /\ Holds(to) = 1 /\ Keeps(to) = 1 /\ Counts(to) = 1
    BY DEF Holds, Keeps, Counts
  <2>3. UNCHANGED <<bpc, idle, chan, live>>
    BY <1>4 DEF Run
  <2>4. Even(l, to)
    BY <1>0, <2>2, <2>3 DEF Even
  <2> QED
    BY <2>1, <2>4, SlotMove
<1>5. CASE GiveBack(w) \/ Unwind(w)
  <2>1. PICK l \in {"done", "rebuild"}, to \in {"recv", "unwinding"} : wpc[w] = l /\ wpc' = [wpc EXCEPT ![w] = to]
    BY <1>5 DEF GiveBack, Unwind
  <2>2. /\ Holds(l) = 1 /\ Keeps(l) = 1 /\ Counts(l) = 1
        /\ Holds(to) = 0 /\ Keeps(to) = 1 /\ Counts(to) = 1
    BY DEF Holds, Keeps, Counts
  <2>3. idle' = idle + 1 /\ UNCHANGED <<bpc, chan, live>>
    BY <1>5 DEF GiveBack, Unwind
  <2>4. Even(l, to)
    BY <1>0, <2>2, <2>3 DEF Even
  <2> QED
    BY <2>1, <2>4, SlotMove
<1>6. CASE Forget(w)
  <2>1. PICK l \in {"rebuild"}, to \in {"forgot"} : wpc[w] = l /\ wpc' = [wpc EXCEPT ![w] = to]
    BY <1>6 DEF Forget
  <2>2. /\ Holds(l) = 1 /\ Keeps(l) = 1 /\ Counts(l) = 1
        /\ Holds(to) = 0 /\ Keeps(to) = 0 /\ Counts(to) = 1
    BY DEF Holds, Keeps, Counts
  <2>3. UNCHANGED <<bpc, idle, chan, live>>
    BY <1>6 DEF Forget
  <2>4. Even(l, to)
    BY <1>0, <2>2, <2>3 DEF Even
  <2> QED
    BY <2>1, <2>4, SlotMove
<1>7. CASE CountDown(w)
  <2>1. PICK l \in {"forgot"}, to \in {"closing", "leaving"} : wpc[w] = l /\ wpc' = [wpc EXCEPT ![w] = to]
    BY <1>7 DEF CountDown
  <2>2. /\ Holds(l) = 0 /\ Keeps(l) = 0 /\ Counts(l) = 1
        /\ Holds(to) = 0 /\ Keeps(to) = 0 /\ Counts(to) = 0
    BY DEF Holds, Keeps, Counts
  <2>3. live' = live - 1 /\ UNCHANGED <<bpc, idle, chan>>
    BY <1>7 DEF CountDown
  <2>4. Even(l, to)
    BY <1>0, <2>2, <2>3 DEF Even
  <2> QED
    BY <2>1, <2>4, SlotMove
<1>8. CASE CloseIdle(w)
  <2>1. PICK l \in {"closing"}, to \in {"leaving"} : wpc[w] = l /\ wpc' = [wpc EXCEPT ![w] = to]
    BY <1>8 DEF CloseIdle
  <2>2. /\ Holds(l) = 0 /\ Keeps(l) = 0 /\ Counts(l) = 0
        /\ Holds(to) = 0 /\ Keeps(to) = 0 /\ Counts(to) = 0
    BY DEF Holds, Keeps, Counts
  <2>3. UNCHANGED <<bpc, idle, chan, live>>
    BY <1>8 DEF CloseIdle
  <2>4. Even(l, to)
    BY <1>0, <2>2, <2>3 DEF Even
  <2> QED
    BY <2>1, <2>4, SlotMove
<1>9. CASE Exit(w)
  <2>1. PICK l \in {"leaving", "unwinding"}, to \in {"retired", "crashed"} :
            /\ wpc[w] = l /\ wpc' = [wpc EXCEPT ![w] = to]
            /\ l = "leaving" <=> to = "retired"
    BY <1>9 DEF Exit
  <2>2. /\ Holds(l) = 0 /\ Keeps(l) = Keeps(to) /\ Counts(l) = Counts(to) /\ Holds(to) = 0
        /\ Keeps(to) \in {0, 1} /\ Counts(to) \in {0, 1}
    BY <2>1 DEF Holds, Keeps, Counts
  <2>3. idle' + Len(chan') = idle + Len(chan) /\ idle' \in Nat /\ Len(chan') \in Nat
        /\ UNCHANGED <<bpc, live>>
    BY <1>0, <1>9 DEF Exit
  <2>4. Even(l, to)
    BY <1>0, <2>2, <2>3 DEF Even
  <2> QED
    BY <2>1, <2>4, SlotMove
<1> QED
  BY <1>1, <1>2, <1>3, <1>4, <1>5, <1>6, <1>7, <1>8, <1>9 DEF Worker

\* The batcher takes a slot, carries it, and sends it with a batch or drops it.
LEMMA BatcherSlots ==
    ASSUME TypeOK, SlotsExact, LiveExact, Batcher
    PROVE  SlotsExact' /\ LiveExact'
<1> USE DEF startup, items, slots, workers
<1>1. /\ Holding' = Holding /\ Keeping' = Keeping /\ Counted' = Counted /\ live' = live
  BY DEF Batcher, Acquire, Stop, Receive, Sweep, Dispatch, Holding, Keeping, Counted, Gone
<1>2. /\ idle \in Nat /\ Len(chan) \in Nat
      /\ idle + InHand + Len(chan) + Cardinality(Holding) = Cardinality(Keeping)
      /\ live = Cardinality(Counted)
  BY SlotSum, SlotTypes
<1>3. idle' + InHand' + Len(chan') = idle + InHand + Len(chan)
  <2>1. CASE Acquire
    BY <1>2, <2>1 DEF Acquire, InHand, BatcherHolds
  <2>2. CASE Stop
    BY <1>2, <2>2 DEF Stop, Return, InHand, BatcherHolds
  <2>3. CASE Receive
    BY <1>2, <2>3 DEF Receive, InHand, BatcherHolds
  <2>4. CASE Sweep
    BY <1>2, <2>4 DEF Sweep, InHand, BatcherHolds
  <2>5. CASE Dispatch
    <3>1. InHand = 1 /\ InHand' = 0
      BY <2>5 DEF Dispatch, Return, InHand, BatcherHolds
    <3>2. CASE idle' = idle /\ \E b : chan' = Append(chan, b)
      <4>1. Len(chan') = Len(chan) + 1
        <5>1. chan \in Seq(Seq(Items))
          BY DEF TypeOK
        <5> QED
          BY <3>2, <5>1
      <4> QED
        BY <1>2, <3>1, <3>2, <4>1
    <3>3. CASE idle' = idle + 1 /\ chan' = chan
      BY <1>2, <3>1, <3>3
    <3> QED
      BY <2>5, <3>2, <3>3 DEF Dispatch
  <2> QED
    BY <2>1, <2>2, <2>3, <2>4, <2>5 DEF Batcher
<1>4. idle' + InHand' + Len(chan') + Cardinality(Holding') = Cardinality(Keeping')
  BY <1>1, <1>2, <1>3
<1>5. live' = Cardinality(Counted')
  BY <1>1, <1>2
<1> QED
  BY <1>4, <1>5, SlotSum

\* The other steps hold no slot and count nobody.
LEMMA OtherSlots ==
    ASSUME TypeOK, StartInv, SlotsExact, LiveExact,
           \/ Hear \/ Arrive
           \/ \E i \in Items : Expire(i) \/ Extend(i) \/ Abandon(i)
           \/ UNCHANGED vars
    PROVE  SlotsExact' /\ LiveExact'
<1>1. UNCHANGED <<idle, chan, live, wpc>>
  BY DEF Hear, Arrive, Expire, Extend, Abandon, Waiters, slots, workers, vars
<1>2. InHand' = InHand
  <2>1. CASE Hear
    <3>1. bpc = "unborn"
      BY <2>1 DEF Hear, StartInv, NotUp
    <3>2. bpc' \in {bpc, "acquire"}
      BY <2>1 DEF Hear
    <3> QED
      BY <3>1, <3>2 DEF InHand, BatcherHolds
  <2>2. CASE ~Hear
    <3>1. bpc' = bpc
      BY <2>2 DEF Arrive, Expire, Extend, Abandon, Waiters, bvars, vars
    <3> QED
      BY <3>1 DEF InHand, BatcherHolds
  <2> QED
    BY <2>1, <2>2
<1>3. Holding' = Holding /\ Keeping' = Keeping /\ Counted' = Counted
  BY <1>1 DEF Holding, Keeping, Counted, Gone
<1>4. idle + InHand + Len(chan) + Cardinality(Holding) = Cardinality(Keeping) /\ live = Cardinality(Counted)
  BY SlotSum
<1>5. idle' + InHand' + Len(chan') + Cardinality(Holding') = Cardinality(Keeping')
  BY <1>1, <1>2, <1>3, <1>4
<1>6. live' = Cardinality(Counted')
  BY <1>1, <1>3, <1>4
<1> QED
  BY <1>5, <1>6, SlotSum

\* The threads' invariant holds at the start...
LEMMA PoolInit ==
    ASSUME Init
    PROVE  PoolInv
<1>0. \A w \in Workers : wpc[w] = "build"
  BY DEF Init
<1>1. /\ Workers \in SUBSET Workers
      /\ Holding = {} /\ Built = {} /\ Keeping = Workers /\ Counted = Workers
  <2>1. Workers \in SUBSET Workers
    OBVIOUS
  <2>2. Holding = {}
    BY <1>0 DEF Holding
  <2>3. Gone = {} /\ {w \in Workers : wpc[w] = "forgot"} = {}
    BY <1>0 DEF Gone
  <2>4. Keeping = Workers /\ Counted = Workers
    BY <2>3 DEF Keeping, Counted
  <2>5. Built = {}
    BY <1>0 DEF Built
  <2> QED
    BY <2>1, <2>2, <2>4, <2>5
<1>2. Cardinality(Workers) \in Nat
  BY <1>1, WorkersFinite
<1>3. Cardinality({}) = 0
  BY FS_EmptySet
<1>4. TypeOK
  <2>1. /\ start = "waiting" /\ reports = <<>> /\ heard = 0 /\ senders = Workers /\ arrived = 0
        /\ rx = <<>> /\ buf = <<>> /\ bpc = "unborn" /\ idle = Cardinality(Workers)
        /\ chan = <<>> /\ live = Cardinality(Workers) /\ panics = 0
    BY DEF Init
  <2>2. rxOpen \in BOOLEAN /\ idleClosed \in BOOLEAN
    BY Zenon DEF Init
  <2>3. /\ waiters \in [Items -> {"live", "expired", "abandoned"}]
        /\ fate \in [Items -> {"open", "refused", "skipped", "answered", "failed", "dropped"}]
        /\ wpc \in [Workers -> Labels]
        /\ batch \in [Workers -> Seq(Items)]
    BY DEF Init, Labels
  <2>4. heard \in 0 .. Cardinality(Workers) /\ arrived \in 0 .. MaxItems /\ panics \in 0 .. MaxPanics
    BY <1>2, <2>1, PoolAssumption
  <2>5. /\ reports \in Seq({"ok", "error"}) /\ rx \in Seq(Items) /\ buf \in Seq(Items)
        /\ chan \in Seq(Seq(Items))
    BY <2>1
  <2> QED
    BY <1>2, <2>1, <2>2, <2>3, <2>4, <2>5 DEF TypeOK, Labels
<1>5. Oks = {}
  BY DEF Init, Oks
<1>6. StartInv
  BY <1>1, <1>2, <1>3, <1>5 DEF Init, StartInv, NotUp, NoneQuits, HasItems, HeardFromBuilt, UpMeansBuilt
<1>7. InHand = 0 /\ Len(chan) = 0 /\ idle = Cardinality(Workers) /\ live = Cardinality(Workers)
  BY DEF Init, InHand, BatcherHolds
<1>8. idle + InHand + Len(chan) + Cardinality(Holding) = Cardinality(Keeping) /\ live = Cardinality(Counted)
  BY <1>1, <1>2, <1>3, <1>7
<1>9. SlotsExact /\ LiveExact
  BY <1>8, SlotSum
<1> QED
  BY <1>4, <1>6, <1>9 DEF PoolInv

\* ... and every step keeps it.
LEMMA PoolStep ==
    ASSUME PoolInv, [Next]_vars
    PROVE  PoolInv'
<1>1. TypeOK /\ StartInv /\ SlotsExact /\ LiveExact
  BY DEF PoolInv
<1>2. CASE \E w \in Workers : Worker(w)
  <2>1. PICK w \in Workers : Worker(w)
    BY <1>2
  <2>2. TypeOK'
    BY <1>1, <2>1, WorkerType
  <2>3. StartInv'
    BY <1>1, <2>1, WorkerStart
  <2>4. SlotsExact' /\ LiveExact'
    BY <1>1, <2>1, WorkerSlots
  <2> QED
    BY <2>2, <2>3, <2>4 DEF PoolInv
<1>3. CASE Batcher
  <2>1. TypeOK'
    BY <1>1, <1>3, BatcherType
  <2>2. StartInv'
    BY <1>1, <1>3, OtherStart
  <2>3. SlotsExact' /\ LiveExact'
    BY <1>1, <1>3, BatcherSlots
  <2> QED
    BY <2>1, <2>2, <2>3 DEF PoolInv
<1>4. CASE Hear \/ Arrive \/ \E i \in Items : Expire(i) \/ Extend(i) \/ Abandon(i)
  <2>1. TypeOK'
    BY <1>1, <1>4, OtherType
  <2>2. StartInv'
    BY <1>1, <1>4, OtherStart
  <2>3. SlotsExact' /\ LiveExact'
    BY <1>1, <1>4, OtherSlots
  <2> QED
    BY <2>1, <2>2, <2>3 DEF PoolInv
<1>5. CASE UNCHANGED vars
  <2>1. SlotsExact' /\ LiveExact'
    BY <1>1, <1>5, OtherSlots
  <2>2. TypeOK'
    BY <1>1, <1>5 DEF TypeOK, vars, startup, items, bvars, slots, workers
  <2>3. Oks' = Oks /\ Built' = Built
    BY <1>5 DEF Oks, Built, vars, startup, workers
  <2>4. StartInv'
    BY <1>1, <1>5, <2>3
       DEF StartInv, NotUp, NoneQuits, HasItems, HeardFromBuilt, UpMeansBuilt,
           vars, startup, items, bvars, slots, workers
  <2> QED
    BY <2>1, <2>2, <2>4 DEF PoolInv
<1> QED
  BY <1>2, <1>3, <1>4, <1>5 DEF Next

\* The threads' invariant, for any number of workers, items and panics.
LEMMA PoolInvariant == Spec => []PoolInv
<1>1. Init => PoolInv
  BY PoolInit
<1>2. PoolInv /\ [Next]_vars => PoolInv'
  BY PoolStep
<1> QED
  BY <1>1, <1>2, PTL DEF Spec

\* The room in the channel follows from the sum: a slot in the batcher's hand is
\* not in the channel.
LEMMA RoomFromSlots ==
    ASSUME PoolInv
    PROVE  ChannelHasRoom
<1>1. TypeOK /\ SlotsExact
  BY DEF PoolInv
<1>2. /\ idle \in Nat /\ Len(chan) \in Nat /\ InHand \in {0, 1}
      /\ Cardinality(Holding) \in Nat /\ Cardinality(Keeping) \in Nat
      /\ Cardinality(Keeping) <= Cardinality(Workers)
  BY <1>1, SlotTypes, WorkersFinite
<1>3. Cardinality(Workers) \in Nat
  BY WorkersFinite
<1>4. idle + InHand + Len(chan) + Cardinality(Holding) = Cardinality(Keeping)
  BY <1>1, SlotSum
<1>5. ASSUME bpc = "swept"
      PROVE  Len(chan) < Cardinality(Workers)
  <2>1. InHand = 1
    BY <1>5 DEF InHand, BatcherHolds
  <2> QED
    BY <1>2, <1>3, <1>4, <2>1
<1> QED
  BY <1>5 DEF ChannelHasRoom

\* Through failures, retirements and crashes a request is only admitted when
\* every worker has had a backend, no slot is lost or made, the live counter
\* counts the workers not retired, and a batch to be sent has room.
THEOREM PoolSoundThm == Spec => []PoolSound
<1>1. PoolInv => PoolSound
  BY RoomFromSlots DEF PoolInv, PoolSound, StartInv
<1> QED
  BY <1>1, PoolInvariant, PTL

-----------------------------------------------------------------------------
(* Items are dropped only when nobody is left.                             *)

Ended == {"closing", "leaving", "retired", "crashed"}

\* The semaphore is closed, or about to be, only by the last live worker.
ClosedInv == idleClosed \/ (\E w \in Workers : wpc[w] = "closing") => live = 0

\* No worker is counted when the counter is 0.
LEMMA NobodyLive ==
    ASSUME PoolInv, live = 0
    PROVE  \A w \in Workers : wpc[w] \in {"closing", "leaving", "retired"}
<1>1. Cardinality(Counted) = 0
  BY SlotSum DEF PoolInv
<1>2. IsFiniteSet(Counted)
  BY WorkersFinite DEF Counted
<1>3. Counted = {}
  BY <1>1, <1>2, FS_EmptySet
<1> QED
  BY <1>3 DEF Counted, Gone

\* Once the counter is 0 no worker counts itself out again, and the last one
\* that does so is the one that closes.
LEMMA ClosedStep ==
    ASSUME PoolInv, ClosedInv, [Next]_vars
    PROVE  ClosedInv'
<1> USE DEF startup, items, bvars, slots, workers
<1>1. TypeOK
  BY DEF PoolInv
<1>2. CASE \E w \in Workers : Worker(w)
  <2>1. PICK w \in Workers : Worker(w)
    BY <1>2
  <2>2. CASE CountDown(w)
    <3>1. live # 0
      BY <2>2, NobodyLive DEF CountDown
    <3>2. ~idleClosed' /\ \A v \in Workers : wpc[v] # "closing"
      BY <2>2, <3>1 DEF CountDown, ClosedInv
    <3>3. live \in Nat /\ live' = live - 1
      BY <1>1, <2>2 DEF CountDown, TypeOK
    <3>4. ASSUME NEW v \in Workers, wpc'[v] = "closing"
          PROVE  live = 1
      BY <1>1, <2>2, <3>2, <3>4 DEF CountDown, TypeOK
    <3> QED
      BY <3>2, <3>3, <3>4 DEF ClosedInv
  <2>3. CASE CloseIdle(w)
    <3>1. live = 0 /\ live' = live
      BY <2>3 DEF CloseIdle, ClosedInv
    <3> QED
      BY <3>1 DEF ClosedInv
  <2>4. CASE ~CountDown(w) /\ ~CloseIdle(w)
    <3>1. UNCHANGED <<idleClosed, live>>
      BY <2>1, <2>4 DEF Worker, Build, DropReady, Quit, Take, Run, GiveBack, Forget, Unwind, Exit
    <3>2. wpc'[w] # "closing" /\ \A v \in Workers : v # w => wpc'[v] = wpc[v]
      BY <1>1, <2>1, <2>4
         DEF Worker, Build, DropReady, Quit, Take, Run, GiveBack, Forget, Unwind, Exit, TypeOK
    <3> QED
      BY <3>1, <3>2 DEF ClosedInv
  <2> QED
    BY <2>2, <2>3, <2>4
<1>3. CASE ~\E w \in Workers : Worker(w)
  <2>1. UNCHANGED <<idleClosed, live, wpc>>
    BY <1>3 DEF Next, vars, Hear, Arrive, Expire, Extend, Abandon, Waiters, Batcher,
                Acquire, Stop, Receive, Sweep, Dispatch
  <2> QED
    BY <2>1 DEF ClosedInv
<1> QED
  BY <1>2, <1>3

AllEnded == \A w \in Workers : wpc[w] \in Ended

\* Workers that have ended, or are about to, stay so.
LEMMA EndedStays ==
    ASSUME TypeOK, AllEnded, [Next]_vars
    PROVE  AllEnded'
<1> USE DEF startup, items, bvars, slots, workers
<1>1. CASE \E w \in Workers : Worker(w)
  <2>1. PICK w \in Workers : Worker(w)
    BY <1>1
  <2>2. wpc'[w] \in Ended /\ \A v \in Workers : v # w => wpc'[v] = wpc[v]
    BY <2>1 DEF Worker, Build, DropReady, Quit, Take, Run, GiveBack, Forget, CountDown, CloseIdle,
                Unwind, Exit, TypeOK, AllEnded, Ended
  <2> QED
    BY <2>2 DEF AllEnded
<1>2. CASE ~\E w \in Workers : Worker(w)
  <2>1. wpc' = wpc
    BY <1>2 DEF Next, vars, Hear, Arrive, Expire, Extend, Abandon, Waiters, Batcher,
                Acquire, Stop, Receive, Sweep, Dispatch
  <2> QED
    BY <2>1 DEF AllEnded
<1> QED
  BY <1>1, <1>2

\* Ending items any other way drops none.
LEMMA NotDropped ==
    ASSUME TypeOK, NEW s, NEW how, how # "dropped", End(s, how),
           NEW i \in Items, fate'[i] = "dropped"
    PROVE  fate[i] = "dropped"
BY DEF End, TypeOK

\* A step drops items only when nobody is left to run them.
LEMMA DropsWhenEnded ==
    ASSUME PoolInv, ClosedInv, [Next]_vars, NEW i \in Items, fate'[i] = "dropped", fate[i] # "dropped"
    PROVE  AllEnded'
<1> USE DEF startup, items, bvars, slots, workers
<1>1. TypeOK /\ StartInv
  BY DEF PoolInv
<1>2. CASE Batcher
  <2>1. CASE Stop
    <3>1. live = 0 /\ wpc' = wpc
      BY <2>1 DEF Stop, ClosedInv
    <3> QED
      BY <3>1, NobodyLive DEF AllEnded, Ended
  <2>2. CASE Dispatch
    <3>1. Threads = {} /\ wpc' = wpc /\ start = "up"
      BY <1>1, <2>2 DEF Dispatch, StartInv, NotUp
    <3>2. \A w \in Workers : wpc[w] \in {"retired", "crashed"}
      BY <1>1, <3>1 DEF Threads, StartInv, UpMeansBuilt
    <3> QED
      BY <3>1, <3>2 DEF AllEnded, Ended
  <2>3. CASE Sweep
    <3>1. PICK s : End(s, "skipped")
      BY <2>3 DEF Sweep
    <3> QED
      BY <1>1, <3>1, NotDropped
  <2>4. CASE Acquire \/ Receive
    BY <2>4 DEF Acquire, Receive
  <2> QED
    BY <1>2, <2>1, <2>2, <2>3, <2>4 DEF Batcher
<1>3. CASE \E w \in Workers : Worker(w)
  <2>1. PICK w \in Workers : Worker(w)
    BY <1>3
  <2>2. CASE Run(w)
    <3>1. End(batch[w], "answered") \/ End(batch[w], "failed")
      BY <2>2 DEF Run
    <3> QED
      BY <1>1, <3>1, NotDropped
  <2>3. CASE Exit(w)
    <3>1. Threads = {w} /\ start = "up"
      BY <1>1, <2>3 DEF Exit, StartInv, NotUp
    <3>2. \A v \in Workers : v # w => wpc[v] \in {"retired", "crashed"}
      BY <1>1, <3>1 DEF Threads, StartInv, UpMeansBuilt
    <3>3. wpc'[w] \in {"retired", "crashed"} /\ \A v \in Workers : v # w => wpc'[v] = wpc[v]
      BY <1>1, <2>3 DEF Exit, TypeOK
    <3> QED
      BY <3>2, <3>3 DEF AllEnded, Ended
  <2>4. CASE ~Run(w) /\ ~Exit(w)
    BY <2>1, <2>4 DEF Worker, Build, DropReady, Quit, Take, GiveBack, Forget, CountDown, CloseIdle, Unwind
  <2> QED
    BY <2>2, <2>3, <2>4
<1>4. CASE Arrive
  <2>1. fate' = fate \/ End(<<arrived + 1>>, "refused")
    BY <1>4 DEF Arrive
  <2> QED
    BY <1>1, <2>1, NotDropped
<1>5. CASE Hear \/ (\E j \in Items : Expire(j) \/ Extend(j) \/ Abandon(j)) \/ UNCHANGED vars
  BY <1>5 DEF Hear, Expire, Extend, Abandon, Waiters, vars
<1> QED
  BY <1>2, <1>3, <1>4, <1>5 DEF Next

\* An item that was sent is dropped unanswered only when every worker has
\* retired, crashed or is on its way out.
THEOREM DroppedOnlyWithoutWorkersThm == Spec => []DroppedOnlyWithoutWorkers
<1>1. Init => ClosedInv /\ DroppedOnlyWithoutWorkers
  BY DEF Init, ClosedInv, DroppedOnlyWithoutWorkers
<1>2. PoolInv /\ ClosedInv /\ [Next]_vars => ClosedInv'
  BY ClosedStep
<1>3. PoolInv /\ ClosedInv /\ DroppedOnlyWithoutWorkers /\ [Next]_vars => DroppedOnlyWithoutWorkers'
  <2> SUFFICES ASSUME PoolInv, ClosedInv, DroppedOnlyWithoutWorkers, [Next]_vars,
                      NEW i \in Items, fate'[i] = "dropped"
               PROVE  AllEnded'
    BY DEF DroppedOnlyWithoutWorkers, AllEnded, Ended
  <2>1. CASE fate[i] = "dropped"
    <3>1. AllEnded
      BY <2>1 DEF DroppedOnlyWithoutWorkers, AllEnded, Ended
    <3> QED
      BY <3>1, EndedStays DEF PoolInv
  <2>2. CASE fate[i] # "dropped"
    BY <2>2, DropsWhenEnded
  <2> QED
    BY <2>1, <2>2
<1> QED
  BY <1>1, <1>2, <1>3, PoolInvariant, PTL DEF Spec

-----------------------------------------------------------------------------
(* The order of the items.                                                 *)

\* A sequence is its head and its tail.
LEMMA HeadTail ==
    ASSUME NEW X, NEW s \in Seq(X), s # <<>>
    PROVE  /\ Head(s) \in X /\ Tail(s) \in Seq(X) /\ Len(s) \in Nat \ {0}
           /\ Len(Tail(s)) = Len(s) - 1 /\ Head(s) = s[1]
           /\ \A k \in 1 .. (Len(s) - 1) : Tail(s)[k] = s[k + 1]
           /\ ToSet(s) = {Head(s)} \cup ToSet(Tail(s))
<1>1. /\ Head(s) \in X /\ Tail(s) \in Seq(X) /\ Len(s) \in Nat \ {0}
      /\ Len(Tail(s)) = Len(s) - 1 /\ Head(s) = s[1]
      /\ \A k \in 1 .. (Len(s) - 1) : Tail(s)[k] = s[k + 1]
  OBVIOUS
<1>2. ASSUME NEW x \in ToSet(s) PROVE x \in {Head(s)} \cup ToSet(Tail(s))
  <2>1. PICK k \in 1 .. Len(s) : s[k] = x
    BY <1>2 DEF ToSet
  <2>2. CASE k = 1
    BY <1>1, <2>1, <2>2
  <2>3. CASE k # 1
    <3>1. k - 1 \in 1 .. (Len(s) - 1) /\ (k - 1) + 1 = k
      BY <1>1, <2>3
    <3>2. Tail(s)[k - 1] = x /\ k - 1 \in DOMAIN Tail(s)
      BY <1>1, <2>1, <3>1
    <3> QED
      BY <3>2 DEF ToSet
  <2> QED
    BY <2>2, <2>3
<1>3. ASSUME NEW x \in ToSet(Tail(s)) PROVE x \in ToSet(s)
  <2>1. PICK k \in 1 .. (Len(s) - 1) : Tail(s)[k] = x
    BY <1>1, <1>3 DEF ToSet
  <2>2. k + 1 \in 1 .. Len(s) /\ s[k + 1] = x
    BY <1>1, <2>1
  <2> QED
    BY <2>2 DEF ToSet
<1>4. Head(s) \in ToSet(s)
  <2>1. 1 \in DOMAIN s /\ s[1] = Head(s)
    BY <1>1
  <2> QED
    BY <2>1 DEF ToSet
<1> QED
  BY <1>1, <1>2, <1>3, <1>4

\* The tail of an increasing sequence increases, above the head.
LEMMA IncreasingTail ==
    ASSUME NEW s \in Seq(Nat), Increasing(s), s # <<>>
    PROVE  Increasing(Tail(s)) /\ \A y \in ToSet(Tail(s)) : Head(s) < y
<1>1. /\ Len(s) \in Nat \ {0} /\ Len(Tail(s)) = Len(s) - 1 /\ Head(s) = s[1] /\ Tail(s) \in Seq(Nat)
      /\ \A k \in 1 .. (Len(s) - 1) : Tail(s)[k] = s[k + 1]
  BY HeadTail
<1>2. DOMAIN s = 1 .. Len(s) /\ DOMAIN Tail(s) = 1 .. (Len(s) - 1)
  BY <1>1
<1>3. ASSUME NEW i \in DOMAIN Tail(s), NEW j \in DOMAIN Tail(s), i < j
      PROVE  Tail(s)[i] < Tail(s)[j]
  <2>1. i + 1 \in DOMAIN s /\ j + 1 \in DOMAIN s /\ i + 1 < j + 1
    BY <1>1, <1>2, <1>3
  <2>2. s[i + 1] < s[j + 1]
    BY <2>1 DEF Increasing
  <2> QED
    BY <1>1, <1>2, <2>2
<1>4. ASSUME NEW y \in ToSet(Tail(s)) PROVE Head(s) < y
  <2>1. PICK k \in DOMAIN Tail(s) : Tail(s)[k] = y
    BY DEF ToSet
  <2>2. 1 \in DOMAIN s /\ k + 1 \in DOMAIN s /\ 1 < k + 1
    BY <1>1, <1>2
  <2>3. s[1] < s[k + 1]
    BY <2>2 DEF Increasing
  <2> QED
    BY <1>1, <1>2, <2>1, <2>3
<1> QED
  BY <1>3, <1>4 DEF Increasing

\* One increasing sequence after another whose elements are greater.
LEMMA IncreasingConcat ==
    ASSUME NEW s \in Seq(Nat), NEW t \in Seq(Nat), Increasing(s), Increasing(t),
           \A x \in ToSet(s), y \in ToSet(t) : x < y
    PROVE  Increasing(s \o t)
<1>1. /\ Len(s) \in Nat /\ Len(t) \in Nat /\ Len(s \o t) = Len(s) + Len(t)
      /\ DOMAIN s = 1 .. Len(s) /\ DOMAIN t = 1 .. Len(t) /\ DOMAIN (s \o t) = 1 .. (Len(s) + Len(t))
      /\ \A k \in 1 .. Len(s) : (s \o t)[k] = s[k]
      /\ \A k \in 1 .. (Len(s) + Len(t)) : k > Len(s) => (s \o t)[k] = t[k - Len(s)]
  OBVIOUS
<1>2. SUFFICES ASSUME NEW i \in 1 .. (Len(s) + Len(t)), NEW j \in 1 .. (Len(s) + Len(t)), i < j
               PROVE  (s \o t)[i] < (s \o t)[j]
  BY <1>1 DEF Increasing
<1>3. CASE j <= Len(s)
  <2>1. i \in DOMAIN s /\ j \in DOMAIN s
    BY <1>1, <1>2, <1>3
  <2>2. s[i] < s[j]
    BY <1>2, <2>1 DEF Increasing
  <2> QED
    BY <1>1, <2>1, <2>2
<1>4. CASE i <= Len(s) /\ j > Len(s)
  <2>1. i \in DOMAIN s /\ j - Len(s) \in DOMAIN t
    BY <1>1, <1>2, <1>4
  <2>2. s[i] \in ToSet(s) /\ t[j - Len(s)] \in ToSet(t)
    BY <2>1 DEF ToSet
  <2>3. s[i] < t[j - Len(s)]
    BY <2>2
  <2> QED
    BY <1>1, <1>4, <2>1, <2>3
<1>5. CASE i > Len(s)
  <2>1. i - Len(s) \in DOMAIN t /\ j - Len(s) \in DOMAIN t /\ i - Len(s) < j - Len(s) /\ j > Len(s)
    BY <1>1, <1>2, <1>5
  <2>2. t[i - Len(s)] < t[j - Len(s)]
    BY <2>1 DEF Increasing
  <2> QED
    BY <1>1, <1>5, <2>1, <2>2
<1> QED
  BY <1>1, <1>3, <1>4, <1>5

\* What a concatenation holds.
LEMMA ConcatSet ==
    ASSUME NEW X, NEW s \in Seq(X), NEW t \in Seq(X)
    PROVE  s \o t \in Seq(X) /\ ToSet(s \o t) = ToSet(s) \cup ToSet(t)
<1>1. /\ s \o t \in Seq(X) /\ Len(s) \in Nat /\ Len(t) \in Nat
      /\ DOMAIN s = 1 .. Len(s) /\ DOMAIN t = 1 .. Len(t) /\ DOMAIN (s \o t) = 1 .. (Len(s) + Len(t))
      /\ \A k \in 1 .. Len(s) : (s \o t)[k] = s[k]
      /\ \A k \in 1 .. (Len(s) + Len(t)) : k > Len(s) => (s \o t)[k] = t[k - Len(s)]
  OBVIOUS
<1>2. ASSUME NEW x \in ToSet(s \o t) PROVE x \in ToSet(s) \cup ToSet(t)
  <2>1. PICK k \in DOMAIN (s \o t) : (s \o t)[k] = x
    BY <1>2 DEF ToSet
  <2>2. CASE k <= Len(s)
    <3>1. k \in DOMAIN s /\ s[k] = x
      BY <1>1, <2>1, <2>2
    <3> QED
      BY <3>1 DEF ToSet
  <2>3. CASE k > Len(s)
    <3>1. k - Len(s) \in DOMAIN t /\ t[k - Len(s)] = x
      BY <1>1, <2>1, <2>3
    <3> QED
      BY <3>1 DEF ToSet
  <2> QED
    BY <1>1, <2>2, <2>3
<1>3. ASSUME NEW x \in ToSet(s) PROVE x \in ToSet(s \o t)
  <2>1. PICK k \in DOMAIN s : s[k] = x
    BY <1>3 DEF ToSet
  <2>2. k \in DOMAIN (s \o t) /\ (s \o t)[k] = x
    BY <1>1, <2>1
  <2> QED
    BY <2>2 DEF ToSet
<1>4. ASSUME NEW x \in ToSet(t) PROVE x \in ToSet(s \o t)
  <2>1. PICK k \in DOMAIN t : t[k] = x
    BY <1>4 DEF ToSet
  <2>2. k + Len(s) \in DOMAIN (s \o t) /\ (s \o t)[k + Len(s)] = x
    BY <1>1, <2>1
  <2> QED
    BY <2>2 DEF ToSet
<1> QED
  BY <1>1, <1>2, <1>3, <1>4

\* A batch and what stays buffered share the buffer between them, what stays
\* keeps its order, and no item stays behind a later one of its length.
LEMMA PickInOrder ==
    ASSUME NEW s \in Seq(Items), s # <<>>, Increasing(s),
           NEW picked, picked = PickBatch(Head(s), Tail(s), ItemLens, MaxBatch, MaxTokens)
    PROVE  /\ picked.batch \in Seq(Items) /\ picked.rest \in Seq(Items) /\ Increasing(picked.rest)
           /\ ToSet(picked.batch) \cup ToSet(picked.rest) = ToSet(s)
           /\ ToSet(picked.batch) \cap ToSet(picked.rest) = {}
           /\ \A i \in ToSet(picked.rest), j \in ToSet(picked.batch) :
                i < j => ItemLens[i] # ItemLens[j]
<1> DEFINE t == Tail(s)
           lens == LengthsOf(t, ItemLens)
           q == Chosen(ItemLens[Head(s)], lens, MaxBatch, MaxTokens)
           r == Keep(Positions(t), DOMAIN t \ ToSet(q))
           n == Len(t)
           N == 1 .. n
<1>1. /\ MaxBatch \in Nat /\ MaxTokens \in Nat /\ \A x \in Items : ItemLens[x] \in Nat
      /\ Items \subseteq Nat
  BY PoolAssumption DEF Items
<1>2. Head(s) \in Items /\ t \in Seq(Items) /\ ToSet(s) = {Head(s)} \cup ToSet(t)
  BY HeadTail
<1>3. s \in Seq(Nat)
  <2>1. Len(s) \in Nat /\ s \in [1 .. Len(s) -> Items]
    OBVIOUS
  <2>2. s \in [1 .. Len(s) -> Nat]
    BY <1>1, <2>1
  <2> QED
    BY <2>1, <2>2
<1>4. Increasing(t) /\ \A y \in ToSet(t) : Head(s) < y
  BY <1>3, IncreasingTail
<1>6. /\ Picks(Head(s), t, ItemLens, MaxBatch, MaxTokens, lens, q, r, picked)
      /\ q = Chosen(ItemLens[Head(s)], lens, MaxBatch, MaxTokens)
      /\ n = Len(t) /\ n \in Nat /\ DOMAIN t = N
  BY <1>2 DEF Picks
<1>7. /\ \A i \in N : i \in Nat /\ t[i] \in Items /\ t[i] \in Nat /\ lens[i] = ItemLens[t[i]]
      /\ \A x : x \in ToSet(t) <=> \E i \in N : x = t[i]
  <2>1. \A i \in N : i \in Nat /\ t[i] \in Items /\ t[i] \in Nat
    <3> HIDE DEF t
    <3>1. \A i \in N : i \in Nat /\ t[i] \in Items
      BY <1>2
    <3> QED
      BY <1>1, <3>1
  <2>2. \A i \in N : lens[i] = ItemLens[t[i]]
    BY <1>6 DEF LengthsOf
  <2>3. \A x : x \in ToSet(t) <=> \E i \in N : x = t[i]
    BY <1>6 DEF ToSet
  <2> QED
    BY <2>1, <2>2, <2>3
<1> HIDE DEF t, lens, q, r, n
<1>5. /\ lens \in Seq(Nat) /\ Len(lens) = n
      /\ q \in Seq(N) /\ Increasing(q)
      /\ r \in Seq(N) /\ Increasing(r) /\ ToSet(r) = N \ ToSet(q)
      /\ picked.batch = <<Head(s)>> \o At(t, q) /\ picked.rest = At(t, r)
      /\ picked.batch \in Seq(Items) /\ picked.rest \in Seq(Items)
  <2>1. ItemLens[Head(s)] \in Nat /\ MaxBatch \in Nat /\ MaxTokens \in Nat /\ \A x \in Items : ItemLens[x] \in Nat
    BY <1>1, <1>2
  <2>2. Picks(Head(s), t, ItemLens, MaxBatch, MaxTokens, lens, q, r, picked)
    BY <1>6
  <2>3. Shape(Items, Head(s), t, lens, q, r, picked)
    BY <1>2, <2>1, <2>2, PickShape
  <2> QED
    BY <2>3 DEF Shape, n
<1>8. \A a, b \in N : a < b /\ lens[a] = lens[b] /\ b \in ToSet(q) => a \in ToSet(q)
  <2>1. ItemLens[Head(s)] \in Nat
    BY <1>1, <1>2
  <2> QED
    BY <1>1, <1>5, <1>6, <2>1, ChosenInOrder
<1>9. ToSet(q) \subseteq N
  <2> HIDE DEF N
  <2>1. \A k \in DOMAIN q : q[k] \in N
    BY <1>5
  <2> QED
    BY <2>1 DEF ToSet
<1>10. /\ At(t, q) \in Seq(Items) /\ \A x : x \in ToSet(At(t, q)) <=> \E i \in ToSet(q) : x = t[i]
       /\ Len(At(t, r)) = Len(r) /\ \A j \in 1 .. Len(r) : At(t, r)[j] = t[r[j]] /\ r[j] \in N
       /\ \A x : x \in ToSet(At(t, r)) <=> \E i \in ToSet(r) : x = t[i]
  <2> HIDE DEF N
  <2>1. \A i \in N : t[i] \in Items
    BY <1>7
  <2>2. q \in Seq(N) /\ r \in Seq(N)
    BY <1>5
  <2>3. At(t, q) \in Seq(Items) /\ \A x : x \in ToSet(At(t, q)) <=> \E i \in ToSet(q) : x = t[i]
    BY <2>1, <2>2, TakenAt
  <2>4. /\ Len(At(t, r)) = Len(r) /\ \A j \in 1 .. Len(r) : At(t, r)[j] = t[r[j]] /\ r[j] \in N
        /\ \A x : x \in ToSet(At(t, r)) <=> \E i \in ToSet(r) : x = t[i]
    BY <2>1, <2>2, TakenAt
  <2> QED
    BY <2>3, <2>4
<1>11. <<Head(s)>> \in Seq(Items) /\ ToSet(<<Head(s)>>) = {Head(s)}
  <2>1. DOMAIN <<Head(s)>> = {1} /\ <<Head(s)>>[1] = Head(s)
    OBVIOUS
  <2> QED
    BY <1>2, <2>1 DEF ToSet
<1>12. /\ \A x : x \in ToSet(picked.batch) <=> x = Head(s) \/ \E i \in ToSet(q) : x = t[i]
       /\ \A x : x \in ToSet(picked.rest) <=> \E i \in N \ ToSet(q) : x = t[i]
  <2>1. ToSet(picked.batch) = ToSet(<<Head(s)>>) \cup ToSet(At(t, q))
    <3>1. <<Head(s)>> \in Seq(Items) /\ At(t, q) \in Seq(Items)
      BY <1>10, <1>11
    <3>2. ToSet(<<Head(s)>> \o At(t, q)) = ToSet(<<Head(s)>>) \cup ToSet(At(t, q))
      BY <3>1, ConcatSet, ZenonT(40)
    <3> QED
      BY <1>5, <3>2
  <2> QED
    BY <1>5, <1>10, <1>11, <2>1
<1>13. \A a, b \in N : a < b => t[a] < t[b]
  BY <1>4, <1>6 DEF Increasing
<1>14. Increasing(picked.rest)
  <2>1. /\ DOMAIN r = 1 .. Len(r) /\ DOMAIN picked.rest = 1 .. Len(r)
        /\ \A j \in 1 .. Len(r) : picked.rest[j] = t[r[j]]
    BY <1>5, <1>10, SMTT(30)
  <2>2. SUFFICES ASSUME NEW i \in 1 .. Len(r), NEW j \in 1 .. Len(r), i < j
                 PROVE  t[r[i]] < t[r[j]]
    BY <2>1 DEF Increasing
  <2>3. r[i] < r[j]
    BY <1>5, <2>1, <2>2 DEF Increasing
  <2> QED
    BY <1>10, <1>13, <2>3
<1>15. ToSet(picked.batch) \cup ToSet(picked.rest) = ToSet(s)
  BY <1>2, <1>7, <1>9, <1>12
<1>16. \A a, b \in N : t[a] = t[b] => a = b
  <2>1. SUFFICES ASSUME NEW a \in N, NEW b \in N, a # b PROVE t[a] # t[b]
    OBVIOUS
  <2>2. t[a] \in Nat /\ t[b] \in Nat /\ a \in Nat /\ b \in Nat
    BY <1>7
  <2>3. a < b \/ b < a
    BY <2>1, <2>2
  <2>4. t[a] < t[b] \/ t[b] < t[a]
    BY <1>13, <2>3
  <2> QED
    BY <2>2, <2>4
<1>17. ToSet(picked.batch) \cap ToSet(picked.rest) = {}
  <2>1. ASSUME NEW a \in N \ ToSet(q), t[a] = Head(s) PROVE FALSE
    <3>1. t[a] \in ToSet(t) /\ Head(s) \in Nat
      BY <1>1, <1>2, <1>7
    <3>2. Head(s) < t[a]
      BY <1>4, <3>1
    <3> QED
      BY <2>1, <3>1, <3>2
  <2>2. ASSUME NEW a \in N \ ToSet(q), NEW b \in ToSet(q), t[a] = t[b] PROVE FALSE
    BY <1>9, <1>16, <2>2
  <2> QED
    BY <1>12, <2>1, <2>2
<1>18. ASSUME NEW i \in ToSet(picked.rest), NEW j \in ToSet(picked.batch), i < j,
              ItemLens[i] = ItemLens[j]
       PROVE  FALSE
  <2>1. PICK a \in N \ ToSet(q) : i = t[a]
    BY <1>12
  <2>2. t[a] \in Nat /\ Head(s) \in Nat /\ Head(s) < t[a]
    BY <1>1, <1>2, <1>4, <1>7
  <2>3. j # Head(s)
    BY <1>18, <2>1, <2>2
  <2>4. PICK b \in ToSet(q) : j = t[b]
    BY <1>12, <2>3
  <2>5. a \in N /\ b \in N /\ a \in Nat /\ b \in Nat
    BY <1>7, <1>9
  <2>6. ~(b < a) /\ a # b
    <3>1. t[a] \in Nat /\ t[b] \in Nat /\ t[a] < t[b]
      BY <1>7, <1>18, <2>1, <2>4, <2>5
    <3>2. b < a => t[b] < t[a]
      BY <1>13, <2>5
    <3> QED
      BY <3>1, <3>2
  <2>7. a < b
    BY <2>5, <2>6
  <2>8. lens[a] = lens[b]
    BY <1>7, <1>18, <2>1, <2>4, <2>5
  <2> QED
    BY <1>8, <2>1, <2>5, <2>7, <2>8
<1> QED
  BY <1>5, <1>14, <1>15, <1>17, <1>18

-----------------------------------------------------------------------------
(* What still waits, in its order.                                         *)

Waiting == ToSet(rx) \cup ToSet(buf)

\* The queue and the buffer hold the items in the order of their arrival, the
\* buffer the older ones; a batcher that has returned holds nothing.
OrderInv ==
    /\ Increasing(buf) /\ Increasing(rx)
    /\ \A x \in ToSet(buf), y \in ToSet(rx) : x < y
    /\ \A x \in Waiting : x <= arrived
    /\ ~rxOpen => rx = <<>> /\ buf = <<>>

\* Sequences of items are sequences of numbers.
LEMMA ItemNumbers ==
    ASSUME NEW s \in Seq(Items)
    PROVE  s \in Seq(Nat) /\ ToSet(s) \subseteq Items /\ Items \subseteq Nat
<1>1. Items \subseteq Nat
  BY DEF Items
<1>2. Len(s) \in Nat /\ s \in [1 .. Len(s) -> Items] /\ DOMAIN s = 1 .. Len(s)
  OBVIOUS
<1>3. s \in [1 .. Len(s) -> Nat]
  BY <1>1, <1>2
<1> QED
  BY <1>1, <1>2, <1>3 DEF ToSet

\* Nothing in an empty sequence.
LEMMA EmptyOrder == Increasing(<<>>) /\ ToSet(<<>>) = {}
BY DEF Increasing, ToSet

\* What the batcher takes at a sweep: everything, without the dead.
LEMMA SweepSets ==
    ASSUME TypeOK, OrderInv, Sweep
    PROVE  /\ rx' = <<>> /\ Increasing(buf') /\ buf' \in Seq(Items)
           /\ Waiting' \subseteq Waiting
           /\ \A k \in Items : k \in Waiting \ Waiting' => fate'[k] = "skipped"
           /\ \A k \in Items : k \notin Waiting \ Waiting' => fate'[k] = fate[k]
<1> DEFINE all == buf \o rx
           dead == {i \in Items : waiters[i] # "live"}
<1>1. /\ buf' = Keep(all, Items \ dead) /\ rx' = <<>> /\ End(Keep(all, dead), "skipped")
  BY DEF Sweep
<1>2. buf \in Seq(Items) /\ rx \in Seq(Items) /\ fate \in [Items -> Fates]
  BY DEF TypeOK, Fates
<1> HIDE DEF dead
<1>3. all \in Seq(Items) /\ ToSet(all) = Waiting /\ Waiting \subseteq Items
  BY <1>2, ConcatSet, ItemNumbers DEF Waiting
<1>4. Increasing(all) /\ all \in Seq(Nat)
  BY <1>2, IncreasingConcat, ItemNumbers, <1>3 DEF OrderInv
<1> HIDE DEF all
<1>5. Increasing(buf') /\ buf' \in Seq(Items) /\ ToSet(buf') = ToSet(all) \cap (Items \ dead)
  BY <1>1, <1>3, <1>4, KeepSet, KeepIncreasing
<1>6. ToSet(Keep(all, dead)) = ToSet(all) \cap dead
  BY <1>3, KeepSet
<1>7. Waiting' = Waiting \ dead
  BY <1>1, <1>3, <1>5, EmptyOrder DEF Waiting
<1>8. \A k \in Items : fate'[k] = IF k \in Waiting \cap dead THEN "skipped" ELSE fate[k]
  BY <1>1, <1>3, <1>6 DEF End
<1> QED
  BY <1>1, <1>5, <1>7, <1>8

\* What the batcher sends: the oldest item and some of its buffer.
LEMMA DispatchSets ==
    ASSUME TypeOK, StartInv, OrderInv, Dispatch, Threads # {}
    PROVE  /\ UNCHANGED <<rx, rxOpen, fate, arrived, wpc, batch>>
           /\ Increasing(buf') /\ buf' \in Seq(Items) /\ ToSet(buf') \subseteq ToSet(buf)
           /\ \E b \in Seq(Items) :
                /\ chan' = Append(chan, b)
                /\ Waiting' = Waiting \ ToSet(b) /\ ToSet(b) \subseteq ToSet(buf)
                /\ \A i \in Waiting', j \in ToSet(b) : i < j => ItemLens[i] # ItemLens[j]
<1> DEFINE picked == PickBatch(Head(buf), Tail(buf), ItemLens, MaxBatch, MaxTokens)
<1>1. /\ chan' = Append(chan, picked.batch) /\ buf' = picked.rest
      /\ UNCHANGED <<rx, rxOpen, fate, arrived, wpc, batch>>
  BY DEF Dispatch, workers
<1>2. buf \in Seq(Items) /\ rx \in Seq(Items) /\ buf # <<>>
  BY DEF Dispatch, TypeOK, StartInv, HasItems
<1>3. picked = PickBatch(Head(buf), Tail(buf), ItemLens, MaxBatch, MaxTokens)
  OBVIOUS
<1> HIDE DEF picked
<1>4. /\ picked.batch \in Seq(Items) /\ picked.rest \in Seq(Items) /\ Increasing(picked.rest)
      /\ ToSet(picked.batch) \cup ToSet(picked.rest) = ToSet(buf)
      /\ ToSet(picked.batch) \cap ToSet(picked.rest) = {}
      /\ \A i \in ToSet(picked.rest), j \in ToSet(picked.batch) :
           i < j => ItemLens[i] # ItemLens[j]
  BY <1>2, <1>3, PickInOrder DEF OrderInv
<1>5. \A x \in ToSet(buf), y \in ToSet(rx) : x < y /\ x \in Nat /\ y \in Nat
  BY <1>2, ItemNumbers DEF OrderInv
<1>6. ToSet(rx) \cap ToSet(picked.batch) = {}
  <2>1. ASSUME NEW x \in ToSet(rx), x \in ToSet(picked.batch) PROVE FALSE
    BY <1>4, <1>5, <2>1
  <2> QED
    BY <2>1
<1>7. Waiting' = Waiting \ ToSet(picked.batch)
  BY <1>1, <1>4, <1>6 DEF Waiting
<1>8. ASSUME NEW i \in Waiting', NEW j \in ToSet(picked.batch), i < j
      PROVE  ItemLens[i] # ItemLens[j]
  <2>1. i \in ToSet(picked.rest) \/ i \in ToSet(rx)
    BY <1>1 DEF Waiting
  <2>2. j \in ToSet(buf)
    BY <1>4
  <2>3. i \notin ToSet(rx)
    BY <1>5, <1>8, <2>2
  <2> QED
    BY <1>4, <1>8, <2>1, <2>3
<1> QED
  BY <1>1, <1>4, <1>7, <1>8

\* Every step keeps the items in order.
LEMMA OrderStep ==
    ASSUME PoolInv, OrderInv, [Next]_vars
    PROVE  OrderInv'
<1>1. TypeOK /\ StartInv
  BY DEF PoolInv
<1>2. buf \in Seq(Items) /\ rx \in Seq(Items) /\ buf \in Seq(Nat) /\ rx \in Seq(Nat) /\ arrived \in Nat
  BY <1>1, ItemNumbers, PoolAssumption DEF TypeOK
<1>3. CASE Arrive
  <2>1. UNCHANGED <<buf, rxOpen>> /\ arrived' = arrived + 1
    BY <1>3 DEF Arrive
  <2>2. CASE rx' = rx
    BY <1>2, <2>1, <2>2, ItemNumbers DEF OrderInv, Waiting
  <2>3. CASE rxOpen /\ rx' = Append(rx, arrived + 1)
    <3>1. ToSet(rx') = ToSet(rx) \cup {arrived + 1}
      <4>1. arrived + 1 \in Nat
        BY <1>2
      <4>2. ToSet(Append(rx, arrived + 1)) = ToSet(rx) \cup {arrived + 1}
        BY <1>2, <4>1, AppendSet
      <4> QED
        BY <2>3, <4>2
    <3>2. \A y \in Waiting : y < arrived + 1 /\ y \in Nat
      BY <1>2, ItemNumbers DEF OrderInv, Waiting
    <3>3. Increasing(rx')
      BY <1>2, <2>3, <3>2, AppendIncreasing DEF OrderInv, Waiting
    <3>4. \A x \in ToSet(buf'), y \in ToSet(rx') : x < y
      BY <2>1, <3>1, <3>2 DEF OrderInv, Waiting
    <3>5. \A x \in Waiting' : x <= arrived'
      BY <1>2, <2>1, <3>1, <3>2 DEF Waiting
    <3>6. rxOpen' = rxOpen /\ buf' = buf
      BY <2>1
    <3> QED
      BY <2>3, <3>3, <3>4, <3>5, <3>6 DEF OrderInv
  <2> QED
    BY <1>3, <2>2, <2>3 DEF Arrive
<1>4. CASE Receive
  <2>1. /\ rx # <<>> /\ buf' = Append(buf, Head(rx)) /\ rx' = Tail(rx)
        /\ UNCHANGED <<arrived, rxOpen>>
    BY <1>4 DEF Receive, items
  <2>2. /\ Head(rx) \in Items /\ Head(rx) \in Nat /\ ToSet(rx) = {Head(rx)} \cup ToSet(rx')
        /\ ToSet(buf') = ToSet(buf) \cup {Head(rx)}
    BY <1>2, <2>1, HeadTail, AppendSet
  <2>3. Increasing(rx') /\ \A y \in ToSet(rx') : Head(rx) < y
    BY <1>2, <2>1, IncreasingTail DEF OrderInv
  <2>4. Increasing(buf')
    BY <1>2, <2>1, <2>2, AppendIncreasing DEF OrderInv
  <2>5. Waiting' = Waiting
    BY <2>2 DEF Waiting
  <2>6. \A x \in ToSet(buf'), y \in ToSet(rx') : x < y
    BY <2>2, <2>3 DEF OrderInv
  <2>7. rxOpen
    BY <2>1 DEF OrderInv
  <2>8. rxOpen'
    BY <2>1, <2>7
  <2> QED
    BY <2>1, <2>3, <2>4, <2>5, <2>6, <2>8 DEF OrderInv
<1>5. CASE Sweep
  <2>1. rx' = <<>> /\ Increasing(buf') /\ Waiting' \subseteq Waiting
    BY <1>1, <1>5, SweepSets
  <2>2. UNCHANGED <<arrived, rxOpen>>
    BY <1>5 DEF Sweep
  <2>3. ~rxOpen => Waiting = {}
    BY EmptyOrder DEF OrderInv, Waiting
  <2>4. ~rxOpen => buf' = <<>>
    <3>1. buf' \in Seq(Items)
      BY <1>1, <1>5, SweepSets
    <3>2. ~rxOpen => ToSet(buf') = {}
      BY <2>1, <2>3 DEF Waiting
    <3>3. buf' # <<>> => Head(buf') \in ToSet(buf')
      BY <3>1, HeadTail
    <3> QED
      BY <3>2, <3>3
  <2>5. ~rxOpen' => buf' = <<>>
    BY <2>2, <2>4
  <2> QED
    BY <2>1, <2>2, <2>5, EmptyOrder DEF OrderInv
<1>6. CASE Dispatch /\ Threads # {}
  <2>1. /\ UNCHANGED <<rx, rxOpen, arrived>>
        /\ Increasing(buf') /\ buf' \in Seq(Items) /\ ToSet(buf') \subseteq ToSet(buf)
    BY <1>1, <1>6, DispatchSets
  <2>2. ~rxOpen => buf' = <<>>
    <3>1. bpc = "swept" /\ buf # <<>>
      BY <1>1, <1>6 DEF Dispatch, StartInv, HasItems
    <3> QED
      BY <3>1 DEF OrderInv
  <2>3. ~rxOpen' => rx' = <<>> /\ buf' = <<>>
    BY <2>1, <2>2 DEF OrderInv
  <2> QED
    BY <2>1, <2>3 DEF OrderInv, Waiting
<1>7. CASE Return
  <2>1. rx' = <<>> /\ buf' = <<>>
    BY <1>7 DEF Return
  <2> QED
    BY <2>1, EmptyOrder DEF OrderInv, Waiting
<1>8. CASE UNCHANGED <<rx, buf, rxOpen, arrived>>
  <2>1. rx' = rx /\ buf' = buf /\ arrived' = arrived
    BY <1>8
  <2>2. ~rxOpen' => ~rxOpen
    BY <1>8
  <2> QED
    BY <2>1, <2>2 DEF OrderInv, Waiting
<1>9. CASE \E w \in Workers : Worker(w)
  <2>1. UNCHANGED <<rx, buf, rxOpen, arrived>>
    BY <1>9 DEF Worker, Build, DropReady, Quit, Take, Run, GiveBack, Forget, CountDown, CloseIdle,
                Unwind, Exit, items, bvars
  <2> QED
    BY <1>8, <2>1
<1>10. CASE Batcher
  BY <1>4, <1>5, <1>6, <1>7, <1>8, <1>10 DEF Batcher, Acquire, Stop, Dispatch, items
<1>11. CASE Hear \/ (\E i \in Items : Expire(i) \/ Extend(i) \/ Abandon(i)) \/ UNCHANGED vars
  <2>1. UNCHANGED <<rx, buf, rxOpen, arrived>>
    BY <1>11 DEF Hear, Expire, Extend, Abandon, Waiters, items, bvars, vars
  <2> QED
    BY <1>8, <2>1
<1> QED
  BY <1>3, <1>9, <1>10, <1>11 DEF Next

-----------------------------------------------------------------------------
(* No item overtakes an older one of its length.                           *)

\* The items that wait or are still to come, and those sent to the workers.
Pending == {k \in Items : k > arrived \/ k \in Waiting}
Out == {k \in Items :
            \/ \E n \in DOMAIN chan : k \in ToSet(chan[n])
            \/ \E w \in Workers : wpc[w] = "run" /\ k \in ToSet(batch[w])}
Lost == {"skipped", "dropped"}

\* While a worker is left, an item is in one place, and is neither skipped nor
\* dropped before it has left it.
OutInv == Threads # {} =>
    /\ Pending \cap Out = {}
    /\ \A k \in Pending \cup Out : fate[k] \notin Lost

\* NotOvertaken, of the items that wait.
LEMMA Overtaking ==
    /\ NotOvertaken <=> \A i, j \in 1 .. arrived :
            i < j /\ ItemLens[i] = ItemLens[j] /\ i \in Waiting => j \in Waiting \/ fate[j] \in Lost
    /\ NotOvertaken' <=> \A i, j \in 1 .. arrived' :
            i < j /\ ItemLens[i] = ItemLens[j] /\ i \in Waiting' => j \in Waiting' \/ fate'[j] \in Lost
BY DEF NotOvertaken, Waiting, Lost

\* A step that moves nothing out of the queue, and ends only items that were
\* sent, keeps them in order.
LEMMA Quiet ==
    ASSUME TypeOK, OutInv, NotOvertaken,
           Waiting' = Waiting, arrived' = arrived, Out' \subseteq Out, Threads' \subseteq Threads,
           \A k \in Items : fate'[k] = fate[k] \/ (k \in Out /\ Threads # {} /\ fate'[k] \notin Lost)
    PROVE  OutInv' /\ NotOvertaken'
<1>1. Pending' = Pending
  BY DEF Pending
<1>2. OutInv'
  BY <1>1 DEF OutInv, Pending, Out
<1>3. NotOvertaken'
  <2>1. SUFFICES ASSUME NEW i \in 1 .. arrived, NEW j \in 1 .. arrived,
                        i < j, ItemLens[i] = ItemLens[j], i \in Waiting
                 PROVE  j \in Waiting \/ fate'[j] \in Lost
    BY Overtaking
  <2>2. j \in Waiting \/ fate[j] \in Lost
    BY <2>1, Overtaking
  <2>3. j \in Items
    BY PoolAssumption DEF TypeOK, Items
  <2> QED
    BY <2>2, <2>3 DEF OutInv
<1> QED
  BY <1>2, <1>3

\* No thread comes back.
LEMMA ThreadsShrink ==
    ASSUME TypeOK, NEW w \in Workers, Worker(w)
    PROVE  Threads' \subseteq Threads /\ UNCHANGED <<rx, buf, arrived>>
<1>1. wpc[w] \notin {"failed", "quit", "retired", "crashed"}
  BY DEF Worker, Build, DropReady, Quit, Take, Run, GiveBack, Forget, CountDown, CloseIdle, Unwind, Exit
<1>2. \A v \in Workers : v # w => wpc'[v] = wpc[v]
  BY DEF Worker, Build, DropReady, Quit, Take, Run, GiveBack, Forget, CountDown, CloseIdle, Unwind, Exit, TypeOK
<1>3. UNCHANGED <<rx, buf, arrived>>
  BY DEF Worker, Build, DropReady, Quit, Take, Run, GiveBack, Forget, CountDown, CloseIdle, Unwind, Exit,
         items, bvars
<1> QED
  BY <1>1, <1>2, <1>3 DEF Threads

\* The workers take batches in turn and end their items; the last to leave
\* leaves nobody whom the order could matter to.
LEMMA WorkerOrder ==
    ASSUME TypeOK, OutInv, NotOvertaken, NEW w \in Workers, Worker(w)
    PROVE  OutInv' /\ NotOvertaken'
<1> USE DEF startup, items, bvars, slots
<1>1. Threads' \subseteq Threads /\ Waiting' = Waiting /\ arrived' = arrived
  BY ThreadsShrink DEF Waiting
<1>2. CASE Take(w)
  <2>1. /\ wpc[w] = "recv" /\ chan # <<>> /\ chan' = Tail(chan) /\ chan \in Seq(Seq(Items))
        /\ batch' = [batch EXCEPT ![w] = Head(chan)] /\ wpc' = [wpc EXCEPT ![w] = "run"]
        /\ fate' = fate
    BY <1>2 DEF Take, TypeOK
  <2>2. /\ Len(chan) \in Nat \ {0} /\ Head(chan) = chan[1] /\ Len(Tail(chan)) = Len(chan) - 1
        /\ DOMAIN chan = 1 .. Len(chan) /\ DOMAIN Tail(chan) = 1 .. (Len(chan) - 1)
        /\ \A k \in 1 .. (Len(chan) - 1) : Tail(chan)[k] = chan[k + 1]
    <3>1. /\ Tail(chan) \in Seq(Seq(Items)) /\ Len(chan) \in Nat \ {0}
          /\ Head(chan) = chan[1] /\ Len(Tail(chan)) = Len(chan) - 1
          /\ \A k \in 1 .. (Len(chan) - 1) : Tail(chan)[k] = chan[k + 1]
      BY <2>1, HeadTail
    <3> QED
      BY <2>1, <3>1
  <2>3. ASSUME NEW k \in Out' PROVE k \in Out
    <3>1. k \in Items
      BY <2>3 DEF Out
    <3>2. CASE \E n \in DOMAIN chan' : k \in ToSet(chan'[n])
      <4>1. PICK n \in 1 .. (Len(chan) - 1) : k \in ToSet(chan[n + 1])
        BY <2>1, <2>2, <3>2
      <4>2. n + 1 \in DOMAIN chan
        BY <2>2, <4>1
      <4> QED
        BY <3>1, <4>1, <4>2 DEF Out
    <3>3. CASE \E v \in Workers : wpc'[v] = "run" /\ k \in ToSet(batch'[v])
      <4>1. PICK v \in Workers : wpc'[v] = "run" /\ k \in ToSet(batch'[v])
        BY <3>3
      <4>2. CASE v = w
        <5>1. k \in ToSet(chan[1]) /\ 1 \in DOMAIN chan
          BY <2>1, <2>2, <4>1, <4>2 DEF TypeOK
        <5> QED
          BY <3>1, <5>1 DEF Out
      <4>3. CASE v # w
        <5>1. wpc[v] = "run" /\ k \in ToSet(batch[v])
          BY <2>1, <4>1, <4>3 DEF TypeOK
        <5> QED
          BY <3>1, <5>1 DEF Out
      <4> QED
        BY <4>2, <4>3
    <3> QED
      BY <2>3, <3>2, <3>3 DEF Out
  <2> QED
    BY <1>1, <2>1, <2>3, Quiet
<1>3. CASE Run(w)
  <2>1. /\ wpc[w] = "run" /\ chan' = chan /\ batch' = [batch EXCEPT ![w] = <<>>]
        /\ \E to \in {"done", "rebuild"} : wpc' = [wpc EXCEPT ![w] = to]
        /\ \E how \in {"answered", "failed"} : End(batch[w], how)
    BY <1>3 DEF Run
  <2>2. Threads # {}
    BY <2>1 DEF Threads
  <2>3. ASSUME NEW k \in Items, fate'[k] # fate[k]
        PROVE  k \in Out /\ fate'[k] \notin Lost
    BY <2>1, <2>3 DEF End, Out, Lost
  <2>4. \A v \in Workers : wpc'[v] = "run" => v # w /\ wpc[v] = "run" /\ batch'[v] = batch[v]
    BY <2>1 DEF TypeOK
  <2>5. Out' \subseteq Out
    BY <2>1, <2>4 DEF Out
  <2> QED
    BY <1>1, <2>2, <2>3, <2>5, Quiet
<1>4. CASE Exit(w) /\ Threads = {w}
  <2>1. wpc'[w] \in {"retired", "crashed"} /\ End(FlattenSeq(chan), "dropped")
    BY <1>4 DEF Exit, TypeOK
  <2>2. Threads' = {}
    BY <1>1, <1>4, <2>1 DEF Threads
  <2>3. OutInv'
    BY <2>2 DEF OutInv
  <2>4. NotOvertaken'
    <3>1. SUFFICES ASSUME NEW i \in 1 .. arrived, NEW j \in 1 .. arrived,
                          i < j, ItemLens[i] = ItemLens[j], i \in Waiting
                   PROVE  j \in Waiting \/ fate'[j] \in Lost
      BY <1>1, Overtaking
    <3>2. j \in Waiting \/ fate[j] \in Lost
      BY <3>1, Overtaking
    <3>3. j \in Items
      BY PoolAssumption DEF TypeOK, Items
    <3>4. fate'[j] = "dropped" \/ fate'[j] = fate[j]
      BY <2>1, <3>3 DEF End
    <3> QED
      BY <3>2, <3>4 DEF Lost
  <2> QED
    BY <2>3, <2>4
<1>5. CASE ~Take(w) /\ ~Run(w) /\ ~(Exit(w) /\ Threads = {w})
  <2>1. UNCHANGED <<chan, batch, fate>>
    BY <1>5 DEF Worker, Build, DropReady, Quit, GiveBack, Forget, CountDown, CloseIdle, Unwind, Exit
  <2>2. \A v \in Workers : wpc'[v] = "run" => wpc[v] = "run"
    BY <1>5 DEF Worker, Build, DropReady, Quit, GiveBack, Forget, CountDown, CloseIdle, Unwind, Exit, TypeOK
  <2>3. Out' \subseteq Out
    BY <2>1, <2>2 DEF Out
  <2> QED
    BY <1>1, <2>1, <2>3, Quiet
<1> QED
  BY <1>2, <1>3, <1>4, <1>5

\* The batcher's steps: a sweep skips what it takes, a batch has no item whose
\* like waits behind it, and a batcher that returns leaves nothing waiting.
LEMMA BatcherOrder ==
    ASSUME PoolInv, OrderInv, OutInv, NotOvertaken, Batcher
    PROVE  OutInv' /\ NotOvertaken'
<1> USE DEF startup, items, slots, workers
<1>1. TypeOK /\ StartInv
  BY DEF PoolInv
<1>2. wpc' = wpc /\ batch' = batch /\ arrived' = arrived /\ Threads' = Threads
  BY DEF Batcher, Acquire, Stop, Receive, Sweep, Dispatch, Threads
<1>3. /\ Waiting \subseteq Items /\ \A k \in Waiting : ~(k > arrived)
      /\ \A k \in 1 .. arrived : k \in Items
  <2>1. Waiting \subseteq Items /\ Items \subseteq Nat
    BY <1>1, ItemNumbers DEF TypeOK, Waiting
  <2>2. arrived \in Nat /\ \A k \in 1 .. arrived : k \in Items
    BY <1>1, PoolAssumption DEF TypeOK, Items
  <2>3. \A k \in Waiting : k \in Nat /\ k <= arrived
    BY <2>1 DEF OrderInv
  <2>4. \A k \in Waiting : ~(k > arrived)
    BY <2>2, <2>3
  <2> QED
    BY <2>1, <2>2, <2>4
<1>4. CASE Acquire
  <2>1. UNCHANGED <<rx, buf, chan, fate>>
    BY <1>4 DEF Acquire
  <2> QED
    BY <1>1, <1>2, <2>1, Quiet DEF Waiting, Out
<1>5. CASE Receive
  <2>1. /\ rx # <<>> /\ buf' = Append(buf, Head(rx)) /\ rx' = Tail(rx) /\ UNCHANGED <<chan, fate>>
        /\ rx \in Seq(Items) /\ buf \in Seq(Items)
    BY <1>1, <1>5 DEF Receive, TypeOK
  <2>2. Waiting' = Waiting
    BY <2>1, HeadTail, AppendSet DEF Waiting
  <2>3. Out' = Out
    BY <1>2, <2>1 DEF Out
  <2> QED
    BY <1>1, <1>2, <2>1, <2>2, <2>3, Quiet
<1>6. CASE Sweep
  <2>1. /\ Waiting' \subseteq Waiting
        /\ \A k \in Items : k \in Waiting \ Waiting' => fate'[k] = "skipped"
        /\ \A k \in Items : k \notin Waiting \ Waiting' => fate'[k] = fate[k]
    BY <1>1, <1>6, SweepSets
  <2>2. Out' = Out
    BY <1>2, <1>6 DEF Sweep, Out
  <2>3. Pending' \subseteq Pending /\ Pending' \cap (Waiting \ Waiting') = {} /\ Waiting \subseteq Pending
    BY <1>2, <1>3, <2>1 DEF Pending
  <2>4. OutInv'
    <3>1. SUFFICES ASSUME Threads # {}
                   PROVE  Pending' \cap Out = {} /\ \A k \in Pending' \cup Out : fate'[k] \notin Lost
      BY <1>2, <2>2 DEF OutInv
    <3>2. \A k \in Pending' \cup Out : k \in Items /\ k \in Pending \cup Out /\ k \notin Waiting \ Waiting'
      BY <2>3, <3>1 DEF OutInv, Pending, Out
    <3> QED
      BY <2>1, <2>3, <3>1, <3>2 DEF OutInv
  <2>5. NotOvertaken'
    <3>1. SUFFICES ASSUME NEW i \in 1 .. arrived, NEW j \in 1 .. arrived,
                          i < j, ItemLens[i] = ItemLens[j], i \in Waiting'
                   PROVE  j \in Waiting' \/ fate'[j] \in Lost
      BY <1>2, Overtaking
    <3>2. j \in Waiting \/ fate[j] \in Lost
      BY <2>1, <3>1, Overtaking
    <3> QED
      BY <1>3, <2>1, <3>2 DEF Lost
  <2> QED
    BY <2>4, <2>5
<1>7. CASE Return
  <2>1. Waiting' = {} /\ UNCHANGED <<chan>> /\ End(rx \o buf, "dropped")
    <3>1. rx' = <<>> /\ buf' = <<>> /\ bpc' = "stopped"
      BY <1>7 DEF Return
    <3>2. Waiting' = {}
      BY <3>1, EmptyOrder DEF Waiting
    <3>3. UNCHANGED <<chan>> /\ End(rx \o buf, "dropped")
      BY <3>1 DEF Batcher, Acquire, Stop, Receive, Sweep, Dispatch
    <3> QED
      BY <3>2, <3>3
  <2>2. ToSet(rx \o buf) = Waiting
    BY <1>1, ConcatSet DEF TypeOK, Waiting
  <2>3. Out' = Out /\ Pending' = {k \in Items : k > arrived} /\ Pending' \subseteq Pending
    BY <1>2, <2>1 DEF Out, Pending
  <2>4. Pending' \cap Waiting = {} /\ Waiting \subseteq Pending
    BY <1>3, <2>3 DEF Pending
  <2>5. \A k \in Items : k \notin Waiting => fate'[k] = fate[k]
    BY <2>1, <2>2 DEF End
  <2>6. OutInv'
    <3>1. SUFFICES ASSUME Threads # {}
                   PROVE  Pending' \cap Out = {} /\ \A k \in Pending' \cup Out : fate'[k] \notin Lost
      BY <1>2, <2>3 DEF OutInv
    <3>2. \A k \in Pending' \cup Out : k \in Items /\ k \in Pending \cup Out /\ k \notin Waiting
      BY <2>3, <2>4, <3>1 DEF OutInv, Pending, Out
    <3> QED
      BY <2>3, <2>5, <3>1, <3>2 DEF OutInv
  <2>7. NotOvertaken'
    BY <2>1, Overtaking
  <2> QED
    BY <2>6, <2>7
<1>8. CASE Dispatch /\ Threads # {}
  <2>1. fate' = fate
    BY <1>1, <1>8, DispatchSets
  <2>2. PICK b \in Seq(Items) :
          /\ chan' = Append(chan, b)
          /\ Waiting' = Waiting \ ToSet(b) /\ ToSet(b) \subseteq ToSet(buf)
          /\ \A i \in Waiting', j \in ToSet(b) : i < j => ItemLens[i] # ItemLens[j]
    BY <1>1, <1>8, DispatchSets
  <2>3. ToSet(b) \subseteq Waiting /\ Waiting \subseteq Pending
    BY <1>3, <2>2 DEF Waiting, Pending
  <2>4. Pending' = Pending \ ToSet(b)
    BY <1>2, <1>3, <2>2, <2>3 DEF Pending
  <2>5. Out' \subseteq Out \cup ToSet(b)
    <3>1. chan \in Seq(Seq(Items))
      BY <1>1 DEF TypeOK
    <3>2. /\ DOMAIN chan' = 1 .. (Len(chan) + 1) /\ DOMAIN chan = 1 .. Len(chan) /\ Len(chan) \in Nat
          /\ chan'[Len(chan) + 1] = b /\ \A n \in 1 .. Len(chan) : chan'[n] = chan[n]
      BY <2>2, <3>1
    <3>3. \A n \in DOMAIN chan' : chan'[n] = b \/ (n \in DOMAIN chan /\ chan'[n] = chan[n])
      BY <3>2
    <3> QED
      BY <1>2, <3>3 DEF Out
  <2>6. OutInv'
    <3>1. Pending \cap Out = {} /\ \A k \in Pending \cup Out : fate[k] \notin Lost
      BY <1>8 DEF OutInv
    <3>2. Pending' \cap Out' = {}
      BY <2>4, <2>5, <3>1
    <3>3. \A k \in Pending' \cup Out' : fate'[k] \notin Lost
      BY <2>1, <2>3, <2>4, <2>5, <3>1
    <3> QED
      BY <3>2, <3>3 DEF OutInv
  <2>7. NotOvertaken'
    <3>1. SUFFICES ASSUME NEW i \in 1 .. arrived, NEW j \in 1 .. arrived,
                          i < j, ItemLens[i] = ItemLens[j], i \in Waiting'
                   PROVE  j \in Waiting' \/ fate'[j] \in Lost
      BY <1>2, Overtaking
    <3>2. j \in Waiting \/ fate[j] \in Lost
      BY <2>2, <3>1, Overtaking
    <3>3. j \notin ToSet(b)
      BY <2>2, <3>1
    <3> QED
      BY <2>1, <2>2, <3>2, <3>3
  <2> QED
    BY <2>6, <2>7
<1> QED
  BY <1>4, <1>5, <1>6, <1>7, <1>8 DEF Batcher, Stop, Dispatch

\* The other steps: an item arrives behind those that wait, or is refused once
\* nothing waits.
LEMMA OtherOrder ==
    ASSUME PoolInv, OrderInv, OutInv, NotOvertaken,
           \/ Hear \/ Arrive
           \/ \E i \in Items : Expire(i) \/ Extend(i) \/ Abandon(i)
           \/ UNCHANGED vars
    PROVE  OutInv' /\ NotOvertaken'
<1> USE DEF startup, items, bvars, slots, workers
<1>1. TypeOK
  BY DEF PoolInv
<1>2. wpc' = wpc /\ batch' = batch /\ chan' = chan /\ Threads' = Threads
  BY DEF Hear, Arrive, Expire, Extend, Abandon, Waiters, vars, Threads
<1>3. Out' = Out
  BY <1>2 DEF Out
<1>4. CASE ~Arrive
  <2>1. UNCHANGED <<rx, buf, arrived, fate>>
    BY <1>4 DEF Hear, Expire, Extend, Abandon, Waiters, vars
  <2> QED
    BY <1>1, <1>2, <1>3, <2>1, Quiet DEF Waiting
<1>5. CASE Arrive
  <2>1. /\ arrived' = arrived + 1 /\ buf' = buf /\ arrived \in Nat /\ arrived < MaxItems
        /\ rx \in Seq(Items) /\ Items \subseteq Nat
    BY <1>1, <1>5, PoolAssumption DEF Arrive, TypeOK, Items
  <2>2. arrived + 1 \in Items
    BY <2>1, PoolAssumption DEF Items
  <2>3. \A k \in Waiting : k <= arrived /\ k \in Items
    BY <1>1, ItemNumbers DEF OrderInv, Waiting, TypeOK
  <2>4. CASE rxOpen
    <3>1. rx' = Append(rx, arrived + 1) /\ fate' = fate
      BY <1>5, <2>4 DEF Arrive
    <3>2. Waiting' = Waiting \cup {arrived + 1}
      BY <2>1, <2>2, <3>1, AppendSet DEF Waiting
    <3>3. Pending' = Pending
      <4>1. \A k \in Items : k > arrived <=> k > arrived + 1 \/ k = arrived + 1
        BY <2>1
      <4> QED
        BY <2>1, <3>2, <4>1 DEF Pending
    <3>4. OutInv'
      BY <1>2, <1>3, <3>1, <3>3 DEF OutInv
    <3>5. NotOvertaken'
      <4>1. SUFFICES ASSUME NEW i \in 1 .. (arrived + 1), NEW j \in 1 .. (arrived + 1),
                            i < j, ItemLens[i] = ItemLens[j], i \in Waiting'
                     PROVE  j \in Waiting' \/ fate[j] \in Lost
        BY <2>1, <3>1, Overtaking
      <4>2. CASE j = arrived + 1
        BY <3>2, <4>2
      <4>3. CASE j # arrived + 1
        <5>1. i \in 1 .. arrived /\ j \in 1 .. arrived /\ i # arrived + 1
          BY <2>1, <4>1, <4>3
        <5>2. i \in Waiting
          BY <3>2, <4>1, <5>1
        <5>3. j \in Waiting \/ fate[j] \in Lost
          BY <4>1, <5>1, <5>2, Overtaking
        <5> QED
          BY <3>2, <5>3
      <4> QED
        BY <4>2, <4>3
    <3> QED
      BY <3>4, <3>5
  <2>5. CASE ~rxOpen
    <3>1. rx' = rx /\ End(<<arrived + 1>>, "refused")
      BY <1>5, <2>5 DEF Arrive
    <3>2. Waiting = {} /\ Waiting' = {}
      BY <2>1, <2>5, <3>1, EmptyOrder DEF OrderInv, Waiting
    <3>3. \A k \in Items : fate'[k] = fate[k] \/ fate'[k] = "refused"
      BY <3>1 DEF End
    <3>4. Pending' \subseteq Pending /\ Pending \subseteq Items /\ Out \subseteq Items
      <4>1. \A k \in Items : k > arrived + 1 => k > arrived
        BY <2>1
      <4> QED
        BY <2>1, <3>2, <4>1 DEF Pending, Out
    <3>5. OutInv'
      <4>1. SUFFICES ASSUME Threads # {}
                     PROVE  Pending' \cap Out = {} /\ \A k \in Pending' \cup Out : fate'[k] \notin Lost
        BY <1>2, <1>3 DEF OutInv
      <4>2. Pending \cap Out = {} /\ \A k \in Pending \cup Out : fate[k] \notin Lost
        BY <4>1 DEF OutInv
      <4> QED
        BY <3>3, <3>4, <4>2 DEF Lost
    <3>6. NotOvertaken'
      BY <3>2, Overtaking
    <3> QED
      BY <3>5, <3>6
  <2> QED
    BY <2>4, <2>5
<1> QED
  BY <1>4, <1>5

\* An item that still waits is never overtaken by a later one of its length.
THEOREM NotOvertakenThm == Spec => []NotOvertaken
<1>1. Init => OrderInv /\ OutInv /\ NotOvertaken
  <2> SUFFICES ASSUME Init PROVE OrderInv /\ OutInv /\ NotOvertaken
    OBVIOUS
  <2>1. rx = <<>> /\ buf = <<>> /\ chan = <<>> /\ arrived = 0
    BY DEF Init
  <2>2. Waiting = {}
    BY <2>1, EmptyOrder DEF Waiting
  <2>3. OrderInv
    BY <2>1, <2>2, EmptyOrder DEF OrderInv
  <2>4. NotOvertaken
    BY <2>2, Overtaking
  <2>5. Out = {} /\ \A k \in Items : fate[k] = "open"
    BY DEF Init, Out
  <2>6. OutInv
    BY <2>5 DEF OutInv, Pending, Lost
  <2> QED
    BY <2>3, <2>4, <2>6
<1>2. PoolInv /\ OrderInv /\ [Next]_vars => OrderInv'
  BY OrderStep
<1>3. PoolInv /\ OrderInv /\ OutInv /\ NotOvertaken /\ [Next]_vars => OutInv' /\ NotOvertaken'
  <2> SUFFICES ASSUME PoolInv, OrderInv, OutInv, NotOvertaken, [Next]_vars
               PROVE  OutInv' /\ NotOvertaken'
    OBVIOUS
  <2>1. CASE Batcher
    BY <2>1, BatcherOrder
  <2>2. CASE \E w \in Workers : Worker(w)
    <3>1. PICK w \in Workers : Worker(w)
      BY <2>2
    <3> QED
      BY <3>1, WorkerOrder DEF PoolInv
  <2>3. CASE Hear \/ Arrive \/ (\E i \in Items : Expire(i) \/ Extend(i) \/ Abandon(i)) \/ UNCHANGED vars
    BY <2>3, OtherOrder
  <2> QED
    BY <2>1, <2>2, <2>3 DEF Next
<1> QED
  BY <1>1, <1>2, <1>3, PoolInvariant, PTL DEF Spec
=============================================================================
