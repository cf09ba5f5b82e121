-------------------------- MODULE IdempotencyProofs --------------------------
(***************************************************************************)
(* Proofs about Idempotency, for every set of requests and instances.      *)
(*                                                                         *)
(* Whatever the timeouts, a request that is still to finish has its record *)
(* for pending_ttl after it was set, unless a SET later than that has been *)
(* in the same store: what the SET of finish meets in time is its own.     *)
(*                                                                         *)
(* Under Prompt, and without evictions, the record outlives the request,   *)
(* the command it finishes with and that command's delay, so that no other *)
(* request can be told to proceed in the meantime.                         *)
(***************************************************************************)
EXTENDS IdempotencyLeases, TLAPS

\* A request under begin's timeout has no more than the whole of it.
BeginInv == \A r \in Requests : pc[r] \in Beginning => left[r] <= RequestTimeout

\* A request that runs has its record in a store.
GuardInv == \A r \in Requests : pc[r] = "run" => guard[r] \in Stores

TypeInv == TypeOK /\ BeginInv /\ GuardInv

\* A running request's record outlasts it by Slack, less the redis_timeout
\* its cache lookup may add.
RunInv ==
    \A r \in Requests : pc[r] = "run" =>
        /\ guard[r] \in Stores
        /\ Holds(r, guard[r], left[r] + Slack - RedisTimeout - 1)

\* A request that awaits its last command still has its record, for as long as
\* the command can be on its way.
FinishInv ==
    \A r \in Requests : pc[r] \in Finishing =>
        /\ guard[r] = Redis
        /\ Holds(r, Redis, left[r] + Delay)

\* So has a request that abandoned it; there is one such command per request.
LateInv ==
    \A c \in late : c.op \in Finishing =>
        /\ Holds(c.owner, Redis, c.fuse)
        /\ pc[c.owner] \in Ends
        /\ \A d \in late : (d.op \in Finishing /\ d.owner = c.owner) => d = c

RecordInv == RunInv /\ FinishInv /\ LateInv

-----------------------------------------------------------------------------
\* What an existing record tells a request is a verdict.
LEMMA ExistingVerdict ==
    ASSUME NEW rec, NEW r PROVE Existing(rec, r) \in Verdicts
  BY DEF Existing, Verdicts

\* The commands and the clock map records to records.
LEMMA RecordTypes ==
    ASSUME NEW rec \in Records, NEW r \in Requests
    PROVE  /\ SetNx(rec, r) \in Records
           /\ Release(rec, r) \in Records
           /\ Aged(rec) \in Records
           /\ Done(r) \in Records
           /\ Empty \in Records
           /\ \A op \in {"set"} \cup Finishing : After(op, rec, r) \in Records
<1>1. SetNx(rec, r) \in Records /\ Release(rec, r) \in Records
      /\ Done(r) \in Records /\ Empty \in Records
  BY IdempotencyAssumption DEF SetNx, Release, Pending, PendingTtl, Done, Empty, Records, Kinds
<1>2. Aged(rec) \in Records
  BY <1>1 DEF Aged, Records
<1>3. \A op \in {"set"} \cup Finishing : After(op, rec, r) \in Records
  BY <1>1 DEF After, Finishing
<1> QED BY <1>1, <1>2, <1>3

\* The clock maps records to records.
LEMMA AgedType == ASSUME NEW rec \in Records PROVE Aged(rec) \in Records
  BY DEF Aged, Records, Empty, Kinds

\* The types, at the start...
LEMMA TypeInvInit == Init => TypeInv
  BY IdempotencyAssumption DEF Init, TypeInv, TypeOK, BeginInv, GuardInv, Empty, Records, Kinds,
     Commands, Beginning

\* ... and after each step.
LEMMA TypeInvStep == TypeInv /\ [Next]_vars => TypeInv'
<1> SUFFICES ASSUME TypeInv, [Next]_vars PROVE TypeInv'
  OBVIOUS
<1> USE DEF TypeInv, TypeOK, BeginInv, GuardInv
<1>1. ASSUME NEW r \in Requests, Start(r) PROVE TypeInv'
  BY <1>1, IdempotencyAssumption DEF Start, Goto, Beginning
<1>2. ASSUME NEW r \in Requests, NEW s \in Stores, pc[r] \in Beginning, Proceed(r, s)
      PROVE  TypeInv'
  <2>1. SetNx(store[s], r) \in Records
    BY RecordTypes
  <2>2. left[r] + RedisTimeout \in 0 .. (RequestTimeout + RedisTimeout)
    BY <1>2, IdempotencyAssumption
  <2> QED BY <1>2, <2>1, <2>2 DEF Proceed, Goto, Beginning
<1>3. ASSUME NEW r \in Requests, ExecSet(r) PROVE TypeInv'
  <2>1. Redis \in Stores /\ pc[r] \in Beginning
    BY <1>3 DEF Stores, ExecSet, Beginning
  <2>2. CASE Proceed(r, Redis)
    BY <1>2, <2>1, <2>2
  <2>3. CASE Goto(r, "get") /\ UNCHANGED <<store, late, left, tries, read, guard, age, overdue>>
    BY <2>1, <2>3 DEF Goto, Beginning
  <2> QED BY <1>3, <2>2, <2>3 DEF ExecSet
<1>4. ASSUME NEW r \in Requests, ExecGet(r) PROVE TypeInv'
  BY <1>4 DEF ExecGet, Goto, Beginning, Stores
<1>5. ASSUME NEW r \in Requests, ExecPttl(r) PROVE TypeInv'
  BY <1>5, ExistingVerdict, IdempotencyAssumption DEF ExecPttl, Goto, Beginning, Ends, Verdicts
<1>6. ASSUME NEW r \in Requests, Local(r) PROVE TypeInv'
  <2> DEFINE i == InstanceOf[r]
  <2>1. i \in Stores /\ pc[r] \in Beginning
    BY <1>6, IdempotencyAssumption DEF Stores, Local, Beginning
  <2>2. CASE Proceed(r, i)
    BY <1>2, <2>1, <2>2
  <2>3. CASE /\ Goto(r, Existing(store[i], r))
             /\ read' = [read EXCEPT ![r] = store[i]]
             /\ UNCHANGED <<store, late, left, tries, guard, age, overdue>>
    BY <2>1, <2>3, ExistingVerdict DEF Goto, Beginning, Ends, Verdicts
  <2> QED BY <1>6, <2>2, <2>3 DEF Local
<1>7. ASSUME NEW r \in Requests, Finish(r) PROVE TypeInv'
  <2>1. PICK stored \in BOOLEAN :
          LET op == IF stored THEN "put" ELSE "release" IN
          IF guard[r] = Redis
          THEN Goto(r, op) /\ left' = [left EXCEPT ![r] = RedisTimeout] /\ UNCHANGED store
          ELSE /\ Goto(r, IF stored THEN "stored" ELSE "released")
               /\ store' = [store EXCEPT ![guard[r]] = After(op, @, r)]
               /\ UNCHANGED left
    BY <1>7 DEF Finish
  <2> DEFINE op == IF stored THEN "put" ELSE "release"
  <2>2. UNCHANGED <<late, tries, read, guard, age>> /\ pc[r] = "run" /\ guard[r] \in Stores
    BY <1>7 DEF Finish
  <2>7. overdue' \subseteq Stores
    BY <1>7, <2>2 DEF Finish, FinishedLate
  <2>3. store' \in [Stores -> Records]
    <3>1. CASE guard[r] = Redis
      BY <2>1, <3>1
    <3>2. CASE guard[r] # Redis
      <4>1. op \in {"set"} \cup Finishing
        BY DEF Finishing
      <4>2. \A s \in Stores : After(op, store[s], r) \in Records
        BY <4>1, RecordTypes
      <4> QED BY <2>1, <3>2, <4>2
    <3> QED BY <3>1, <3>2
  <2>4. left' \in [Requests -> 0 .. (RequestTimeout + RedisTimeout)]
    BY <2>1, IdempotencyAssumption
  <2>5. pc' \in [Requests -> {"idle", "run"} \cup Beginning \cup Finishing \cup Ends]
        /\ \A q \in Requests : pc'[q] \in Beginning \cup {"run"} => q # r /\ pc'[q] = pc[q]
    BY <2>1, <2>2 DEF Goto, Finishing, Ends, Beginning
  <2>6. \A q \in Requests : q # r => left'[q] = left[q]
    BY <2>1
  <2> QED BY <2>2, <2>3, <2>4, <2>5, <2>6, <2>7
<1>8. ASSUME NEW r \in Requests, ExecFinish(r) PROVE TypeInv'
  <2>1. \A s \in Stores : After(pc[r], store[s], r) \in Records
    BY <1>8, RecordTypes DEF ExecFinish, Finishing
  <2> QED BY <1>8, <2>1 DEF ExecFinish, FinishedLate, Stores, Goto, Finishing, Ends, Beginning
<1>9. ASSUME NEW r \in Requests, Abandon(r) PROVE late' \subseteq Commands
  BY <1>9, IdempotencyAssumption DEF Abandon, Commands, Finishing
<1>10. ASSUME NEW r \in Requests, GiveUp(r) \/ DeadlineHit(r) \/ Leave(r) PROVE TypeInv'
  <2>1. late' \subseteq Commands
    BY <1>9, <1>10 DEF GiveUp, DeadlineHit, Leave
  <2> QED BY <1>10, <2>1 DEF GiveUp, DeadlineHit, Leave, Goto, Beginning, Ends
<1>11. ASSUME NEW c \in late, ExecLate(c) \/ Lose(c) PROVE TypeInv'
  <2>1. \A s \in Stores : After(c.op, store[s], c.owner) \in Records
    BY RecordTypes DEF Commands
  <2> QED BY <1>11, <2>1 DEF ExecLate, FinishedLate, Stores, Lose
<1>12. ASSUME NEW i \in Instances, Evict(i) PROVE TypeInv'
  BY <1>12 DEF Evict, Empty, Records, Kinds
<1>13. ASSUME Tick PROVE TypeInv'
  <2>1. store' \in [Stores -> Records]
    <3>1. \A s \in Stores : Aged(store[s]) \in Records
      BY AgedType
    <3> QED BY <1>13, <3>1 DEF Tick
  <2>2. left' \in [Requests -> 0 .. (RequestTimeout + RedisTimeout)]
        /\ \A r \in Requests : left[r] <= RequestTimeout => left'[r] <= RequestTimeout
    BY <1>13, IdempotencyAssumption DEF Tick, Timed
  <2>3. late' \subseteq Commands
    BY <1>13, IdempotencyAssumption DEF Tick, Commands
  <2> QED BY <1>13, <2>1, <2>2, <2>3 DEF Tick
<1>14. ASSUME UNCHANGED vars PROVE TypeInv'
  BY <1>14 DEF vars
<1> QED
  BY <1>1, <1>3, <1>4, <1>5, <1>6, <1>7, <1>8, <1>10, <1>11, <1>12, <1>13, <1>14
     DEF Next, Request

\* The types are kept by every behaviour.
LEMMA TypesKept == Spec => []TypeInv
  BY TypeInvInit, TypeInvStep, PTL DEF Spec

\* Every variable keeps its type, whatever is evicted, lost or late.
THEOREM TypeCorrect == Spec => []TypeOK
<1>1. TypeInv => TypeOK
  BY DEF TypeInv
<1> QED BY <1>1, TypesKept, PTL

-----------------------------------------------------------------------------
\* At the start nobody runs, so nobody relies on a record.
LEMMA RecordInvInit == Init => RecordInv
  BY DEF Init, RecordInv, RunInv, FinishInv, LateInv, Finishing

\* A request that has no command under way and gets no record changes nothing.
LEMMA QuietStep ==
    ASSUME RecordInv, NEW r \in Requests, pc[r] \notin Ends,
           UNCHANGED <<store, late, guard>>,
           \A q \in Requests : q # r => pc'[q] = pc[q] /\ left'[q] = left[q],
           pc'[r] \notin {"run"} \cup Finishing,
           late \subseteq Commands
    PROVE  RecordInv'
<1>1. RunInv'
  BY DEF RecordInv, RunInv, Holds
<1>2. FinishInv'
  BY DEF RecordInv, FinishInv, Holds, Finishing
<1>3. LateInv'
  BY DEF RecordInv, LateInv, Holds, Finishing, Commands
<1> QED BY <1>1, <1>2, <1>3 DEF RecordInv

\* A request told to proceed finds no record in s, so nobody has one there.
LEMMA ProceedStep ==
    ASSUME Prompt, TypeInv, RecordInv, NEW r \in Requests, NEW s \in Stores,
           pc[r] \in Beginning, Fresh(store[s], r), Proceed(r, s)
    PROVE  RecordInv'
<1> USE DEF TypeInv, TypeOK, BeginInv
<1>1. /\ store'[s] = Pending(r)
      /\ \A t \in Stores : t # s => store'[t] = store[t]
      /\ guard' = [guard EXCEPT ![r] = s]
      /\ left' = [left EXCEPT ![r] = @ + RedisTimeout]
      /\ pc' = [pc EXCEPT ![r] = "run"]
      /\ late' = late
  BY DEF Proceed, Fresh, Goto
<1>2. \A q \in Requests : q # r => \A n \in Int : ~Holds(q, s, n)
  BY DEF Fresh, SetNx, Pending, Holds
<1>3. left[r] \in Nat /\ left[r] <= RequestTimeout
  BY IdempotencyAssumption
<1>6. RunInv'
  <2> SUFFICES ASSUME NEW q \in Requests, pc'[q] = "run"
               PROVE  guard'[q] \in Stores /\ Holds(q, guard[q], left[q] + Slack - RedisTimeout - 1)'
    BY DEF RunInv
  <2>1. CASE q = r
    <3>1. left'[r] + Slack - RedisTimeout - 1 = left[r] + Slack - 1
      BY <1>1, <1>3, IdempotencyAssumption
    <3> QED BY <1>1, <1>3, <2>1, <3>1, IdempotencyAssumption DEF Holds, Pending, PendingTtl
  <2>2. CASE q # r
    <3>1. guard[q] \in Stores /\ Holds(q, guard[q], left[q] + Slack - RedisTimeout - 1)
      BY <1>1, <2>2 DEF RecordInv, RunInv
    <3>2. guard[q] # s
      BY <1>2, <2>2, <3>1, IdempotencyAssumption
    <3> QED BY <1>1, <2>2, <3>1, <3>2 DEF Holds
  <2> QED BY <2>1, <2>2
<1>7. FinishInv'
  <2> SUFFICES ASSUME NEW q \in Requests, pc'[q] \in Finishing
               PROVE  guard'[q] = Redis /\ Holds(q, Redis, left[q] + Delay)'
    BY DEF FinishInv
  <2>1. q # r /\ pc[q] \in Finishing
    BY <1>1 DEF Finishing
  <2>2. guard[q] = Redis /\ Holds(q, Redis, left[q] + Delay)
    BY <2>1 DEF RecordInv, FinishInv
  <2>3. s # Redis
    BY <1>2, <2>1, <2>2, IdempotencyAssumption
  <2> QED BY <1>1, <2>1, <2>2, <2>3 DEF Holds, Stores
<1>8. LateInv'
  <2> SUFFICES ASSUME NEW c \in late, c.op \in Finishing
               PROVE  /\ Holds(c.owner, Redis, c.fuse)'
                      /\ pc'[c.owner] \in Ends
                      /\ \A d \in late : (d.op \in Finishing /\ d.owner = c.owner) => d = c
    BY <1>1 DEF LateInv
  <2>1. Holds(c.owner, Redis, c.fuse) /\ pc[c.owner] \in Ends
        /\ \A d \in late : (d.op \in Finishing /\ d.owner = c.owner) => d = c
    BY DEF RecordInv, LateInv
  <2>2. c.owner \in Requests /\ c.fuse \in Int /\ c.owner # r
    BY <2>1, IdempotencyAssumption DEF Commands, Ends, Verdicts, Beginning
  <2>3. s # Redis
    BY <1>2, <2>1, <2>2
  <2> QED BY <1>1, <2>1, <2>2, <2>3 DEF Holds, Stores
<1> QED BY <1>6, <1>7, <1>8 DEF RecordInv

\* A request that gives up hands the record it still has to its last command.
LEMMA AbandonStep ==
    ASSUME TypeInv, RecordInv, NEW r \in Requests, Abandon(r),
           pc[r] \in Beginning \cup {"run"} \cup Finishing,
           NEW label, pc' = [pc EXCEPT ![r] = label],
           label \in Ends \/ (label = "local" /\ pc[r] \in Beginning),
           UNCHANGED <<store, left, guard>>
    PROVE  RecordInv'
<1> USE DEF TypeInv, TypeOK, BeginInv
<1>1. label \notin {"run"} \cup Finishing
  BY DEF Ends, Verdicts, Finishing
<1>2. pc'[r] = label /\ \A q \in Requests : q # r => pc'[q] = pc[q]
  OBVIOUS
<1>3. RunInv'
  BY <1>1, <1>2 DEF RecordInv, RunInv, Holds
<1>4. FinishInv'
  BY <1>1, <1>2 DEF RecordInv, FinishInv, Holds
<1>5. pc[r] \notin Ends
  BY DEF Ends, Verdicts, Beginning, Finishing
<1>6. LateInv'
  <2> DEFINE mine == [op |-> pc[r], owner |-> r, fuse |-> Delay]
  <2>1. \A c \in late' : c.op \in Finishing => c \in late \/ (c = mine /\ pc[r] \in Finishing)
    BY DEF Abandon, Finishing
  <2>2. \A c \in late : c.op \in Finishing => c.owner # r
    BY <1>5 DEF RecordInv, LateInv
  <2>3. ASSUME NEW c \in late, c.op \in Finishing
        PROVE  /\ Holds(c.owner, Redis, c.fuse)' /\ pc'[c.owner] \in Ends
               /\ \A d \in late' : (d.op \in Finishing /\ d.owner = c.owner) => d = c
    <3>1. Holds(c.owner, Redis, c.fuse) /\ pc[c.owner] \in Ends
          /\ \A d \in late : (d.op \in Finishing /\ d.owner = c.owner) => d = c
      BY <2>3 DEF RecordInv, LateInv
    <3>2. c.owner \in Requests /\ c.owner # r
      BY <2>2, <2>3 DEF Commands
    <3>3. \A d \in late' : (d.op \in Finishing /\ d.owner = c.owner) => d \in late
      BY <2>1, <3>2
    <3> QED BY <1>2, <3>1, <3>2, <3>3 DEF Holds
  <2>4. ASSUME pc[r] \in Finishing
        PROVE  /\ Holds(r, Redis, Delay)' /\ pc'[r] \in Ends
               /\ \A d \in late' : (d.op \in Finishing /\ d.owner = r) => d = mine
    <3>1. Holds(r, Redis, left[r] + Delay)
      BY <2>4 DEF RecordInv, FinishInv
    <3>2. label \in Ends
      BY <2>4 DEF Finishing, Beginning
    <3>3. store[Redis].ttl \in Nat /\ left[r] \in Nat
      BY IdempotencyAssumption DEF Stores, Records
    <3>4. Holds(r, Redis, Delay)'
      BY <3>1, <3>3, IdempotencyAssumption DEF Holds
    <3> QED BY <1>2, <2>1, <2>2, <3>2, <3>4
  <2> QED BY <2>1, <2>3, <2>4 DEF LateInv
<1> QED BY <1>3, <1>4, <1>6 DEF RecordInv

\* A finished request changes only its own record; nobody else relies on it.
LEMMA OwnStep ==
    ASSUME TypeInv, RecordInv, NEW r \in Requests, NEW s \in Stores, NEW rec,
           store[s].kind = "pending", store[s].owner = r,
           store' = [store EXCEPT ![s] = rec],
           \A q \in Requests : q # r => pc'[q] = pc[q],
           pc'[r] \in Ends,
           late' \subseteq late,
           \A c \in late' : c.op \in Finishing => c.owner # r,
           UNCHANGED <<left, guard>>
    PROVE  RecordInv'
<1> USE DEF TypeInv, TypeOK, BeginInv
<1>1. pc'[r] \notin {"run"} \cup Finishing
  BY DEF Ends, Verdicts, Finishing
<1>2. \A q \in Requests : q # r => \A n : ~Holds(q, s, n)
  BY DEF Holds
<1>3. \A t \in Stores : t # s => store'[t] = store[t]
  OBVIOUS
<1>4. Redis \in Stores
  BY DEF Stores
<1>5. RunInv'
  BY <1>1, <1>2, <1>3 DEF RecordInv, RunInv, Holds
<1>6. FinishInv'
  BY <1>1, <1>2, <1>3, <1>4 DEF RecordInv, FinishInv, Holds
<1>7. LateInv'
  <2> SUFFICES ASSUME NEW c \in late', c.op \in Finishing
               PROVE  /\ Holds(c.owner, Redis, c.fuse)'
                      /\ pc'[c.owner] \in Ends
                      /\ \A d \in late' : (d.op \in Finishing /\ d.owner = c.owner) => d = c
    BY DEF LateInv
  <2>1. Holds(c.owner, Redis, c.fuse) /\ pc[c.owner] \in Ends
        /\ \A d \in late : (d.op \in Finishing /\ d.owner = c.owner) => d = c
    BY DEF RecordInv, LateInv
  <2>2. c.owner \in Requests /\ c.owner # r
    BY DEF Commands
  <2>3. s # Redis
    BY <1>2, <2>1, <2>2
  <2> QED BY <1>3, <1>4, <2>1, <2>2, <2>3 DEF Holds
<1> QED BY <1>5, <1>6, <1>7 DEF RecordInv

\* A late SET NX writes only where nobody has a record.
LEMMA LateSetStep ==
    ASSUME TypeInv, RecordInv, NEW r \in Requests,
           store' = [store EXCEPT ![Redis] = SetNx(@, r)],
           late' \subseteq late, UNCHANGED <<pc, left, guard>>
    PROVE  RecordInv'
<1> USE DEF TypeInv, TypeOK, BeginInv
<1>1. \A s \in Stores : store[s].kind = "pending" => store'[s] = store[s]
  BY DEF SetNx
<1>2. Redis \in Stores
  BY DEF Stores
<1>3. RunInv'
  BY <1>1 DEF RecordInv, RunInv, Holds
<1>4. FinishInv'
  BY <1>1, <1>2 DEF RecordInv, FinishInv, Holds
<1>5. LateInv'
  BY <1>1, <1>2 DEF RecordInv, LateInv, Holds
<1> QED BY <1>3, <1>4, <1>5 DEF RecordInv

\* Time takes as much from a record as from what relies on it.
LEMMA TickStep == ASSUME Prompt PROVE TypeInv /\ RecordInv /\ Tick => RecordInv'
<1> SUFFICES ASSUME TypeInv, RecordInv, Tick PROVE RecordInv'
  OBVIOUS
<1> USE DEF TypeInv, TypeOK, BeginInv
<1>1. ASSUME NEW q \in Requests, NEW s \in Stores, NEW n \in Nat, n > 0, Holds(q, s, n)
      PROVE  store'[s].kind = "pending" /\ store'[s].owner = q /\ store'[s].ttl > n - 1
  <2>1. store[s].ttl \in Nat /\ store[s].ttl > 1
    BY <1>1 DEF Holds, Records
  <2>2. store'[s] = [store[s] EXCEPT !.ttl = @ - 1]
    BY <2>1 DEF Tick, Aged
  <2>3. store'[s].kind = store[s].kind /\ store'[s].owner = store[s].owner
        /\ store'[s].ttl = store[s].ttl - 1
    BY <2>2 DEF Records
  <2> QED BY <1>1, <2>1, <2>3 DEF Holds
<1>2. ASSUME NEW q \in Requests, pc[q] \in Timed
      PROVE  left[q] \in Nat /\ left[q] > 0 /\ left'[q] = left[q] - 1
  BY <1>2, IdempotencyAssumption DEF Tick
<1>3. pc' = pc /\ guard' = guard
  BY DEF Tick
<1>4. RunInv'
  <2> SUFFICES ASSUME NEW q \in Requests, pc[q] = "run"
               PROVE  guard[q] \in Stores /\ Holds(q, guard[q], left[q] + Slack - RedisTimeout - 1)'
    BY <1>3 DEF RunInv, Holds
  <2> DEFINE n == left[q] + Slack - RedisTimeout - 1
  <2>1. guard[q] \in Stores /\ Holds(q, guard[q], n)
    BY DEF RecordInv, RunInv
  <2>2. left[q] \in Nat /\ left[q] > 0 /\ left'[q] = left[q] - 1
    BY <1>2 DEF Timed
  <2>3. n \in Nat /\ n > 0
    BY <2>2, IdempotencyAssumption DEF Prompt
  <2>4. /\ store'[guard[q]].kind = "pending" /\ store'[guard[q]].owner = q
        /\ store'[guard[q]].ttl > n - 1
    BY <1>1, <1>3, <2>1, <2>3
  <2>5. n - 1 = left'[q] + Slack - RedisTimeout - 1 /\ guard'[q] = guard[q]
    BY <1>3, <2>2, IdempotencyAssumption
  <2> HIDE DEF n
  <2> QED BY <2>1, <2>4, <2>5 DEF Holds
<1>5. FinishInv'
  <2> SUFFICES ASSUME NEW q \in Requests, pc[q] \in Finishing
               PROVE  guard[q] = Redis /\ Holds(q, Redis, left[q] + Delay)'
    BY <1>3 DEF FinishInv, Holds
  <2> DEFINE n == left[q] + Delay
  <2>1. guard[q] = Redis /\ Holds(q, Redis, n)
    BY DEF RecordInv, FinishInv
  <2>2. left[q] \in Nat /\ left[q] > 0 /\ left'[q] = left[q] - 1
    BY <1>2 DEF Timed
  <2>3. n \in Nat /\ n > 0 /\ n - 1 = left'[q] + Delay
    BY <2>2, IdempotencyAssumption
  <2>4. Redis \in Stores
    BY DEF Stores
  <2>5. /\ store'[Redis].kind = "pending" /\ store'[Redis].owner = q
        /\ store'[Redis].ttl > n - 1
    BY <1>1, <2>1, <2>3, <2>4
  <2>6. guard'[q] = Redis /\ left'[q] + Delay = n - 1
    BY <1>3, <2>1, <2>3
  <2> HIDE DEF n
  <2> QED BY <2>1, <2>5, <2>6 DEF Holds
<1>6. LateInv'
  <2> DEFINE older(c) == [c EXCEPT !.fuse = @ - 1]
  <2>1. late' = {older(c) : c \in late}
    BY DEF Tick
  <2>2. ASSUME NEW c \in late
        PROVE  older(c).op = c.op /\ older(c).owner = c.owner /\ older(c).fuse = c.fuse - 1
    BY DEF Commands
  <2>3. ASSUME NEW c \in late, c.op \in Finishing
        PROVE  /\ Holds(c.owner, Redis, c.fuse - 1)' /\ pc'[c.owner] \in Ends
               /\ \A d \in late : (d.op \in Finishing /\ d.owner = c.owner) => d = c
    <3>1. Holds(c.owner, Redis, c.fuse) /\ pc[c.owner] \in Ends
          /\ \A d \in late : (d.op \in Finishing /\ d.owner = c.owner) => d = c
      BY <2>3 DEF RecordInv, LateInv
    <3>2. c.fuse \in Nat /\ c.fuse > 0 /\ c.owner \in Requests /\ Redis \in Stores
      BY IdempotencyAssumption DEF Tick, Commands, Stores
    <3> HIDE DEF older
    <3> QED BY <1>1, <1>3, <3>1, <3>2 DEF Holds
  <2> SUFFICES ASSUME NEW c \in late, c.op \in Finishing
               PROVE  /\ Holds(c.owner, Redis, c.fuse - 1)'
                      /\ pc'[c.owner] \in Ends
                      /\ \A d \in late : (d.op \in Finishing /\ d.owner = c.owner) => older(d) = older(c)
    <3> HIDE DEF older
    <3> QED BY <2>1, <2>2 DEF LateInv, Holds
  <2> QED BY <2>3
<1> QED BY <1>4, <1>5, <1>6 DEF RecordInv

\* Without evictions every step keeps the records that are relied on.
LEMMA RecordInvStep ==
    ASSUME ~LocalEvicts, Prompt PROVE TypeInv /\ RecordInv /\ [Next]_vars => RecordInv'
<1> SUFFICES ASSUME TypeInv, RecordInv, [Next]_vars PROVE RecordInv'
  OBVIOUS
<1> USE DEF TypeInv, TypeOK
<1>1. Redis \in Stores /\ late \subseteq Commands
  BY DEF Stores
<1>2. ASSUME NEW r \in Requests, pc[r] \in {"idle"} \cup Beginning PROVE pc[r] \notin Ends
  BY <1>2 DEF Ends, Verdicts, Beginning
<1>3. \A v \in Verdicts : v \notin {"run"} \cup Finishing
  BY DEF Verdicts, Finishing
<1>4. ASSUME NEW r \in Requests, Start(r) PROVE RecordInv'
  BY <1>1, <1>2, <1>4, QuietStep DEF Start, Goto, Finishing
<1>5. ASSUME NEW r \in Requests, ExecSet(r) PROVE RecordInv'
  <2>1. pc[r] \in Beginning
    BY <1>5 DEF ExecSet, Beginning
  <2>2. CASE Fresh(store[Redis], r) /\ Proceed(r, Redis)
    BY <1>1, <2>1, <2>2, ProceedStep
  <2>3. CASE Goto(r, "get") /\ UNCHANGED <<store, late, left, tries, read, guard, age, overdue>>
    BY <1>1, <1>2, <2>1, <2>3, QuietStep DEF Goto, Finishing
  <2> QED BY <1>5, <2>2, <2>3 DEF ExecSet
<1>6. ASSUME NEW r \in Requests, ExecGet(r) PROVE RecordInv'
  BY <1>1, <1>2, <1>6, QuietStep DEF ExecGet, Goto, Beginning, Finishing
<1>7. ASSUME NEW r \in Requests, ExecPttl(r) PROVE RecordInv'
  <2>1. pc[r] \in Beginning
    BY <1>7 DEF ExecPttl, Beginning
  <2>2. pc'[r] \notin {"run"} \cup Finishing
    BY <1>3, <1>7, ExistingVerdict DEF ExecPttl, Goto, Finishing
  <2> QED BY <1>1, <1>2, <1>7, <2>1, <2>2, QuietStep DEF ExecPttl, Goto
<1>8. ASSUME NEW r \in Requests, Local(r) PROVE RecordInv'
  <2> DEFINE i == InstanceOf[r]
  <2>1. pc[r] \in Beginning /\ i \in Stores
    BY <1>8, IdempotencyAssumption DEF Local, Beginning, Stores
  <2>2. CASE Fresh(store[i], r) /\ Proceed(r, i)
    BY <2>1, <2>2, ProceedStep
  <2>3. CASE Goto(r, Existing(store[i], r)) /\ UNCHANGED <<store, late, left, tries, guard, age, overdue>>
    <3>1. pc'[r] \notin {"run"} \cup Finishing
      BY <1>3, <2>3, ExistingVerdict DEF Goto
    <3> QED BY <1>1, <1>2, <2>1, <2>3, <3>1, QuietStep DEF Goto
  <2> QED BY <1>8, <2>2, <2>3 DEF Local
<1>9. ASSUME NEW r \in Requests, Finish(r) PROVE RecordInv'
  <2>1. PICK stored \in BOOLEAN :
          LET op == IF stored THEN "put" ELSE "release" IN
          IF guard[r] = Redis
          THEN Goto(r, op) /\ left' = [left EXCEPT ![r] = RedisTimeout] /\ UNCHANGED store
          ELSE /\ Goto(r, IF stored THEN "stored" ELSE "released")
               /\ store' = [store EXCEPT ![guard[r]] = After(op, @, r)]
               /\ UNCHANGED left
    BY <1>9 DEF Finish
  <2>2. UNCHANGED <<late, guard>> /\ pc[r] = "run"
    BY <1>9 DEF Finish
  <2>3. guard[r] \in Stores /\ Holds(r, guard[r], left[r] + Slack - RedisTimeout - 1)
    BY <2>2 DEF RecordInv, RunInv
  <2>4. \A c \in late : c.op \in Finishing => c.owner # r
    BY <2>2 DEF RecordInv, LateInv, Ends, Verdicts
  <2>5. CASE guard[r] = Redis
    <3>1. pc'[r] \in Finishing /\ left'[r] = RedisTimeout /\ UNCHANGED store
          /\ \A q \in Requests : q # r => pc'[q] = pc[q] /\ left'[q] = left[q]
      BY <2>1, <2>5 DEF Goto, Finishing
    <3>2. Holds(r, Redis, RedisTimeout + Delay)
      <4>1. left[r] \in Nat /\ store[Redis].ttl \in Nat
        BY <1>1, IdempotencyAssumption DEF Records
      <4> QED BY <2>3, <2>5, <4>1, IdempotencyAssumption DEF Holds, Prompt
    <3>3. RunInv'
      BY <2>2, <3>1 DEF RecordInv, RunInv, Holds, Finishing
    <3>4. FinishInv'
      BY <2>2, <2>5, <3>1, <3>2 DEF RecordInv, FinishInv, Holds
    <3>5. LateInv'
      BY <1>1, <2>2, <2>4, <3>1 DEF RecordInv, LateInv, Holds, Commands
    <3> QED BY <3>3, <3>4, <3>5 DEF RecordInv
  <2>6. CASE guard[r] # Redis
    <3> DEFINE rec == After(IF stored THEN "put" ELSE "release", store[guard[r]], r)
    <3>1. store' = [store EXCEPT ![guard[r]] = rec] /\ UNCHANGED left
          /\ pc'[r] \in Ends /\ \A q \in Requests : q # r => pc'[q] = pc[q]
      BY <2>1, <2>6 DEF Goto, Ends
    <3> HIDE DEF rec
    <3> QED BY <2>2, <2>3, <2>4, <3>1, OwnStep DEF Holds
  <2> QED BY <2>5, <2>6
<1>10. ASSUME NEW r \in Requests, ExecFinish(r) PROVE RecordInv'
  <2>1. Holds(r, Redis, left[r] + Delay)
    BY <1>10 DEF ExecFinish, RecordInv, FinishInv
  <2>2. \A c \in late : c.op \in Finishing => c.owner # r
    BY <1>10 DEF ExecFinish, RecordInv, LateInv, Ends, Verdicts, Finishing
  <2>3. pc'[r] \in Ends /\ \A q \in Requests : q # r => pc'[q] = pc[q]
    BY <1>10 DEF ExecFinish, Goto, Ends
  <2> QED BY <1>1, <1>10, <2>1, <2>2, <2>3, OwnStep DEF ExecFinish, Holds
<1>11. ASSUME NEW r \in Requests, GiveUp(r) PROVE RecordInv'
  <2>1. PICK label \in {"local", "stored", "released"} :
          pc' = [pc EXCEPT ![r] = label] /\ (label = "local" => pc[r] \in Beginning)
    BY <1>11 DEF GiveUp, Goto, Beginning
  <2>2. label \in Ends \/ (label = "local" /\ pc[r] \in Beginning)
    BY <2>1 DEF Ends
  <2> QED BY <1>11, <2>1, <2>2, AbandonStep DEF GiveUp, Beginning, Finishing
<1>12. ASSUME NEW r \in Requests, DeadlineHit(r) PROVE RecordInv'
  BY <1>12, AbandonStep DEF DeadlineHit, Goto, Beginning, Ends
<1>13. ASSUME NEW r \in Requests, Leave(r) PROVE RecordInv'
  BY <1>13, AbandonStep DEF Leave, Goto, Ends
<1>14. ASSUME NEW c \in late, ExecLate(c) PROVE RecordInv'
  <2>1. CASE c.op = "set"
    BY <1>1, <1>14, <2>1, LateSetStep DEF ExecLate, After, Commands
  <2>2. CASE c.op \in Finishing
    <3>1. Holds(c.owner, Redis, c.fuse) /\ pc[c.owner] \in Ends
          /\ \A d \in late : (d.op \in Finishing /\ d.owner = c.owner) => d = c
      BY <2>2 DEF RecordInv, LateInv
    <3>2. c.owner \in Requests /\ late' \subseteq late
          /\ \A d \in late' : d.op \in Finishing => d.owner # c.owner
      BY <1>1, <1>14, <3>1 DEF ExecLate, Commands
    <3> QED BY <1>1, <1>14, <3>1, <3>2, OwnStep DEF ExecLate, Holds
  <2> QED BY <1>1, <2>1, <2>2 DEF Commands
<1>15. ASSUME NEW c \in late, Lose(c) PROVE RecordInv'
  BY <1>15 DEF Lose, RecordInv, RunInv, FinishInv, LateInv, Holds
<1>16. ASSUME UNCHANGED vars PROVE RecordInv'
  BY <1>16 DEF vars, RecordInv, RunInv, FinishInv, LateInv, Holds
<1> QED
  BY <1>4, <1>5, <1>6, <1>7, <1>8, <1>9, <1>10, <1>11, <1>12, <1>13, <1>14, <1>15,
     <1>16, TickStep DEF Next, Request, Evict

\* Without evictions the records' invariant holds always.
LEMMA RecordsKept == ASSUME ~LocalEvicts, Prompt PROVE Spec => [](TypeInv /\ RecordInv)
<1>1. Init => TypeInv /\ RecordInv
  BY TypeInvInit, RecordInvInit
<1>2. TypeInv /\ RecordInv /\ [Next]_vars => (TypeInv /\ RecordInv)'
  BY TypeInvStep, RecordInvStep
<1> QED BY <1>1, <1>2, PTL DEF Spec

\* If the in-process map is never full, a request that was told to proceed
\* keeps its pending record until it ends.
THEOREM HolderCorrect == ASSUME ~LocalEvicts, Prompt PROVE Spec => []HolderHasRecord
<1>1. TypeInv /\ RecordInv => HolderHasRecord
  <2> SUFFICES ASSUME TypeInv, RecordInv, NEW r \in Requests, pc[r] = "run"
               PROVE  Holds(r, guard[r], left[r])
    BY DEF HolderHasRecord, TypeInv
  <2>1. guard[r] \in Stores /\ Holds(r, guard[r], left[r] + Slack - RedisTimeout - 1)
    BY DEF RecordInv, RunInv
  <2>2. left[r] \in Nat /\ store[guard[r]].ttl \in Nat
    BY <2>1, IdempotencyAssumption DEF TypeInv, TypeOK, Records
  <2> QED BY <2>1, <2>2, IdempotencyAssumption DEF Holds, Prompt
<1> QED BY <1>1, RecordsKept, PTL

\* ... and no two requests execute the key at once in one store.
THEOREM ExclusiveCorrect == ASSUME ~LocalEvicts, Prompt PROVE Spec => []Exclusive
<1>1. HolderHasRecord => Exclusive
  BY DEF HolderHasRecord, Exclusive, Holds
<1> QED BY <1>1, HolderCorrect, PTL

-----------------------------------------------------------------------------
(* A request's claim on its record, for every choice of the timeouts.      *)

\* A request that is still to finish does so in one store and by one command,
\* and none of a request that waits is on its way; an age counts from the SET.
OwesInv ==
    /\ \A r \in Requests : pc[r] \in Finishing => guard[r] = Redis
    /\ \A c \in late : c.op \in Finishing =>
          /\ guard[c.owner] = Redis /\ pc[c.owner] \in Ends
          /\ \A d \in late : (d.op \in Finishing /\ d.owner = c.owner) => d = c
    /\ \A r \in Requests : pc[r] \in {"idle"} \cup Beginning => age[r] = 0

\* The store's records go by their TTL alone.
Stays(s) == s = Redis \/ ~LocalEvicts

\* r may finish, is not late, and no late SET has been in its store.
InTime(r) == Owes(r) /\ age[r] < PendingTtl /\ guard[r] \notin overdue /\ Stays(guard[r])

\* The record of such a request is there, with the rest of its TTL.
ClaimInv ==
    \A r \in Requests : InTime(r) =>
        LET rec == store[guard[r]] IN
        rec.kind = "pending" /\ rec.owner = r /\ rec.ttl = PendingTtl - age[r]

\* What StoredIsFinal says of a step.
Final ==
    \A s \in Stores \ overdue' :
        (store[s].kind = "done" /\ Stays(s)) =>
            \/ store'[s] = store[s]
            \/ store'[s] = Aged(store[s])

\* At the start nobody has a record.
LEMMA ClaimInit == Init => OwesInv /\ ClaimInv
  BY DEF Init, OwesInv, ClaimInv, InTime, Owes, Finishing

\* Whoever is to finish is to finish in a store.
LEMMA OwesStore ==
    ASSUME TypeInv, OwesInv, NEW r \in Requests, Owes(r) PROVE guard[r] \in Stores
  BY DEF TypeInv, GuardInv, OwesInv, Owes, Stores

\* A step after which no more requests are to finish, and which writes at most
\* where no record was, or empties what may be evicted.
LEMMA QuietClaim ==
    ASSUME TypeInv, OwesInv, ClaimInv,
           \A q \in Requests : Owes(q)' => Owes(q) /\ guard'[q] = guard[q],
           UNCHANGED <<age, overdue>>,
           \A s \in Stores : store'[s] = store[s] \/ store[s].kind = "none" \/ ~Stays(s)
    PROVE  ClaimInv' /\ Final
<1>1. ClaimInv'
  <2> SUFFICES ASSUME NEW q \in Requests, InTime(q)'
               PROVE  LET rec == store'[guard'[q]] IN
                      rec.kind = "pending" /\ rec.owner = q /\ rec.ttl = PendingTtl - age'[q]
    BY DEF ClaimInv
  <2>1. Owes(q) /\ guard'[q] = guard[q]
    BY DEF InTime
  <2>2. InTime(q)
    BY <2>1 DEF InTime, Stays
  <2>3. guard[q] \in Stores /\ Stays(guard[q])
    BY <2>1, <2>2, OwesStore DEF InTime
  <2>4. store'[guard[q]] = store[guard[q]]
    BY <2>2, <2>3 DEF ClaimInv
  <2> QED BY <2>1, <2>2, <2>4 DEF ClaimInv
<1>2. Final
  BY DEF Final
<1> QED BY <1>1, <1>2

\* A request that finishes meets its own record, or comes late.
LEMMA WriteClaim ==
    ASSUME TypeInv, OwesInv, ClaimInv, NEW r \in Requests, NEW op \in Finishing, Owes(r),
           store' = [store EXCEPT ![guard[r]] = After(op, @, r)],
           FinishedLate(op, r, guard[r]), UNCHANGED <<guard, age>>,
           \A q \in Requests : Owes(q)' => q # r /\ Owes(q)
    PROVE  ClaimInv' /\ Final
<1> DEFINE s == guard[r]
<1>1. s \in Stores /\ overdue \subseteq overdue'
  BY OwesStore DEF FinishedLate
<1>2. \A t \in Stores : t # s => store'[t] = store[t]
  BY DEF TypeInv, TypeOK
<1>3. store'[s] = After(op, store[s], r)
  BY <1>1 DEF TypeInv, TypeOK
<1>4. ASSUME op = "put", s \notin overdue', Stays(s)
      PROVE  store[s].kind = "pending" /\ store[s].owner = r
  <2>1. ~ (age[r] >= PendingTtl) /\ s \notin overdue
    BY <1>4 DEF FinishedLate
  <2>2. age[r] \in Nat /\ PendingTtl \in Nat
    BY IdempotencyAssumption DEF TypeInv, TypeOK, PendingTtl
  <2>3. InTime(r)
    BY <1>4, <2>1, <2>2 DEF InTime
  <2> QED BY <2>3 DEF ClaimInv
<1>5. ASSUME op = "release", ~ (store[s].kind = "pending" /\ store[s].owner = r)
      PROVE  store'[s] = store[s]
  BY <1>3, <1>5 DEF After, Release
<1>6. op \in {"put", "release"}
  BY DEF Finishing
<1>7. ClaimInv'
  <2> SUFFICES ASSUME NEW q \in Requests, InTime(q)'
               PROVE  LET rec == store'[guard'[q]] IN
                      rec.kind = "pending" /\ rec.owner = q /\ rec.ttl = PendingTtl - age'[q]
    BY DEF ClaimInv
  <2>1. q # r /\ Owes(q) /\ guard' = guard /\ age' = age
    BY DEF InTime
  <2>2. InTime(q) /\ guard[q] \notin overdue' /\ Stays(guard[q])
    BY <1>1, <2>1 DEF InTime, Stays
  <2>3. store[guard[q]].kind = "pending" /\ store[guard[q]].owner = q
        /\ store[guard[q]].ttl = PendingTtl - age[q]
    BY <2>2 DEF ClaimInv
  <2>4. guard[q] \in Stores
    BY <2>1, OwesStore
  <2>5. store'[guard[q]] = store[guard[q]]
    BY <1>2, <1>4, <1>5, <1>6, <2>1, <2>2, <2>3, <2>4
  <2> QED BY <2>1, <2>3, <2>5
<1>8. Final
  <2> SUFFICES ASSUME NEW t \in Stores, t \notin overdue', store[t].kind = "done", Stays(t)
               PROVE  store'[t] = store[t]
    BY DEF Final
  <2> QED BY <1>2, <1>4, <1>5, <1>6
<1> QED BY <1>7, <1>8

\* A request told to proceed finds no record there, or its own SET's; so nobody
\* else has a claim on it, and the TTL begins.
LEMMA ProceedClaim ==
    ASSUME TypeInv, OwesInv, ClaimInv, NEW r \in Requests, NEW s \in Stores,
           pc[r] \in Beginning, Fresh(store[s], r), Proceed(r, s)
    PROVE  OwesInv' /\ ClaimInv' /\ Final
<1>1. /\ store'[s] = Pending(r) /\ \A t \in Stores : t # s => store'[t] = store[t]
      /\ guard'[r] = s /\ pc'[r] = "run"
      /\ \A q \in Requests : q # r => guard'[q] = guard[q] /\ pc'[q] = pc[q]
      /\ UNCHANGED <<late, age, overdue>>
  BY DEF Proceed, Fresh, Goto, TypeInv, TypeOK
<1>2. store[s].kind = "none" \/ store[s] = Pending(r)
  BY DEF Fresh, SetNx
<1>3. Pending(r).kind = "pending" /\ Pending(r).owner = r /\ Pending(r).ttl = PendingTtl
  BY DEF Pending
<1>4. pc[r] \notin Ends /\ age[r] = 0 /\ PendingTtl \in Nat
  BY IdempotencyAssumption DEF OwesInv, Beginning, Ends, Verdicts, PendingTtl
<1>5. \A c \in late : c.op \in Finishing => c.owner \in Requests /\ c.owner # r
  BY <1>4 DEF OwesInv, TypeInv, TypeOK, Commands
<1>6. OwesInv'
  <2>1. \A q \in Requests : pc'[q] \in Finishing => guard'[q] = Redis
    BY <1>1 DEF OwesInv, Finishing
  <2>2. \A c \in late' : c.op \in Finishing =>
          /\ guard'[c.owner] = Redis /\ pc'[c.owner] \in Ends
          /\ \A d \in late' : (d.op \in Finishing /\ d.owner = c.owner) => d = c
    BY <1>1, <1>5 DEF OwesInv
  <2>3. \A q \in Requests : pc'[q] \in {"idle"} \cup Beginning => age'[q] = 0
    BY <1>1 DEF OwesInv, Beginning
  <2> QED BY <2>1, <2>2, <2>3 DEF OwesInv
<1>7. ASSUME NEW q \in Requests, InTime(q)'
      PROVE  LET rec == store'[guard'[q]] IN
             rec.kind = "pending" /\ rec.owner = q /\ rec.ttl = PendingTtl - age'[q]
  <2>1. CASE q = r
    <3>1. PendingTtl - age'[r] = PendingTtl
      BY <1>1, <1>4
    <3> QED BY <1>1, <1>3, <2>1, <3>1
  <2>2. CASE q # r
    <3>1. Owes(q) /\ guard'[q] = guard[q] /\ age'[q] = age[q]
      BY <1>1, <1>7, <2>2 DEF InTime, Owes
    <3>2. InTime(q)
      BY <1>1, <1>7, <3>1 DEF InTime, Stays
    <3>3. store[guard[q]].kind = "pending" /\ store[guard[q]].owner = q
          /\ store[guard[q]].ttl = PendingTtl - age[q]
      BY <3>2 DEF ClaimInv
    <3>4. guard[q] # s /\ guard[q] \in Stores
      BY <1>2, <1>3, <2>2, <3>1, <3>3, OwesStore
    <3> QED BY <1>1, <3>1, <3>3, <3>4
  <2> QED BY <2>1, <2>2
<1>8. ClaimInv'
  BY <1>7 DEF ClaimInv
<1>9. Final
  BY <1>1, <1>2, <1>3 DEF Final
<1> QED BY <1>6, <1>8, <1>9

\* A request that gives up leaves its last command to finish for it.
LEMMA AbandonClaim ==
    ASSUME TypeInv, OwesInv, ClaimInv, NEW r \in Requests, Abandon(r),
           pc[r] \in Beginning \cup {"run"} \cup Finishing,
           NEW label, pc' = [pc EXCEPT ![r] = label],
           label \in Ends \/ (label = "local" /\ pc[r] \in Beginning),
           UNCHANGED <<store, guard, age, overdue>>
    PROVE  OwesInv' /\ ClaimInv' /\ Final
<1> DEFINE mine == [op |-> pc[r], owner |-> r, fuse |-> Delay]
<1>1. pc'[r] = label /\ \A q \in Requests : q # r => pc'[q] = pc[q]
  BY DEF TypeInv, TypeOK
<1>2. label \notin {"run"} \cup Finishing /\ pc[r] \notin Ends
  BY DEF Ends, Verdicts, Beginning, Finishing
<1>3. /\ late \subseteq late'
      /\ \A c \in late' : c.op \in Finishing => c \in late \/ (c = mine /\ pc[r] \in Finishing)
  BY DEF Abandon, Finishing
<1>4. \A c \in late : c.op \in Finishing => c.owner \in Requests /\ c.owner # r
  BY <1>2 DEF OwesInv, TypeInv, TypeOK, Commands
<1>5. pc[r] \in Finishing => label \in Ends
  BY DEF Finishing, Beginning
<1>6. OwesInv'
  <2>1. \A q \in Requests : pc'[q] \in Finishing => guard'[q] = Redis
    BY <1>1, <1>2 DEF OwesInv
  <2>2. ASSUME NEW c \in late', c.op \in Finishing
        PROVE  /\ guard'[c.owner] = Redis /\ pc'[c.owner] \in Ends
               /\ \A d \in late' : (d.op \in Finishing /\ d.owner = c.owner) => d = c
    <3>1. CASE c \in late
      <4>1. /\ guard[c.owner] = Redis /\ pc[c.owner] \in Ends
            /\ \A d \in late : (d.op \in Finishing /\ d.owner = c.owner) => d = c
        BY <2>2, <3>1 DEF OwesInv
      <4>2. \A d \in late' : (d.op \in Finishing /\ d.owner = c.owner) => d \in late
        BY <1>3, <1>4, <2>2, <3>1
      <4> QED BY <1>1, <1>4, <2>2, <3>1, <4>1, <4>2
    <3>2. CASE c \notin late
      <4>1. c = mine /\ pc[r] \in Finishing
        BY <1>3, <2>2, <3>2
      <4>2. \A d \in late' : (d.op \in Finishing /\ d.owner = r) => d = mine
        BY <1>3, <1>4
      <4>3. guard'[r] = Redis /\ pc'[r] \in Ends
        BY <1>1, <1>5, <4>1 DEF OwesInv
      <4> QED BY <4>1, <4>2, <4>3
    <3> QED BY <3>1, <3>2
  <2>3. \A q \in Requests : pc'[q] \in {"idle"} \cup Beginning => age'[q] = 0
    <3>1. label \in {"idle"} \cup Beginning => pc[r] \in Beginning
      BY DEF Ends, Verdicts, Beginning
    <3> QED BY <1>1, <3>1 DEF OwesInv
  <2> QED BY <2>1, <2>2, <2>3 DEF OwesInv
<1>7. \A q \in Requests : Owes(q)' => Owes(q) /\ guard'[q] = guard[q]
  <2> SUFFICES ASSUME NEW q \in Requests, Owes(q)' PROVE Owes(q)
    OBVIOUS
  <2>1. CASE pc'[q] \in {"run"} \cup Finishing
    BY <1>1, <1>2, <2>1 DEF Owes
  <2>2. CASE \E c \in late' : c.op \in Finishing /\ c.owner = q
    <3>1. PICK c \in late' : c.op \in Finishing /\ c.owner = q
      BY <2>2
    <3> QED BY <1>3, <3>1 DEF Owes
  <2> QED BY <2>1, <2>2 DEF Owes
<1> QED BY <1>6, <1>7, QuietClaim

\* Time takes as much from a record as it adds to the age of the claim.
LEMMA TickClaim ==
    ASSUME TypeInv, OwesInv, ClaimInv, Tick PROVE OwesInv' /\ ClaimInv' /\ Final
<1> DEFINE older(c) == [c EXCEPT !.fuse = @ - 1]
<1>1. /\ late' = {older(c) : c \in late} /\ UNCHANGED <<pc, guard, overdue>>
      /\ age' = [r \in Requests |-> IF Owes(r) THEN age[r] + 1 ELSE 0]
      /\ \A s \in Stores : store'[s] = Aged(store[s])
  BY DEF Tick
<1>2. \A c \in late : older(c).op = c.op /\ older(c).owner = c.owner
  BY DEF TypeInv, TypeOK, Commands
<1> HIDE DEF older
<1>3. \A q \in Requests : Owes(q)' => Owes(q)
  BY <1>1, <1>2 DEF Owes
<1>4. OwesInv'
  <2>1. ASSUME NEW c \in late, c.op \in Finishing
        PROVE  /\ guard'[c.owner] = Redis /\ pc'[c.owner] \in Ends
               /\ \A d \in late : (d.op \in Finishing /\ d.owner = c.owner) => older(d) = older(c)
    BY <1>1, <2>1 DEF OwesInv
  <2>2. \A c \in late' : c.op \in Finishing =>
          /\ guard'[c.owner] = Redis /\ pc'[c.owner] \in Ends
          /\ \A d \in late' : (d.op \in Finishing /\ d.owner = c.owner) => d = c
    BY <1>1, <1>2, <2>1
  <2>3. \A q \in Requests : pc'[q] \in {"idle"} \cup Beginning => age'[q] = 0
    <3> SUFFICES ASSUME NEW q \in Requests, pc[q] \in {"idle"} \cup Beginning PROVE ~ Owes(q)
      BY <1>1
    <3>1. pc[q] \notin Ends \cup {"run"} \cup Finishing
      BY DEF Ends, Verdicts, Beginning, Finishing
    <3> QED BY <3>1 DEF Owes, OwesInv
  <2> QED BY <1>1, <2>2, <2>3 DEF OwesInv
<1>5. ASSUME NEW q \in Requests, InTime(q)'
      PROVE  LET rec == store'[guard'[q]] IN
             rec.kind = "pending" /\ rec.owner = q /\ rec.ttl = PendingTtl - age'[q]
  <2>1. Owes(q) /\ age'[q] = age[q] + 1 /\ guard'[q] = guard[q] /\ age'[q] < PendingTtl
    BY <1>1, <1>3, <1>5 DEF InTime
  <2>2. age[q] \in Nat /\ PendingTtl \in Nat
    BY IdempotencyAssumption DEF TypeInv, TypeOK, PendingTtl
  <2>3. InTime(q)
    BY <1>1, <1>5, <2>1, <2>2 DEF InTime, Stays
  <2>4. guard[q] \in Stores
    BY <2>1, OwesStore
  <2> DEFINE rec == store[guard[q]]
  <2>5. rec.kind = "pending" /\ rec.owner = q /\ rec.ttl = PendingTtl - age[q] /\ rec \in Records
    BY <2>3, <2>4 DEF ClaimInv, TypeInv, TypeOK
  <2>6. ~ (rec.ttl <= 1)
    BY <2>1, <2>2, <2>5
  <2>7. store'[guard[q]] = [rec EXCEPT !.ttl = @ - 1]
    BY <1>1, <2>4, <2>6 DEF Aged
  <2>8. /\ store'[guard[q]].kind = rec.kind /\ store'[guard[q]].owner = rec.owner
        /\ store'[guard[q]].ttl = rec.ttl - 1
    BY <2>5, <2>7 DEF Records
  <2> HIDE DEF rec
  <2> QED BY <2>1, <2>2, <2>5, <2>8
<1>6. ClaimInv'
  BY <1>5 DEF ClaimInv
<1>7. Final
  BY <1>1 DEF Final
<1> QED BY <1>4, <1>6, <1>7

\* The locals of one request change, and no command is sent or gone.
LEMMA OwesKept ==
    ASSUME TypeInv, OwesInv, NEW r \in Requests, pc[r] \notin Ends, late' = late,
           \A q \in Requests : q # r => pc'[q] = pc[q],
           pc'[r] \in Finishing => guard[r] = Redis,
           pc'[r] \in {"idle"} \cup Beginning => pc[r] \in {"idle"} \cup Beginning,
           UNCHANGED <<guard, age>>
    PROVE  OwesInv'
<1>1. \A c \in late : c.op \in Finishing => c.owner \in Requests /\ c.owner # r
  BY DEF OwesInv, TypeInv, TypeOK, Commands
<1>2. \A c \in late' : c.op \in Finishing =>
        /\ guard'[c.owner] = Redis /\ pc'[c.owner] \in Ends
        /\ \A d \in late' : (d.op \in Finishing /\ d.owner = c.owner) => d = c
  BY <1>1 DEF OwesInv
<1>3. \A q \in Requests : pc'[q] \in Finishing => guard'[q] = Redis
  BY DEF OwesInv
<1>4. \A q \in Requests : pc'[q] \in {"idle"} \cup Beginning => age'[q] = 0
  BY DEF OwesInv
<1> QED BY <1>2, <1>3, <1>4 DEF OwesInv

\* As OwesKept, of a step of begin that gets no record.
LEMMA BeginClaim ==
    ASSUME TypeInv, OwesInv, ClaimInv, NEW r \in Requests, pc[r] \in {"idle"} \cup Beginning,
           pc'[r] \notin {"idle", "run"} \cup Finishing,
           \A q \in Requests : q # r => pc'[q] = pc[q],
           UNCHANGED <<store, late, guard, age, overdue>>
    PROVE  OwesInv' /\ ClaimInv' /\ Final
<1>1. pc[r] \notin Ends
  BY DEF Ends, Verdicts, Beginning
<1>2. OwesInv'
  BY <1>1, OwesKept
<1>3. \A q \in Requests : Owes(q)' => Owes(q)
  BY DEF Owes
<1> QED BY <1>2, <1>3, QuietClaim

\* Every step keeps the claims and the responses.
LEMMA ClaimStep ==
    TypeInv /\ OwesInv /\ ClaimInv /\ [Next]_vars => OwesInv' /\ ClaimInv' /\ (Final \/ UNCHANGED vars)
<1> SUFFICES ASSUME TypeInv, OwesInv, ClaimInv, [Next]_vars
             PROVE  OwesInv' /\ ClaimInv' /\ (Final \/ UNCHANGED vars)
  OBVIOUS
<1> DEFINE Goal == OwesInv' /\ ClaimInv' /\ Final
<1>a. /\ Redis \in Stores /\ late \subseteq Commands
      /\ pc \in [Requests -> {"idle", "run"} \cup Beginning \cup Finishing \cup Ends]
  BY DEF Stores, TypeInv, TypeOK
<1>b. \A v \in Verdicts : v \notin {"idle", "run"} \cup Finishing
  BY DEF Verdicts, Finishing
<1>1. ASSUME NEW r \in Requests, Start(r) \/ ExecGet(r) \/ ExecPttl(r) PROVE Goal
  <2>1. pc[r] \in {"idle"} \cup Beginning
    BY <1>1 DEF Start, ExecGet, ExecPttl, Beginning
  <2>2. pc'[r] \notin {"idle", "run"} \cup Finishing
    BY <1>1, <1>a, <1>b, ExistingVerdict DEF Start, ExecGet, ExecPttl, Goto, Finishing
  <2>3. UNCHANGED <<store, late, guard, age, overdue>> /\ \A q \in Requests : q # r => pc'[q] = pc[q]
    BY <1>1, <1>a DEF Start, ExecGet, ExecPttl, Goto
  <2> QED BY <2>1, <2>2, <2>3, BeginClaim
<1>2. ASSUME NEW r \in Requests, ExecSet(r) PROVE Goal
  <2>1. pc[r] \in Beginning
    BY <1>2 DEF ExecSet, Beginning
  <2>2. CASE Fresh(store[Redis], r)
    BY <1>2, <1>a, <2>1, <2>2, ProceedClaim DEF ExecSet
  <2>3. CASE ~ Fresh(store[Redis], r)
    <3>1. pc'[r] = "get" /\ UNCHANGED <<store, late, guard, age, overdue>>
          /\ \A q \in Requests : q # r => pc'[q] = pc[q]
      BY <1>2, <1>a, <2>3 DEF ExecSet, Goto
    <3> QED BY <2>1, <3>1, BeginClaim DEF Finishing
  <2> QED BY <2>2, <2>3
<1>3. ASSUME NEW r \in Requests, Local(r) PROVE Goal
  <2> DEFINE i == InstanceOf[r]
  <2>1. pc[r] \in Beginning /\ i \in Stores
    BY <1>3, IdempotencyAssumption DEF Local, Beginning, Stores
  <2>2. CASE Fresh(store[i], r)
    BY <1>3, <2>1, <2>2, ProceedClaim DEF Local
  <2>3. CASE ~ Fresh(store[i], r)
    <3>1. pc'[r] = Existing(store[i], r) /\ UNCHANGED <<store, late, guard, age, overdue>>
          /\ \A q \in Requests : q # r => pc'[q] = pc[q]
      BY <1>3, <1>a, <2>3 DEF Local, Goto
    <3>2. pc'[r] \notin {"idle", "run"} \cup Finishing
      BY <1>b, <3>1, ExistingVerdict
    <3> QED BY <2>1, <3>1, <3>2, BeginClaim
  <2> QED BY <2>2, <2>3
<1>4. ASSUME NEW r \in Requests, Finish(r) PROVE Goal
  <2>1. PICK stored \in BOOLEAN :
          LET op == IF stored THEN "put" ELSE "release" IN
          IF guard[r] = Redis
          THEN Goto(r, op) /\ UNCHANGED <<store, overdue>>
          ELSE /\ Goto(r, IF stored THEN "stored" ELSE "released")
               /\ store' = [store EXCEPT ![guard[r]] = After(op, @, r)]
               /\ FinishedLate(op, r, guard[r])
    BY <1>4 DEF Finish
  <2> DEFINE op == IF stored THEN "put" ELSE "release"
  <2>2. UNCHANGED <<late, guard, age>> /\ pc[r] = "run" /\ Owes(r) /\ op \in Finishing /\ pc[r] \notin Ends
    BY <1>4 DEF Finish, Owes, Finishing, Ends, Verdicts
  <2>3. \A q \in Requests : q # r => pc'[q] = pc[q]
    BY <1>a, <2>1 DEF Goto
  <2>4. CASE guard[r] = Redis
    <3>1. pc'[r] \in Finishing /\ UNCHANGED <<store, overdue>>
      BY <1>a, <2>1, <2>2, <2>4 DEF Goto
    <3>2. OwesInv'
      BY <2>2, <2>3, <2>4, <3>1, OwesKept DEF Finishing, Beginning
    <3>3. \A q \in Requests : Owes(q)' => Owes(q)
      BY <2>2, <2>3 DEF Owes
    <3> QED BY <2>2, <3>1, <3>2, <3>3, QuietClaim
  <2>5. CASE guard[r] # Redis
    <3>1. /\ pc'[r] \in Ends /\ store' = [store EXCEPT ![guard[r]] = After(op, @, r)]
          /\ FinishedLate(op, r, guard[r])
      BY <1>a, <2>1, <2>5 DEF Goto, Ends
    <3>2. pc'[r] \notin {"idle", "run"} \cup Beginning \cup Finishing
      BY <3>1 DEF Ends, Verdicts, Beginning, Finishing
    <3>3. OwesInv'
      BY <2>2, <2>3, <3>2, OwesKept
    <3>4. \A q \in Requests : Owes(q)' => q # r /\ Owes(q)
      <4>1. \A c \in late : c.op \in Finishing => c.owner # r
        BY <2>2 DEF OwesInv
      <4> QED BY <2>2, <2>3, <3>2, <4>1 DEF Owes
    <3> HIDE DEF op
    <3> QED BY <2>2, <3>1, <3>3, <3>4, WriteClaim
  <2> QED BY <2>4, <2>5
<1>5. ASSUME NEW r \in Requests, ExecFinish(r) PROVE Goal
  <2>1. /\ pc[r] \in Finishing /\ guard[r] = Redis /\ Owes(r) /\ pc'[r] \in Ends
        /\ UNCHANGED <<late, guard, age>> /\ \A q \in Requests : q # r => pc'[q] = pc[q]
    BY <1>5, <1>a DEF ExecFinish, OwesInv, Owes, Goto, Ends
  <2>2. store' = [store EXCEPT ![guard[r]] = After(pc[r], @, r)] /\ FinishedLate(pc[r], r, guard[r])
    BY <1>5, <2>1 DEF ExecFinish
  <2>3. pc'[r] \notin {"idle", "run"} \cup Beginning \cup Finishing /\ pc[r] \notin Ends
    BY <2>1 DEF Ends, Verdicts, Beginning, Finishing
  <2>4. OwesInv'
    BY <2>1, <2>3, OwesKept
  <2>5. \A q \in Requests : Owes(q)' => q # r /\ Owes(q)
    <3>1. \A c \in late : c.op \in Finishing => c.owner # r
      BY <2>3 DEF OwesInv
    <3> QED BY <2>1, <2>3, <3>1 DEF Owes
  <2> QED BY <2>1, <2>2, <2>4, <2>5, WriteClaim
<1>6. ASSUME NEW r \in Requests, GiveUp(r) PROVE Goal
  <2>1. PICK label \in {"local", "stored", "released"} :
          pc' = [pc EXCEPT ![r] = label] /\ (label = "local" => pc[r] \in Beginning)
    BY <1>6 DEF GiveUp, Goto, Beginning
  <2>2. label \in Ends \/ (label = "local" /\ pc[r] \in Beginning)
    BY <2>1 DEF Ends
  <2> QED BY <1>6, <2>1, <2>2, AbandonClaim DEF GiveUp, Beginning, Finishing
<1>7. ASSUME NEW r \in Requests, DeadlineHit(r) \/ Leave(r) PROVE Goal
  <2>1. PICK label \in {"deadline", "gone"} : pc' = [pc EXCEPT ![r] = label]
    BY <1>7 DEF DeadlineHit, Leave, Goto
  <2>2. label \in Ends
    BY DEF Ends
  <2> QED BY <1>7, <2>1, <2>2, AbandonClaim DEF DeadlineHit, Leave, Beginning
<1>8. ASSUME NEW c \in late, ExecLate(c) \/ Lose(c) PROVE Goal
  <2>1. late' = late \ {c} /\ UNCHANGED <<pc, guard, age>> /\ c.owner \in Requests
        /\ c.op \in {"set"} \cup Finishing
    BY <1>8, <1>a DEF ExecLate, Lose, Commands
  <2>2. OwesInv'
    BY <2>1 DEF OwesInv
  <2>3. \A q \in Requests : Owes(q)' => Owes(q) /\ guard'[q] = guard[q]
    BY <2>1 DEF Owes
  <2>4. CASE Lose(c)
    BY <2>1, <2>2, <2>3, <2>4, QuietClaim DEF Lose
  <2>5. CASE ExecLate(c) /\ c.op = "set"
    <3>1. \A s \in Stores : store'[s] = store[s] \/ store[s].kind = "none"
      BY <2>5 DEF ExecLate, After, SetNx, TypeInv, TypeOK
    <3>2. overdue' = overdue
      BY <2>5 DEF ExecLate, FinishedLate
    <3> QED BY <2>1, <2>2, <2>3, <3>1, <3>2, QuietClaim
  <2>6. CASE ExecLate(c) /\ c.op \in Finishing
    <3>1. guard[c.owner] = Redis /\ pc[c.owner] \in Ends /\ Owes(c.owner)
          /\ \A d \in late : (d.op \in Finishing /\ d.owner = c.owner) => d = c
      BY <2>6 DEF OwesInv, Owes
    <3>2. \A q \in Requests : Owes(q)' => q # c.owner /\ Owes(q)
      <4>1. pc[c.owner] \notin {"run"} \cup Finishing
        BY <3>1 DEF Ends, Verdicts, Finishing
      <4> QED BY <2>1, <3>1, <4>1 DEF Owes
    <3>3. store' = [store EXCEPT ![guard[c.owner]] = After(c.op, @, c.owner)]
          /\ FinishedLate(c.op, c.owner, guard[c.owner])
      BY <2>6, <3>1 DEF ExecLate
    <3> QED BY <2>1, <2>2, <2>6, <3>1, <3>2, <3>3, WriteClaim
  <2> QED BY <1>8, <2>1, <2>4, <2>5, <2>6
<1>9. ASSUME NEW i \in Instances, Evict(i) PROVE Goal
  <2>1. UNCHANGED <<late, pc, guard, age, overdue>> /\ ~ Stays(i) /\ \A s \in Stores : s # i => store'[s] = store[s]
    BY <1>9, IdempotencyAssumption DEF Evict, Stays, TypeInv, TypeOK
  <2>2. OwesInv'
    BY <2>1 DEF OwesInv
  <2>3. \A q \in Requests : Owes(q)' => Owes(q)
    BY <2>1 DEF Owes
  <2> QED BY <2>1, <2>2, <2>3, QuietClaim
<1>10. CASE UNCHANGED vars
  <2>1. OwesInv' /\ ClaimInv'
    BY <1>10 DEF vars, OwesInv, ClaimInv, InTime, Owes, Stays
  <2> QED BY <1>10, <2>1
<1> QED
  BY <1>1, <1>2, <1>3, <1>4, <1>5, <1>6, <1>7, <1>8, <1>9, <1>10, TickClaim DEF Next, Request

\* Whatever the timeouts and however late a command is executed: a stored
\* response is not replaced, not even by the unconditional SET of a request
\* that gave up on it, before a SET comes pending_ttl after its record was set.
THEOREM StoredCorrect == Spec => StoredIsFinal
<1>1. TypeInv /\ OwesInv /\ ClaimInv /\ [Next]_vars => (TypeInv /\ OwesInv /\ ClaimInv)'
  BY TypeInvStep, ClaimStep
<1>2. Init => TypeInv /\ OwesInv /\ ClaimInv
  BY TypeInvInit, ClaimInit
<1>3. TypeInv /\ OwesInv /\ ClaimInv /\ [Next]_vars => [Final]_vars
  BY ClaimStep
<1>4. Spec => [][Final]_vars
  BY <1>1, <1>2, <1>3, PTL DEF Spec
<1> QED BY <1>4 DEF StoredIsFinal, Final, Stays

-----------------------------------------------------------------------------
(* What a request is told, whether or not the in-process map is ever full. *)

Storers == {"put", "stored", "gone"}

\* q has stored, or is about to store, its response in s.
StoredIn(q, s) == q \in Requests /\ pc[q] \in Storers /\ guard[q] = s

\* A stored response, in a store, in a request's hand or on its way, is one that
\* a request which had the key has stored there.
ResponseInv ==
    /\ \A s \in Stores : store[s].kind = "done" => StoredIn(store[s].owner, s)
    /\ \A r \in Requests : read[r].kind = "done" =>
            StoredIn(read[r].owner, Redis) \/ StoredIn(read[r].owner, InstanceOf[r])
    /\ \A c \in late : c.op = "put" => StoredIn(c.owner, Redis)
    /\ \A r \in Requests : pc[r] = "put" => guard[r] = Redis
    /\ \A r \in Requests : pc[r] = "replay" =>
            read[r].kind = "done" /\ BodyOf[read[r].owner] = BodyOf[r]

\* What the commands do to a response: only Done makes one.
LEMMA ResponseRecords ==
    ASSUME NEW rec, NEW r
    PROVE  /\ SetNx(rec, r).kind = "done" => SetNx(rec, r) = rec
           /\ Release(rec, r).kind = "done" => Release(rec, r) = rec
           /\ Done(r).owner = r /\ Empty.kind # "done"
           /\ Existing(rec, r) = "replay" => BodyOf[rec.owner] = BodyOf[r] /\ rec.kind # "pending"
<1>1. SetNx(rec, r).kind = "done" => SetNx(rec, r) = rec
  BY DEF SetNx, Pending
<1>2. Release(rec, r).kind = "done" => Release(rec, r) = rec
  BY DEF Release, Empty
<1>3. Done(r).owner = r /\ Empty.kind # "done"
  BY DEF Done, Empty
<1>4. Existing(rec, r) = "replay" => BodyOf[rec.owner] = BodyOf[r] /\ rec.kind # "pending"
  BY DEF Existing
<1> QED BY <1>1, <1>2, <1>3, <1>4

\* Time ages a record or ends it.
LEMMA AgedRecord ==
    ASSUME NEW rec \in Records, Aged(rec).kind = "done"
    PROVE  rec.kind = "done" /\ Aged(rec).owner = rec.owner
  BY DEF Aged, Empty, Records

\* A step of r that leaves the stores' responses alone, except that r may store
\* its own, and after which r has read nothing but what a store of its holds.
LEMMA ResponseStep ==
    ASSUME TypeInv, TypeInv', ResponseInv, NEW r \in Requests,
           pc[r] \notin {"stored", "gone"}, pc[r] = "put" => pc'[r] \in Storers,
           \A q \in Requests : q # r => pc'[q] = pc[q] /\ guard'[q] = guard[q] /\ read'[q] = read[q],
           pc[r] = "put" => guard'[r] = guard[r],
           pc'[r] = "put" => guard'[r] = Redis,
           \A s \in Stores : store'[s].kind = "done" =>
                store'[s] = store[s] \/ (store'[s].owner = r /\ pc'[r] \in Storers /\ guard'[r] = s),
           read'[r] = read[r] \/ \E s \in {Redis, InstanceOf[r]} \cap Stores : read'[r] = store[s],
           \A c \in late' : c.op = "put" => c \in late \/ (c.owner = r /\ pc[r] = "put"),
           pc'[r] = "replay" => read'[r].kind = "done" /\ BodyOf[read'[r].owner] = BodyOf[r]
    PROVE  ResponseInv'
<1>1. \A q \in Requests, s \in Stores : StoredIn(q, s) => pc'[q] \in Storers /\ guard'[q] = s
  BY DEF StoredIn, Storers
<1>2. ASSUME NEW s \in Stores, store'[s].kind = "done"
      PROVE  store'[s].owner \in Requests /\ pc'[store'[s].owner] \in Storers /\ guard'[store'[s].owner] = s
  <2>1. CASE store'[s] = store[s]
    <3>1. StoredIn(store[s].owner, s) /\ store[s].owner \in Requests
      BY <1>2, <2>1 DEF ResponseInv, StoredIn
    <3> QED BY <1>1, <2>1, <3>1
  <2> QED BY <1>2, <2>1
<1>3. ASSUME NEW q \in Requests, read'[q].kind = "done"
      PROVE  /\ read'[q].owner \in Requests /\ pc'[read'[q].owner] \in Storers
             /\ guard'[read'[q].owner] \in {Redis, InstanceOf[q]}
  <2>1. Redis \in Stores /\ InstanceOf[q] \in Stores
    BY IdempotencyAssumption DEF Stores
  <2>2. CASE read'[q] = read[q]
    <3>1. PICK s \in {Redis, InstanceOf[q]} : StoredIn(read[q].owner, s)
      BY <1>3, <2>2 DEF ResponseInv
    <3>2. read[q].owner \in Requests
      BY <3>1 DEF StoredIn
    <3> QED BY <1>1, <2>1, <2>2, <3>1, <3>2
  <2>3. CASE read'[q] # read[q]
    <3>1. PICK s \in {Redis, InstanceOf[q]} \cap Stores : read'[q] = store[s]
      BY <2>3
    <3>2. StoredIn(store[s].owner, s) /\ store[s].owner \in Requests
      BY <1>3, <3>1 DEF ResponseInv, StoredIn
    <3> QED BY <1>1, <3>1, <3>2
  <2> QED BY <2>2, <2>3
<1>4. ASSUME NEW c \in late', c.op = "put"
      PROVE  c.owner \in Requests /\ pc'[c.owner] \in Storers /\ guard'[c.owner] = Redis
  <2>1. Redis \in Stores
    BY DEF Stores
  <2>2. CASE c \in late
    <3>1. StoredIn(c.owner, Redis) /\ c.owner \in Requests
      BY <1>4, <2>2 DEF ResponseInv, StoredIn
    <3> QED BY <1>1, <2>1, <3>1
  <2>3. CASE c.owner = r /\ pc[r] = "put"
    BY <2>3 DEF ResponseInv
  <2> QED BY <1>4, <2>2, <2>3
<1>5. ASSUME NEW q \in Requests, pc'[q] = "put" PROVE guard'[q] = Redis
  BY <1>5 DEF ResponseInv
<1>6. ASSUME NEW q \in Requests, pc'[q] = "replay"
      PROVE  read'[q].kind = "done" /\ BodyOf[read'[q].owner] = BodyOf[q]
  BY <1>6 DEF ResponseInv
<1> QED BY <1>2, <1>3, <1>4, <1>5, <1>6 DEF ResponseInv, StoredIn

\* A replayed response is the one that a request with the same body stored.
THEOREM ReplayCorrect == Spec => []ReplayMatches
<1>1. Init => ResponseInv
  <2> SUFFICES ASSUME Init PROVE ResponseInv
    OBVIOUS
  <2>1. Empty.kind # "done"
    BY DEF Empty
  <2> QED BY <2>1 DEF Init, ResponseInv
<1>2. TypeInv /\ ResponseInv /\ [Next]_vars => ResponseInv'
  <2> SUFFICES ASSUME TypeInv, ResponseInv, [Next]_vars PROVE ResponseInv'
    OBVIOUS
  <2>0. TypeInv'
    BY TypeInvStep
  <2>a. Redis \in Stores /\ \A r \in Requests : InstanceOf[r] \in Stores
    BY IdempotencyAssumption DEF Stores
  <2>1. ASSUME NEW r \in Requests, Start(r) \/ GiveUp(r) \/ DeadlineHit(r) \/ Leave(r)
        PROVE  ResponseInv'
    <3>1. UNCHANGED <<store, read, guard>> /\ pc[r] \notin {"stored", "gone"}
          /\ pc'[r] \notin {"put", "replay"} /\ (pc[r] = "put" => pc'[r] \in Storers)
          /\ \A q \in Requests : q # r => pc'[q] = pc[q]
      BY <2>1 DEF Start, GiveUp, DeadlineHit, Leave, Goto, TypeInv, TypeOK, Beginning, Finishing, Storers
    <3>2. \A c \in late' : c.op = "put" => c \in late \/ (c.owner = r /\ pc[r] = "put")
      BY <2>1 DEF Start, GiveUp, DeadlineHit, Leave, Abandon, Finishing
    <3> QED BY <2>0, <3>1, <3>2, ResponseStep
  <2>2. ASSUME NEW r \in Requests, NEW s \in Stores, pc[r] \in Beginning, Proceed(r, s)
        PROVE  ResponseInv'
    <3>1. UNCHANGED <<late, read>> /\ pc'[r] = "run"
          /\ \A q \in Requests : q # r => pc'[q] = pc[q] /\ guard'[q] = guard[q]
      BY <2>2 DEF Proceed, Goto, TypeInv, TypeOK
    <3>2. \A t \in Stores : store'[t] = store[t] \/ store'[t] = SetNx(store[t], r)
      BY <2>2 DEF Proceed, TypeInv, TypeOK
    <3>3. \A t \in Stores : store'[t].kind = "done" => store'[t] = store[t]
      BY <3>2, ResponseRecords
    <3>4. pc[r] \notin Storers
      BY <2>2 DEF Beginning, Storers
    <3> QED BY <2>0, <3>1, <3>3, <3>4, ResponseStep DEF Storers
  <2>3. ASSUME NEW r \in Requests, ExecSet(r) PROVE ResponseInv'
    <3>1. CASE Proceed(r, Redis)
      BY <2>2, <2>3, <2>a, <3>1 DEF ExecSet, Beginning
    <3>2. CASE Goto(r, "get") /\ UNCHANGED <<store, late, left, tries, read, guard, age, overdue>>
      <4>1. pc'[r] = "get" /\ \A q \in Requests : q # r => pc'[q] = pc[q]
        BY <3>2 DEF Goto, TypeInv, TypeOK
      <4>2. pc[r] = "set"
        BY <2>3 DEF ExecSet
      <4> QED BY <2>0, <3>2, <4>1, <4>2, ResponseStep
    <3> QED BY <2>3, <3>1, <3>2 DEF ExecSet
  <2>4. ASSUME NEW r \in Requests, ExecGet(r) PROVE ResponseInv'
    <3>1. /\ pc[r] = "get" /\ pc'[r] = "pttl" /\ read'[r] = store[Redis]
          /\ \A q \in Requests : q # r => pc'[q] = pc[q] /\ read'[q] = read[q]
          /\ UNCHANGED <<store, late, guard>>
      BY <2>4 DEF ExecGet, Goto, TypeInv, TypeOK
    <3> QED BY <2>0, <2>a, <3>1, ResponseStep
  <2>5. ASSUME NEW r \in Requests, ExecPttl(r) PROVE ResponseInv'
    <3>1. /\ pc[r] = "pttl" /\ UNCHANGED <<store, late, read, guard>>
          /\ \A q \in Requests : q # r => pc'[q] = pc[q]
          /\ \/ read[r].kind # "none" /\ pc'[r] = Existing(read[r], r)
             \/ pc'[r] \in {"set", "local"}
      BY <2>5 DEF ExecPttl, Goto, TypeInv, TypeOK
    <3>2. pc'[r] = "replay" => read[r].kind = "done" /\ BodyOf[read[r].owner] = BodyOf[r]
      BY <3>1, ResponseRecords DEF TypeInv, TypeOK, Records, Kinds
    <3>3. pc'[r] # "put"
      BY <3>1, ExistingVerdict DEF Verdicts
    <3> QED BY <2>0, <3>1, <3>2, <3>3, ResponseStep
  <2>6. ASSUME NEW r \in Requests, Local(r) PROVE ResponseInv'
    <3> DEFINE i == InstanceOf[r]
    <3>1. CASE Fresh(store[i], r) /\ Proceed(r, i)
      BY <2>2, <2>6, <2>a, <3>1 DEF Local, Beginning
    <3>2. CASE /\ ~Fresh(store[i], r) /\ Goto(r, Existing(store[i], r))
               /\ read' = [read EXCEPT ![r] = store[i]]
               /\ UNCHANGED <<store, late, left, tries, guard, age, overdue>>
      <4>1. /\ pc[r] = "local" /\ pc'[r] = Existing(store[i], r) /\ read'[r] = store[i]
            /\ \A q \in Requests : q # r => pc'[q] = pc[q] /\ read'[q] = read[q]
        BY <2>6, <3>2 DEF Local, Goto, TypeInv, TypeOK
      <4>2. store[i].kind \in {"pending", "done"}
        BY <2>a, <3>2 DEF Fresh, SetNx, TypeInv, TypeOK, Records, Kinds
      <4>a. Existing(store[i], r) = "replay" =>
                BodyOf[store[i].owner] = BodyOf[r] /\ store[i].kind # "pending"
        BY ResponseRecords
      <4>3. pc'[r] = "replay" => store[i].kind = "done" /\ BodyOf[store[i].owner] = BodyOf[r]
        BY <4>1, <4>2, <4>a
      <4>4. pc'[r] # "put"
        BY <4>1, ExistingVerdict DEF Verdicts
      <4> QED BY <2>0, <2>a, <3>2, <4>1, <4>3, <4>4, ResponseStep
    <3> QED BY <2>6, <3>1, <3>2 DEF Local
  <2>7. ASSUME NEW r \in Requests, Finish(r) PROVE ResponseInv'
    <3>1. PICK stored \in BOOLEAN :
            LET op == IF stored THEN "put" ELSE "release" IN
            IF guard[r] = Redis
            THEN Goto(r, op) /\ UNCHANGED store
            ELSE /\ Goto(r, IF stored THEN "stored" ELSE "released")
                 /\ store' = [store EXCEPT ![guard[r]] = After(op, @, r)]
      BY <2>7 DEF Finish
    <3>2. pc[r] = "run" /\ UNCHANGED <<late, read, guard>>
      BY <2>7 DEF Finish
    <3>3. CASE guard[r] = Redis
      <4>1. UNCHANGED store /\ pc'[r] \in {"put", "release"}
            /\ \A q \in Requests : q # r => pc'[q] = pc[q]
        BY <3>1, <3>3 DEF Goto, TypeInv, TypeOK
      <4> QED BY <2>0, <3>2, <3>3, <4>1, ResponseStep
    <3>4. CASE guard[r] # Redis
      <4>1. /\ pc'[r] = IF stored THEN "stored" ELSE "released"
            /\ \A q \in Requests : q # r => pc'[q] = pc[q]
        BY <3>1, <3>4 DEF Goto, TypeInv, TypeOK
      <4>2. \A s \in Stores : \/ store'[s] = store[s] \/ store'[s] = Release(store[s], r)
                              \/ stored /\ s = guard[r] /\ store'[s] = Done(r)
        BY <3>1, <3>4 DEF After, TypeInv, TypeOK
      <4>3. ASSUME NEW s \in Stores, store'[s].kind = "done"
            PROVE  store'[s] = store[s] \/ (store'[s].owner = r /\ pc'[r] \in Storers /\ guard'[r] = s)
        <5>1. CASE store'[s] = Release(store[s], r)
          BY <4>3, <5>1, ResponseRecords
        <5>2. CASE stored /\ s = guard[r] /\ store'[s] = Done(r)
          BY <3>2, <4>1, <5>2, ResponseRecords DEF Storers
        <5> QED BY <4>2, <5>1, <5>2
      <4>4. pc'[r] \notin {"put", "replay"}
        BY <4>1
      <4> QED BY <2>0, <3>2, <4>1, <4>3, <4>4, ResponseStep
    <3> QED BY <3>3, <3>4
  <2>8. ASSUME NEW r \in Requests, ExecFinish(r) PROVE ResponseInv'
    <3>1. /\ pc[r] \in Finishing /\ UNCHANGED <<late, read, guard>>
          /\ pc'[r] = IF pc[r] = "put" THEN "stored" ELSE "released"
          /\ \A q \in Requests : q # r => pc'[q] = pc[q]
      BY <2>8 DEF ExecFinish, Goto, TypeInv, TypeOK
    <3>2. \A s \in Stores : \/ store'[s] = store[s] \/ store'[s] = Release(store[s], r)
                            \/ pc[r] = "put" /\ s = Redis /\ store'[s] = Done(r)
      BY <2>8 DEF ExecFinish, After, Finishing, TypeInv, TypeOK
    <3>3. ASSUME NEW s \in Stores, store'[s].kind = "done"
          PROVE  store'[s] = store[s] \/ (store'[s].owner = r /\ pc'[r] \in Storers /\ guard'[r] = s)
      <4>1. CASE store'[s] = Release(store[s], r)
        BY <3>3, <4>1, ResponseRecords
      <4>2. CASE pc[r] = "put" /\ s = Redis /\ store'[s] = Done(r)
        <5>1. guard[r] = Redis /\ pc'[r] = "stored"
          BY <3>1, <4>2 DEF ResponseInv
        <5> QED BY <3>1, <4>2, <5>1, ResponseRecords DEF Storers
      <4> QED BY <3>2, <4>1, <4>2
    <3>4. pc'[r] \notin {"put", "replay"} /\ (pc[r] = "put" => pc'[r] \in Storers)
          /\ pc[r] \notin {"stored", "gone"}
      BY <3>1 DEF Storers, Finishing
    <3> QED BY <2>0, <3>1, <3>3, <3>4, ResponseStep
  <2>9. ASSUME UNCHANGED <<pc, read, guard>>,
               \A s \in Stores : store'[s].kind = "done" =>
                    \/ store[s].kind = "done" /\ store'[s].owner = store[s].owner
                    \/ s = Redis /\ \E c \in late : c.op = "put" /\ store'[s].owner = c.owner,
               \A c \in late' : c.op = "put" => \E d \in late : d.op = "put" /\ d.owner = c.owner
        PROVE  ResponseInv'
    <3>1. \A s \in Stores : store'[s].kind = "done" =>
              store'[s].owner \in Requests /\ pc[store'[s].owner] \in Storers /\ guard[store'[s].owner] = s
      BY <2>9 DEF ResponseInv, StoredIn
    <3>2. \A c \in late' : c.op = "put" => c.owner \in Requests /\ pc[c.owner] \in Storers /\ guard[c.owner] = Redis
      BY <2>9 DEF ResponseInv, StoredIn
    <3> QED BY <2>9, <3>1, <3>2 DEF ResponseInv, StoredIn
  <2>10. ASSUME NEW c \in late, ExecLate(c) \/ Lose(c) PROVE ResponseInv'
    <3>1. UNCHANGED <<pc, read, guard>> /\ late' \subseteq late
      BY <2>10 DEF ExecLate, Lose
    <3>2. c.op \in {"set", "put", "release"}
      BY DEF TypeInv, TypeOK, Commands, Finishing
    <3>3. \A s \in Stores : \/ store'[s] = store[s] \/ store'[s] = SetNx(store[s], c.owner)
                            \/ store'[s] = Release(store[s], c.owner)
                            \/ s = Redis /\ c.op = "put" /\ store'[s] = Done(c.owner)
      BY <2>10, <3>2 DEF ExecLate, Lose, After, TypeInv, TypeOK
    <3>4. ASSUME NEW s \in Stores, store'[s].kind = "done"
          PROVE  \/ store[s].kind = "done" /\ store'[s].owner = store[s].owner
                 \/ s = Redis /\ c.op = "put" /\ store'[s].owner = c.owner
      <4>1. CASE store'[s] = SetNx(store[s], c.owner) \/ store'[s] = Release(store[s], c.owner)
        BY <3>4, <4>1, ResponseRecords
      <4>2. CASE s = Redis /\ c.op = "put" /\ store'[s] = Done(c.owner)
        BY <4>2, ResponseRecords
      <4> QED BY <3>3, <3>4, <4>1, <4>2
    <3> QED BY <2>9, <3>1, <3>4
  <2>11. ASSUME NEW i \in Instances, Evict(i) PROVE ResponseInv'
    <3>1. UNCHANGED <<pc, read, guard, late>> /\ \A s \in Stores : store'[s] \in {store[s], Empty}
      BY <2>11 DEF Evict, TypeInv, TypeOK
    <3>2. \A s \in Stores : store'[s].kind = "done" => store'[s] = store[s]
      BY <3>1, ResponseRecords
    <3> QED BY <2>9, <3>1, <3>2
  <2>12. ASSUME Tick PROVE ResponseInv'
    <3>1. UNCHANGED <<pc, read, guard>> /\ \A s \in Stores : store'[s] = Aged(store[s])
      BY <2>12 DEF Tick
    <3>2. \A s \in Stores : store'[s].kind = "done" => store[s].kind = "done" /\ store'[s].owner = store[s].owner
      BY <3>1, AgedRecord DEF TypeInv, TypeOK
    <3>3. ASSUME NEW c \in late', c.op = "put" PROVE \E d \in late : d.op = "put" /\ d.owner = c.owner
      <4>1. PICK d \in late : c = [d EXCEPT !.fuse = @ - 1]
        BY <2>12, <3>3 DEF Tick
      <4>2. d \in Commands
        BY DEF TypeInv, TypeOK
      <4>3. d.op = c.op /\ d.owner = c.owner
        BY <4>1, <4>2 DEF Commands
      <4> QED BY <3>3, <4>3
    <3> QED BY <2>9, <3>1, <3>2, <3>3
  <2>13. ASSUME UNCHANGED vars PROVE ResponseInv'
    BY <2>9, <2>13 DEF vars
  <2> QED BY <2>1, <2>3, <2>4, <2>5, <2>6, <2>7, <2>8, <2>10, <2>11, <2>12, <2>13 DEF Next, Request
<1>3. TypeInv /\ ResponseInv => ReplayMatches
  BY DEF ResponseInv, ReplayMatches, StoredIn, Storers
<1> QED
  BY <1>1, <1>2, <1>3, TypesKept, PTL DEF Spec

\* A pending record is removed early only when its own request fails, or by a
\* step of no request.
THEOREM ReleaseCorrect == Spec => OthersDoNotRelease
<1> DEFINE Own == \A s \in Stores :
                      (store[s].kind = "pending" /\ store[s].ttl > 1 /\ store'[s].kind = "none") =>
                          pc'[store[s].owner] = "released" \/ UNCHANGED pc
<1>1. TypeInv /\ [Next]_vars => [Own]_vars
  <2> SUFFICES ASSUME TypeInv, Next PROVE Own
    OBVIOUS
  <2> USE DEF TypeInv, TypeOK
  <2>1. ASSUME NEW r \in Requests, NEW s \in Stores, Proceed(r, s) PROVE Own
    BY <2>1 DEF Proceed, SetNx
  <2>2. ASSUME NEW r \in Requests, ExecSet(r) \/ Local(r) PROVE Own
    <3>1. Redis \in Stores /\ InstanceOf[r] \in Stores
      BY IdempotencyAssumption DEF Stores
    <3> QED BY <2>1, <2>2, <3>1 DEF ExecSet, Local
  <2>3. ASSUME NEW r \in Requests, NEW op \in Finishing, NEW s, NEW to,
               store' = [store EXCEPT ![s] = After(op, @, r)],
               pc' = [pc EXCEPT ![r] = to], op = "release" => to = "released"
        PROVE  Own
    <3>1. \A t \in Stores : store'[t] = store[t] \/ store'[t] = Done(r) \/
              (op = "release" /\ store'[t] = Release(store[t], r))
      BY <2>3 DEF After, Finishing
    <3>2. ASSUME NEW t \in Stores, store[t].kind = "pending", store'[t].kind = "none"
          PROVE  op = "release" /\ store[t].owner = r
      BY <3>1, <3>2 DEF Done, Release
    <3> QED BY <2>3, <3>2
  <2>4. ASSUME NEW r \in Requests, Finish(r) PROVE Own
    <3>1. PICK stored \in BOOLEAN :
            LET op == IF stored THEN "put" ELSE "release" IN
            IF guard[r] = Redis
            THEN Goto(r, op) /\ UNCHANGED store
            ELSE /\ Goto(r, IF stored THEN "stored" ELSE "released")
                 /\ store' = [store EXCEPT ![guard[r]] = After(op, @, r)]
      BY <2>4 DEF Finish
    <3>2. CASE stored /\ guard[r] # Redis
      BY <2>3, <3>1, <3>2 DEF Goto, Finishing
    <3>3. CASE ~stored /\ guard[r] # Redis
      BY <2>3, <3>1, <3>3 DEF Goto, Finishing
    <3>4. CASE guard[r] = Redis
      BY <3>1, <3>4
    <3> QED BY <3>2, <3>3, <3>4
  <2>5. ASSUME NEW r \in Requests, ExecFinish(r) PROVE Own
    BY <2>3, <2>5 DEF ExecFinish, Goto, Finishing
  <2>6. ASSUME UNCHANGED pc \/ UNCHANGED store PROVE Own
    BY <2>6
  <2>7. ASSUME NEW i \in Instances, Evict(i) PROVE Own
    BY <2>6, <2>7 DEF Evict
  <2>8. ASSUME Tick PROVE Own
    BY <2>6, <2>8 DEF Tick
  <2> QED BY <2>2, <2>4, <2>5, <2>6, <2>7, <2>8
          DEF Next, Request, Start, ExecGet, ExecPttl, GiveUp, DeadlineHit, Leave, ExecLate, Lose
<1> QED BY <1>1, TypesKept, PTL DEF Spec, OthersDoNotRelease

-----------------------------------------------------------------------------
(* The refinement.  Beyond the records' invariant it rests on who can own  *)
(* what: no record, and no command that is still on its way, belongs to a  *)
(* request that has yet to ask for the key there.                          *)

Unasked == {"idle", "set", "get", "pttl"}

\* A record that is there, or was read, is some request's.
OwnedInv ==
    /\ \A s \in Stores : store[s].kind # "none" => store[s].owner \in Requests
    /\ \A r \in Requests : read[r].kind # "none" => read[r].owner \in Requests

\* A request has no Guard before it proceeds.
AskingInv == \A r \in Requests : pc[r] \in {"idle"} \cup Beginning => guard[r] = None

\* A pending record is of a request that proceeded with it, or that has left
\* Redis for the in-process map.
PendingInv ==
    \A s \in Stores : store[s].kind = "pending" =>
        /\ pc[store[s].owner] \notin Unasked
        /\ pc[store[s].owner] = "local" => s = Redis

\* A late command's request waits for Redis no more; it has a Guard for Redis
\* if, and only if, the command is one of finish.
StrayInv ==
    /\ \A c \in late : c.op = "set" =>
           guard[c.owner] # Redis /\ pc[c.owner] \notin Unasked
    /\ \A c \in late : c.op \in Finishing =>
           guard[c.owner] = Redis /\ pc[c.owner] \in {"stored", "released", "gone"}

LeaseInv == OwnedInv /\ AskingInv /\ PendingInv /\ StrayInv

\* What r and nobody else did keeps the owners right if r wrote no record but
\* one it runs with and left behind no command but the one it awaited.
LEMMA LeaseMove ==
    ASSUME TypeInv, RecordInv, LeaseInv, NEW r \in Requests,
           pc[r] \in {"idle", "run"} \cup Beginning \cup Finishing,
           \A q \in Requests : q # r => pc'[q] = pc[q] /\ guard'[q] = guard[q] /\ read'[q] = read[q],
           pc'[r] \in {"idle"} \cup Beginning =>
                pc[r] \in Unasked /\ pc'[r] # "idle" /\ guard'[r] = guard[r],
           guard'[r] = guard[r] \/ guard'[r] # Redis \/ pc[r] = "set",
           \A s \in Stores : store'[s].kind # "none" =>
                \/ store'[s].kind = store[s].kind /\ store'[s].owner = store[s].owner
                \/ store'[s].owner = r /\ (store'[s].kind = "pending" => pc'[r] = "run"),
           read'[r] = read[r] \/ \E s \in Stores : read'[r] = store[s],
           \A c \in late' : c \in late \/ (c.op = pc[r] /\ c.owner = r
                /\ pc'[r] \in {"local"} \cup Ends /\ guard'[r] = guard[r]
                /\ (pc[r] \in Finishing => pc'[r] \in {"stored", "released", "gone"}))
    PROVE  LeaseInv'
<1> USE DEF TypeInv, TypeOK
<1>1. pc[r] \notin {"stored", "released", "gone"}
  BY DEF Beginning, Finishing
<1>2. OwnedInv'
  <2>1. ASSUME NEW s \in Stores, store'[s].kind # "none" PROVE store'[s].owner \in Requests
    BY <2>1 DEF LeaseInv, OwnedInv
  <2>2. ASSUME NEW q \in Requests, read'[q].kind # "none" PROVE read'[q].owner \in Requests
    BY <2>2 DEF LeaseInv, OwnedInv
  <2> QED BY <2>1, <2>2 DEF OwnedInv
<1>3. AskingInv'
  <2>1. ASSUME NEW q \in Requests, pc'[q] \in {"idle"} \cup Beginning PROVE guard'[q] = None
    BY <2>1 DEF LeaseInv, AskingInv, Unasked, Beginning
  <2> QED BY <2>1 DEF AskingInv
<1>4. PendingInv'
  <2>1. ASSUME NEW s \in Stores, store'[s].kind = "pending"
        PROVE  pc'[store'[s].owner] \notin Unasked /\ (pc'[store'[s].owner] = "local" => s = Redis)
    <3>1. CASE store'[s].owner = r /\ pc'[r] = "run"
      BY <3>1 DEF Unasked
    <3>2. CASE store'[s].kind = store[s].kind /\ store'[s].owner = store[s].owner
      <4> DEFINE o == store[s].owner
      <4>1. /\ o \in Requests /\ pc[o] \notin Unasked /\ (pc[o] = "local" => s = Redis)
            /\ store'[s].owner = o
        BY <2>1, <3>2 DEF LeaseInv, OwnedInv, PendingInv
      <4> HIDE DEF o
      <4>2. CASE o # r
        BY <4>1, <4>2
      <4>3. CASE o = r
        <5>1. pc[r] \notin Unasked
          BY <4>1, <4>3
        <5>2. pc'[r] \notin {"idle"} \cup Beginning
          BY <5>1
        <5> QED BY <4>1, <4>3, <5>2 DEF Unasked, Beginning
      <4> QED BY <4>2, <4>3
    <3> QED BY <2>1, <3>1, <3>2
  <2> QED BY <2>1 DEF PendingInv
<1>5. ASSUME NEW c \in late', c.op = "set"
      PROVE  guard'[c.owner] # Redis /\ pc'[c.owner] \notin Unasked
  <2>1. CASE c \in late
    <3>1. guard[c.owner] # Redis /\ pc[c.owner] \notin Unasked /\ c.owner \in Requests
      BY <1>5, <2>1 DEF LeaseInv, StrayInv, Commands
    <3>2. CASE c.owner # r
      BY <3>1, <3>2
    <3>3. CASE c.owner = r
      <4>1. pc'[r] \notin {"idle"} \cup Beginning
        BY <3>1, <3>3
      <4>2. pc[r] # "set"
        BY <3>1, <3>3 DEF Unasked
      <4>3. guard'[r] # Redis
        BY <3>1, <3>3, <4>2
      <4> QED BY <3>3, <4>1, <4>3 DEF Unasked, Beginning
    <3> QED BY <3>2, <3>3
  <2>2. CASE c \notin late
    <3>1. c.owner = r /\ pc[r] = "set" /\ pc'[r] \in {"local"} \cup Ends /\ guard'[r] = guard[r]
      BY <1>5, <2>2
    <3>2. guard[r] = None
      BY <3>1 DEF LeaseInv, AskingInv, Beginning
    <3> QED BY <3>1, <3>2, IdempotencyAssumption DEF Stores, Unasked, Ends, Verdicts
  <2> QED BY <2>1, <2>2
<1>6. ASSUME NEW c \in late', c.op \in Finishing
      PROVE  guard'[c.owner] = Redis /\ pc'[c.owner] \in {"stored", "released", "gone"}
  <2>1. CASE c \in late
    <3>1. /\ guard[c.owner] = Redis /\ pc[c.owner] \in {"stored", "released", "gone"}
          /\ c.owner \in Requests
      BY <1>6, <2>1 DEF LeaseInv, StrayInv, Commands
    <3> QED BY <1>1, <3>1
  <2>2. CASE c \notin late
    <3>1. /\ c.owner = r /\ pc[r] \in Finishing /\ guard'[r] = guard[r]
          /\ pc'[r] \in {"stored", "released", "gone"}
      BY <1>6, <2>2
    <3>2. guard[r] = Redis
      BY <3>1 DEF RecordInv, FinishInv
    <3> QED BY <3>1, <3>2
  <2> QED BY <2>1, <2>2
<1>7. StrayInv'
  BY <1>5, <1>6 DEF StrayInv
<1> QED BY <1>2, <1>3, <1>4, <1>7 DEF LeaseInv

\* So does a step of no request that writes no record but a late command's.
LEMMA LeaseStore ==
    ASSUME TypeInv, LeaseInv, UNCHANGED <<pc, read, guard>>,
           \A s \in Stores : store'[s].kind # "none" =>
                \/ store'[s].kind = store[s].kind /\ store'[s].owner = store[s].owner
                \/ s = Redis /\ \E c \in late : store'[s].owner = c.owner
                                    /\ (store'[s].kind = "pending" => c.op = "set"),
           \A c \in late' : \E d \in late : d.op = c.op /\ d.owner = c.owner
    PROVE  LeaseInv'
<1> USE DEF TypeInv, TypeOK
<1>1. OwnedInv'
  <2>1. ASSUME NEW s \in Stores, store'[s].kind # "none" PROVE store'[s].owner \in Requests
    BY <2>1 DEF LeaseInv, OwnedInv, Commands
  <2> QED BY <2>1 DEF LeaseInv, OwnedInv
<1>2. AskingInv'
  BY DEF LeaseInv, AskingInv
<1>3. PendingInv'
  <2>1. ASSUME NEW s \in Stores, store'[s].kind = "pending"
        PROVE  pc[store'[s].owner] \notin Unasked /\ (pc[store'[s].owner] = "local" => s = Redis)
    <3>1. CASE store'[s].kind = store[s].kind /\ store'[s].owner = store[s].owner
      BY <2>1, <3>1 DEF LeaseInv, PendingInv
    <3>2. CASE s = Redis /\ \E c \in late : store'[s].owner = c.owner /\ c.op = "set"
      BY <3>2 DEF LeaseInv, StrayInv
    <3> QED BY <2>1, <3>1, <3>2
  <2> QED BY <2>1 DEF PendingInv
<1>4. StrayInv'
  <2>1. ASSUME NEW c \in late', c.op = "set" PROVE guard[c.owner] # Redis /\ pc[c.owner] \notin Unasked
    BY <2>1 DEF LeaseInv, StrayInv
  <2>2. ASSUME NEW c \in late', c.op \in Finishing
        PROVE  guard[c.owner] = Redis /\ pc[c.owner] \in {"stored", "released", "gone"}
    BY <2>2 DEF LeaseInv, StrayInv
  <2> QED BY <2>1, <2>2 DEF StrayInv
<1> QED BY <1>1, <1>2, <1>3, <1>4 DEF LeaseInv

\* The start is as it should be.
LEMMA LeaseInvInit == Init => LeaseInv
  BY DEF Init, LeaseInv, OwnedInv, AskingInv, PendingInv, StrayInv, Empty

\* How the commands change kind and owner.
LEMMA OwnerFacts ==
    ASSUME NEW rec, NEW r
    PROVE  /\ SetNx(rec, r).kind # "none" =>
                  SetNx(rec, r) = rec \/ (SetNx(rec, r).kind = "pending" /\ SetNx(rec, r).owner = r)
           /\ Release(rec, r).kind # "none" => Release(rec, r) = rec
           /\ Done(r).owner = r /\ Done(r).kind = "done" /\ Empty.kind = "none"
<1>1. SetNx(rec, r).kind # "none" =>
          SetNx(rec, r) = rec \/ (SetNx(rec, r).kind = "pending" /\ SetNx(rec, r).owner = r)
  BY DEF SetNx, Pending
<1>2. Release(rec, r).kind # "none" => Release(rec, r) = rec
  BY DEF Release, Empty
<1>3. Done(r).owner = r /\ Done(r).kind = "done" /\ Empty.kind = "none"
  BY DEF Done, Empty
<1> QED BY <1>1, <1>2, <1>3

\* Time changes neither kind nor owner, except that it ends a record.
LEMMA AgedOwner ==
    ASSUME NEW rec \in Records
    PROVE  /\ Aged(rec).kind # "none" => Aged(rec).kind = rec.kind /\ Aged(rec).owner = rec.owner
           /\ rec.ttl <= 1 => Aged(rec) = Empty
           /\ ~(rec.ttl <= 1) => Aged(rec).kind = rec.kind /\ Aged(rec).owner = rec.owner
  BY DEF Aged, Empty, Records

\* Every step keeps the owners right.
LEMMA LeaseInvStep == TypeInv /\ RecordInv /\ LeaseInv /\ [Next]_vars => LeaseInv'
<1> SUFFICES ASSUME TypeInv, RecordInv, LeaseInv, [Next]_vars PROVE LeaseInv'
  OBVIOUS
<1>0. Redis \in Stores /\ Redis \notin Instances /\ \A r \in Requests : InstanceOf[r] \in Stores /\ InstanceOf[r] # Redis
  BY IdempotencyAssumption DEF Stores
<1>1. ASSUME NEW r \in Requests, Start(r) \/ GiveUp(r) \/ DeadlineHit(r) \/ Leave(r)
      PROVE  LeaseInv'
  <2>1. UNCHANGED <<store, read, guard>> /\ \A q \in Requests : q # r => pc'[q] = pc[q]
    BY <1>1 DEF Start, GiveUp, DeadlineHit, Leave, Goto, TypeInv, TypeOK
  <2>2. /\ pc[r] \in {"idle", "run"} \cup Beginning \cup Finishing
        /\ pc'[r] \in {"idle"} \cup Beginning => pc[r] \in Unasked /\ pc'[r] # "idle"
    BY <1>1 DEF Start, GiveUp, DeadlineHit, Leave, Goto, TypeInv, TypeOK, Beginning, Finishing, Unasked
  <2>3. ASSUME NEW c \in late', c \notin late
        PROVE  /\ c.op = pc[r] /\ c.owner = r /\ pc'[r] \in {"local"} \cup Ends
               /\ pc[r] \in Finishing => pc'[r] \in {"stored", "released", "gone"}
    <3>1. c.op = pc[r] /\ c.owner = r /\ ~Start(r)
      BY <1>1, <2>3 DEF Start, GiveUp, DeadlineHit, Leave, Abandon
    <3>2. pc'[r] \in {"local"} \cup Ends /\ (pc[r] \in Finishing => pc'[r] \in {"stored", "released", "gone"})
      BY <1>1, <3>1 DEF GiveUp, DeadlineHit, Leave, Goto, TypeInv, TypeOK, Ends, Finishing, Beginning
    <3> QED BY <3>1, <3>2
  <2> QED BY <2>1, <2>2, <2>3, LeaseMove
<1>2. ASSUME NEW r \in Requests, NEW s \in Stores, pc[r] \in Beginning, Proceed(r, s),
             pc[r] = "set" \/ s # Redis
      PROVE  LeaseInv'
  <2>1. /\ UNCHANGED <<late, read>> /\ pc'[r] = "run" /\ guard'[r] = s
        /\ \A q \in Requests : q # r => pc'[q] = pc[q] /\ guard'[q] = guard[q]
    BY <1>2 DEF Proceed, Goto, TypeInv, TypeOK
  <2>2. \A t \in Stores : store'[t] = store[t] \/ store'[t] = SetNx(store[t], r)
    BY <1>2 DEF Proceed, TypeInv, TypeOK
  <2>3. \A t \in Stores : store'[t].kind # "none" =>
            \/ store'[t].kind = store[t].kind /\ store'[t].owner = store[t].owner
            \/ store'[t].owner = r /\ (store'[t].kind = "pending" => pc'[r] = "run")
    BY <2>1, <2>2, OwnerFacts
  <2>4. pc'[r] \notin {"idle"} \cup Beginning
    BY <2>1 DEF Beginning
  <2> QED BY <1>2, <2>1, <2>3, <2>4, LeaseMove
<1>3. ASSUME NEW r \in Requests, ExecSet(r) PROVE LeaseInv'
  <2>1. pc[r] = "set" /\ pc[r] \in Beginning /\ pc[r] \in Unasked
    BY <1>3 DEF ExecSet, Beginning, Unasked
  <2>2. CASE Proceed(r, Redis)
    BY <1>0, <1>2, <2>1, <2>2
  <2>3. CASE Goto(r, "get") /\ UNCHANGED <<store, late, left, tries, read, guard, age, overdue>>
    <3>1. pc'[r] = "get" /\ \A q \in Requests : q # r => pc'[q] = pc[q]
      BY <2>3 DEF Goto, TypeInv, TypeOK
    <3> QED BY <2>1, <2>3, <3>1, LeaseMove
  <2> QED BY <1>3, <2>2, <2>3 DEF ExecSet
<1>4. ASSUME NEW r \in Requests, ExecGet(r) PROVE LeaseInv'
  <2>1. /\ pc[r] \in Beginning /\ pc[r] \in Unasked /\ pc'[r] = "pttl" /\ read'[r] = store[Redis]
        /\ \A q \in Requests : q # r => pc'[q] = pc[q] /\ read'[q] = read[q]
        /\ UNCHANGED <<store, late, guard>>
    BY <1>4 DEF ExecGet, Goto, TypeInv, TypeOK, Beginning, Unasked
  <2> QED BY <1>0, <2>1, LeaseMove
<1>5. ASSUME NEW r \in Requests, ExecPttl(r) PROVE LeaseInv'
  <2>1. /\ pc[r] \in Beginning /\ pc[r] \in Unasked /\ UNCHANGED <<store, late, read, guard>>
        /\ \A q \in Requests : q # r => pc'[q] = pc[q]
        /\ pc'[r] = Existing(read[r], r) \/ pc'[r] \in {"set", "local"}
    BY <1>5 DEF ExecPttl, Goto, TypeInv, TypeOK, Beginning, Unasked
  <2>2. pc'[r] # "idle"
    BY <2>1, ExistingVerdict DEF Verdicts
  <2> QED BY <2>1, <2>2, LeaseMove
<1>6. ASSUME NEW r \in Requests, Local(r) PROVE LeaseInv'
  <2> DEFINE i == InstanceOf[r]
  <2>0. pc[r] \in Beginning
    BY <1>6 DEF Local, Beginning
  <2>1. CASE Proceed(r, i)
    BY <1>0, <1>2, <2>0, <2>1
  <2>2. CASE /\ Goto(r, Existing(store[i], r))
             /\ read' = [read EXCEPT ![r] = store[i]]
             /\ UNCHANGED <<store, late, left, tries, guard, age, overdue>>
    <3>1. /\ pc'[r] = Existing(store[i], r) /\ read'[r] = store[i]
          /\ \A q \in Requests : q # r => pc'[q] = pc[q] /\ read'[q] = read[q]
      BY <2>2 DEF Goto, TypeInv, TypeOK
    <3>2. pc'[r] \notin {"idle"} \cup Beginning
      BY <3>1, ExistingVerdict DEF Verdicts, Beginning
    <3> QED BY <1>0, <2>0, <2>2, <3>1, <3>2, LeaseMove
  <2> QED BY <1>6, <2>1, <2>2 DEF Local
<1>7. ASSUME NEW r \in Requests, Finish(r) \/ ExecFinish(r) PROVE LeaseInv'
  <2>1. /\ pc[r] \in {"run"} \cup Finishing /\ UNCHANGED <<late, read, guard>>
        /\ \A q \in Requests : q # r => pc'[q] = pc[q]
    BY <1>7 DEF Finish, ExecFinish, Goto, TypeInv, TypeOK
  <2>2. pc'[r] \in {"put", "release", "stored", "released"}
    BY <1>7 DEF Finish, ExecFinish, Goto, TypeInv, TypeOK
  <2>3. \A s \in Stores : store'[s] = store[s] \/ store'[s] = Release(store[s], r) \/ store'[s] = Done(r)
    <3>1. CASE Finish(r)
      <4>1. PICK op \in Finishing : UNCHANGED store \/ store' = [store EXCEPT ![guard[r]] = After(op, @, r)]
        BY <3>1 DEF Finish, Finishing
      <4> QED BY <4>1 DEF After, Finishing, TypeInv, TypeOK
    <3>2. CASE ExecFinish(r)
      BY <3>2 DEF ExecFinish, After, Finishing, TypeInv, TypeOK
    <3> QED BY <1>7, <3>1, <3>2
  <2>4. \A s \in Stores : store'[s].kind # "none" =>
            \/ store'[s].kind = store[s].kind /\ store'[s].owner = store[s].owner
            \/ store'[s].owner = r /\ (store'[s].kind = "pending" => pc'[r] = "run")
    BY <2>3, OwnerFacts
  <2>5. pc'[r] \notin {"idle"} \cup Beginning
    BY <2>2 DEF Beginning
  <2> QED BY <2>1, <2>4, <2>5, LeaseMove
<1>8. ASSUME NEW c \in late, ExecLate(c) \/ Lose(c) PROVE LeaseInv'
  <2>1. UNCHANGED <<pc, read, guard>> /\ late' \subseteq late
    BY <1>8 DEF ExecLate, Lose
  <2>2. c.op \in {"set", "put", "release"}
    BY DEF TypeInv, TypeOK, Commands, Finishing
  <2>3. \A s \in Stores : \/ store'[s] = store[s]
                          \/ s = Redis /\ c.op = "set" /\ store'[s] = SetNx(store[s], c.owner)
                          \/ store'[s] = Release(store[s], c.owner)
                          \/ s = Redis /\ store'[s] = Done(c.owner)
    BY <1>8, <2>2 DEF ExecLate, Lose, After, TypeInv, TypeOK
  <2>4. \A s \in Stores : store'[s].kind # "none" =>
            \/ store'[s].kind = store[s].kind /\ store'[s].owner = store[s].owner
            \/ s = Redis /\ store'[s].owner = c.owner /\ (store'[s].kind = "pending" => c.op = "set")
    BY <2>3, OwnerFacts
  <2> QED BY <2>1, <2>4, LeaseStore
<1>9. ASSUME NEW i \in Instances, Evict(i) PROVE LeaseInv'
  <2>1. UNCHANGED <<pc, read, guard, late>> /\ \A s \in Stores : store'[s] \in {store[s], Empty}
    BY <1>9 DEF Evict, TypeInv, TypeOK
  <2> QED BY <2>1, OwnerFacts, LeaseStore
<1>10. ASSUME Tick PROVE LeaseInv'
  <2>1. UNCHANGED <<pc, read, guard>> /\ \A s \in Stores : store'[s] = Aged(store[s])
    BY <1>10 DEF Tick
  <2>2. \A s \in Stores : store'[s].kind # "none" =>
            store'[s].kind = store[s].kind /\ store'[s].owner = store[s].owner
    BY <2>1, AgedOwner DEF TypeInv, TypeOK
  <2>3. ASSUME NEW c \in late' PROVE \E d \in late : d.op = c.op /\ d.owner = c.owner
    <3>1. PICK d \in late : c = [d EXCEPT !.fuse = @ - 1]
      BY <1>10, <2>3 DEF Tick
    <3> QED BY <3>1 DEF TypeInv, TypeOK, Commands
  <2> QED BY <2>1, <2>2, <2>3, LeaseStore
<1>11. ASSUME UNCHANGED vars PROVE LeaseInv'
  BY <1>11, LeaseStore DEF vars
<1> QED
  BY <1>1, <1>3, <1>4, <1>5, <1>6, <1>7, <1>8, <1>9, <1>10, <1>11 DEF Next, Request

\* What the mapping shows of a request, and of a step that only r takes.
LEMMA RequestViews ==
    ASSUME NEW r \in Requests
    PROVE  /\ Results[r] = Outcome(r) /\ Seens[r] = OwnerOf(read[r], "done")
           /\ Consulted[r] = {Redis, InstanceOf[r]}
           /\ (\A q \in Requests : q # r => pc'[q] = pc[q]) =>
                  Results' = [Results EXCEPT ![r] = Outcome(r)']
           /\ (\A q \in Requests : q # r => read'[q] = read[q]) =>
                  Seens' = [Seens EXCEPT ![r] = OwnerOf(read'[r], "done")]
<1>1. Results[r] = Outcome(r) /\ Seens[r] = OwnerOf(read[r], "done")
      /\ Consulted[r] = {Redis, InstanceOf[r]}
  BY DEF Results, Seens, Consulted
<1>2. ASSUME \A q \in Requests : q # r => pc'[q] = pc[q]
      PROVE  Results' = [Results EXCEPT ![r] = Outcome(r)']
  <2>1. \A q \in Requests : q # r => Outcome(q)' = Outcome(q)
    BY <1>2 DEF Outcome
  <2> QED BY <2>1 DEF Results
<1>3. ASSUME \A q \in Requests : q # r => read'[q] = read[q]
      PROVE  Seens' = [Seens EXCEPT ![r] = OwnerOf(read'[r], "done")]
  BY <1>3 DEF Seens
<1> QED BY <1>1, <1>2, <1>3

\* What it shows of a store, and of a step that changes no other.
LEMMA StoreViews ==
    ASSUME NEW s \in Stores
    PROVE  /\ Holders[s] = OwnerOf(store[s], "pending") /\ Kepts[s] = OwnerOf(store[s], "done")
           /\ (\A t \in Stores : t # s => store'[t] = store[t]) =>
                  /\ Holders' = [Holders EXCEPT ![s] = OwnerOf(store'[s], "pending")]
                  /\ Kepts' = [Kepts EXCEPT ![s] = OwnerOf(store'[s], "done")]
<1>1. Holders[s] = OwnerOf(store[s], "pending") /\ Kepts[s] = OwnerOf(store[s], "done")
  BY DEF Holders, Kepts
<1>2. ASSUME \A t \in Stores : t # s => store'[t] = store[t]
      PROVE  Holders' = [Holders EXCEPT ![s] = OwnerOf(store'[s], "pending")]
  BY <1>2 DEF Holders
<1>3. ASSUME \A t \in Stores : t # s => store'[t] = store[t]
      PROVE  Kepts' = [Kepts EXCEPT ![s] = OwnerOf(store'[s], "done")]
  BY <1>3 DEF Kepts
<1> QED BY <1>1, <1>2, <1>3

\* What no step of the code touches looks the same.
LEMMA SameViews ==
    /\ UNCHANGED store => UNCHANGED <<Holders, Kepts>>
    /\ UNCHANGED read => UNCHANGED Seens
    /\ (\A r \in Requests : Outcome(r)' = Outcome(r)) => UNCHANGED Results
<1>1. UNCHANGED store => UNCHANGED <<Holders, Kepts>>
  BY DEF Holders, Kepts
<1>2. UNCHANGED read => UNCHANGED Seens
  BY DEF Seens
<1>3. (\A r \in Requests : Outcome(r)' = Outcome(r)) => UNCHANGED Results
  BY DEF Results
<1> QED BY <1>1, <1>2, <1>3

\* A record's owner shows under its kind only.
LEMMA OwnerViews ==
    ASSUME NEW rec
    PROVE  /\ rec.kind = "pending" => OwnerOf(rec, "pending") = rec.owner /\ OwnerOf(rec, "done") = None
           /\ rec.kind = "done" => OwnerOf(rec, "done") = rec.owner /\ OwnerOf(rec, "pending") = None
           /\ rec.kind = "none" => OwnerOf(rec, "done") = None /\ OwnerOf(rec, "pending") = None
  BY DEF OwnerOf

\* Where a request is, and what has become of it.
LEMMA Outcomes ==
    ASSUME NEW r
    PROVE  /\ pc[r] \in {"idle", "set", "get", "pttl", "local"} => Outcome(r) = "asked"
           /\ pc[r] = "run" => Outcome(r) = "running"
           /\ pc[r] = "replay" => Outcome(r) = "replayed"
           /\ pc[r] \in {"put", "release", "stored", "released", "deadline", "gone",
                         "inprogress", "mismatch"} => Outcome(r) = "ended"
           /\ Outcome(r) = "running" => pc[r] = "run"
<1>1. pc[r] \in {"idle", "set", "get", "pttl", "local"} => Outcome(r) = "asked"
  BY DEF Outcome, Beginning
<1>2. pc[r] = "run" => Outcome(r) = "running"
  BY DEF Outcome, Beginning
<1>3. pc[r] = "replay" => Outcome(r) = "replayed"
  BY DEF Outcome, Beginning
<1>4. pc[r] \in {"put", "release", "stored", "released", "deadline", "gone",
                 "inprogress", "mismatch"} => Outcome(r) = "ended"
  BY DEF Outcome, Beginning
<1>5. Outcome(r) = "running" => pc[r] = "run"
  BY DEF Outcome, Beginning
<1> QED BY <1>1, <1>2, <1>3, <1>4, <1>5

\* The start maps to the start.
LEMMA LeaseInit == Init => L!Init
<1> SUFFICES ASSUME Init PROVE L!Init
  OBVIOUS
<1>1. Results = [r \in Requests |-> "asked"]
  BY DEF Init, Results, Outcome
<1>2. Holders = [s \in Stores |-> None] /\ Kepts = [s \in Stores |-> None]
      /\ Seens = [r \in Requests |-> None]
  BY DEF Init, Holders, Kepts, Seens, OwnerOf, Empty
<1> QED BY <1>1, <1>2 DEF L!Init, Init

\* A request that proceeds takes the key.
LEMMA ProceedTakes ==
    ASSUME TypeInv, LeaseInv, NEW r \in Requests, NEW s \in {Redis, InstanceOf[r]},
           pc[r] = "set" \/ (pc[r] = "local" /\ s # Redis),
           Fresh(store[s], r), Proceed(r, s)
    PROVE  L!Next
<1>0. s \in Stores /\ None \notin Requests
  BY IdempotencyAssumption DEF Stores
<1>1. /\ pc'[r] = "run" /\ guard' = [guard EXCEPT ![r] = s] /\ UNCHANGED read
      /\ \A q \in Requests : q # r => pc'[q] = pc[q]
      /\ store'[s] = Pending(r) /\ \A t \in Stores : t # s => store'[t] = store[t]
  BY <1>0 DEF Proceed, Goto, TypeInv, TypeOK, Fresh
<1>2. store[s].kind = "none"
  <2>1. SUFFICES ASSUME store[s].kind # "none" PROVE FALSE
    OBVIOUS
  <2>2. store[s].kind = "pending" /\ store[s].owner = r
    BY <2>1 DEF Fresh, SetNx, Pending
  <2> QED BY <1>0, <2>2 DEF LeaseInv, PendingInv, Unasked
<1>3. Holders[s] = None /\ Kepts[s] = None
  BY <1>0, <1>2, StoreViews, OwnerViews
<1>4. Pending(r).kind = "pending" /\ Pending(r).owner = r
  BY DEF Pending
<1>5. Holders' = [Holders EXCEPT ![s] = r]
  <2>1. Holders' = [Holders EXCEPT ![s] = OwnerOf(store'[s], "pending")]
    BY <1>0, <1>1, StoreViews
  <2> QED BY <1>1, <1>4, <2>1, OwnerViews
<1>6. Kepts' = Kepts
  <2>1. Kepts' = [Kepts EXCEPT ![s] = OwnerOf(store'[s], "done")]
    BY <1>0, <1>1, StoreViews
  <2>2. OwnerOf(store'[s], "done") = None
    BY <1>1, <1>4, OwnerViews
  <2>3. Kepts' = [Kepts EXCEPT ![s] = Kepts[s]]
    BY <1>3, <2>1, <2>2
  <2> QED BY <2>3 DEF Kepts
<1>7. Results[r] = "asked" /\ Results' = [Results EXCEPT ![r] = "running"]
  <2>1. Results[r] = Outcome(r) /\ Results' = [Results EXCEPT ![r] = Outcome(r)']
    BY <1>1, RequestViews
  <2>2. Outcome(r)' = "running"
    BY <1>1 DEF Outcome, Beginning
  <2> QED BY <2>1, <2>2, Outcomes
<1>8. Seens' = Seens
  BY <1>1, SameViews
<1>9. s \in Consulted[r]
  BY RequestViews
<1>10. L!Take(r)
  BY <1>1, <1>3, <1>5, <1>6, <1>7, <1>8, <1>9 DEF L!Take, L!Free
<1> QED BY <1>10 DEF L!Next

\* A verdict, a deadline and a disconnect end a request that has at most looked.
LEMMA VerdictEnds ==
    ASSUME TypeInv, LeaseInv, NEW r \in Requests, pc[r] \in Beginning,
           pc'[r] \in {"replay", "inprogress", "mismatch", "deadline", "gone"},
           \A q \in Requests : q # r => pc'[q] = pc[q] /\ read'[q] = read[q],
           UNCHANGED <<store, guard>>,
           read'[r] = read[r] \/ \E s \in {Redis, InstanceOf[r]} : read'[r] = store[s],
           pc'[r] = "replay" => read'[r].kind = "done" /\ BodyOf[read'[r].owner] = BodyOf[r]
    PROVE  L!Next
<1> DEFINE q == OwnerOf(read'[r], "done")
<1>1. Results[r] = "asked" /\ Results' = [Results EXCEPT ![r] = Outcome(r)']
  BY RequestViews, Outcomes DEF Beginning
<1>2. Seens' = [Seens EXCEPT ![r] = q]
  BY RequestViews
<1>3. UNCHANGED <<guard, Holders, Kepts>>
  BY SameViews
<1>4. q \in L!Known(r)
  <2>1. Consulted[r] = {Redis, InstanceOf[r]} /\ Seens[r] = OwnerOf(read[r], "done")
    BY RequestViews
  <2>2. CASE read'[r] = read[r]
    BY <2>1, <2>2 DEF L!Known
  <2>3. CASE \E s \in {Redis, InstanceOf[r]} : read'[r] = store[s]
    <3>1. PICK s \in {Redis, InstanceOf[r]} : read'[r] = store[s]
      BY <2>3
    <3>2. s \in Stores
      BY IdempotencyAssumption DEF Stores
    <3>3. Kepts[s] = q
      BY <3>1, <3>2, StoreViews
    <3> HIDE DEF q
    <3> QED BY <2>1, <3>3 DEF L!Known
  <2> QED BY <2>2, <2>3
<1>5. CASE pc'[r] = "replay"
  <2>1. Outcome(r)' = "replayed"
    BY <1>5 DEF Outcome, Beginning
  <2>2. q = read'[r].owner /\ BodyOf[q] = BodyOf[r]
    BY <1>5, OwnerViews
  <2>3. read'[r].kind # "none"
    BY <1>5
  <2>4. read'[r].owner \in Requests
    <3>1. CASE read'[r] = read[r]
      BY <2>3, <3>1 DEF LeaseInv, OwnedInv
    <3>2. CASE \E s \in {Redis, InstanceOf[r]} : read'[r] = store[s]
      BY <2>3, <3>2, IdempotencyAssumption DEF LeaseInv, OwnedInv, Stores
    <3> QED BY <3>1, <3>2
  <2>5. q # None
    BY <2>2, <2>4, IdempotencyAssumption
  <2> HIDE DEF q
  <2>6. L!Replay(r)
    BY <1>1, <1>2, <1>3, <1>4, <2>1, <2>2, <2>5 DEF L!Replay
  <2> QED BY <2>6 DEF L!Next
<1>6. CASE pc'[r] # "replay"
  <2>1. Outcome(r)' = "ended"
    BY <1>6 DEF Outcome, Beginning
  <2> HIDE DEF q
  <2>2. L!Refuse(r)
    BY <1>1, <1>2, <1>3, <1>4, <2>1 DEF L!Refuse
  <2> QED BY <2>2 DEF L!Next
<1> QED BY <1>5, <1>6

\* A step with the record that is r's own, in the store of its Guard, leaves the
\* response there or gives the key back.
LEMMA OwnRecord ==
    ASSUME NEW r, NEW s \in Stores,
           store[s].kind = "pending", store[s].owner = r, guard[r] = s,
           \A t \in Stores : t # s => store'[t] = store[t]
    PROVE  /\ store'[s] = Done(r) => L!Leaves(r)
           /\ store'[s] = Empty => L!GivesBack(r)
<1>1. Holders[s] = r /\ Kepts[s] = None
  BY StoreViews, OwnerViews
<1>2. /\ Holders' = [Holders EXCEPT ![s] = OwnerOf(store'[s], "pending")]
      /\ Kepts' = [Kepts EXCEPT ![s] = OwnerOf(store'[s], "done")]
  BY StoreViews
<1>3. ASSUME store'[s] = Done(r) PROVE L!Leaves(r)
  <2>1. OwnerOf(store'[s], "pending") = None /\ OwnerOf(store'[s], "done") = r
    BY <1>3, OwnerFacts, OwnerViews
  <2> QED BY <1>1, <1>2, <2>1 DEF L!Leaves
<1>4. ASSUME store'[s] = Empty PROVE L!GivesBack(r)
  <2>1. OwnerOf(store'[s], "pending") = None /\ OwnerOf(store'[s], "done") = None
    BY <1>4, OwnerFacts, OwnerViews
  <2>2. Kepts' = [Kepts EXCEPT ![s] = Kepts[s]]
    BY <1>1, <1>2, <2>1
  <2>3. Kepts' = Kepts
    BY <2>2 DEF Kepts
  <2> QED BY <1>1, <1>2, <2>1, <2>3 DEF L!GivesBack
<1> QED BY <1>3, <1>4

\* A run that ends.
LEMMA RunEnds ==
    ASSUME NEW r \in Requests, pc[r] = "run",
           pc'[r] \in {"put", "release", "stored", "released", "gone"},
           \A q \in Requests : q # r => pc'[q] = pc[q],
           UNCHANGED <<read, guard>>,
           UNCHANGED store \/ L!Leaves(r) \/ L!GivesBack(r)
    PROVE  L!Next
<1>1. Results[r] = "running" /\ Results' = [Results EXCEPT ![r] = "ended"]
  <2>1. Results[r] = Outcome(r) /\ Results' = [Results EXCEPT ![r] = Outcome(r)']
    BY RequestViews
  <2>2. Outcome(r)' = "ended"
    BY DEF Outcome, Beginning
  <2> QED BY <2>1, <2>2, Outcomes
<1>2. UNCHANGED store => UNCHANGED <<Holders, Kepts>>
  BY SameViews
<1>3. UNCHANGED <<guard, Seens>>
  BY SameViews
<1>4. L!End(r)
  BY <1>1, <1>2, <1>3 DEF L!End
<1> QED BY <1>4 DEF L!Next

\* The last command of a request that has ended, in time or late: the response
\* is kept, or the store, with whose key nobody runs, forgets it.
LEMMA LastCommand ==
    ASSUME TypeInv, RecordInv, NEW r \in Requests,
           pc[r] \in {"put", "release", "stored", "released", "gone"},
           guard[r] = Redis, store[Redis].kind = "pending", store[Redis].owner = r,
           \A t \in Stores : t # Redis => store'[t] = store[t],
           store'[Redis] \in {Done(r), Empty},
           \A q \in Requests : Outcome(q)' = Outcome(q),
           UNCHANGED <<read, guard>>
    PROVE  L!Next
<1>0. Redis \in Stores /\ Redis # None
  BY IdempotencyAssumption DEF Stores
<1>1. UNCHANGED <<Results, guard, Seens>>
  BY SameViews
<1>2. L!Leaves(r) \/ (L!GivesBack(r) /\ store'[Redis] = Empty)
  BY <1>0, OwnRecord
<1>3. CASE L!Leaves(r)
  <2>1. Results[r] = "ended"
    BY RequestViews, Outcomes
  <2>2. L!Keep(r)
    BY <1>0, <1>1, <1>3, <2>1 DEF L!Keep
  <2> QED BY <2>2 DEF L!Next
<1>4. CASE L!GivesBack(r) /\ store'[Redis] = Empty
  <2>1. ~L!RunsWith(Redis)
    <3>1. ASSUME NEW q \in Requests, Results[q] = "running", guard[q] = Redis PROVE FALSE
      <4>1. pc[q] = "run"
        BY <3>1, RequestViews, Outcomes
      <4>2. store[Redis].owner = q
        BY <3>1, <4>1 DEF RecordInv, RunInv, Holds
      <4> QED BY <4>1, <4>2
    <3> QED BY <3>1 DEF L!RunsWith
  <2>2. OwnerOf(Empty, "pending") = None /\ OwnerOf(Empty, "done") = None
    BY OwnerFacts, OwnerViews
  <2>3. Holders' = [s \in Stores |-> IF s \in {Redis} THEN None ELSE Holders[s]]
    BY <1>4, <2>2 DEF Holders
  <2>4. Kepts' = [s \in Stores |-> IF s \in {Redis} THEN None ELSE Kepts[s]]
    BY <1>4, <2>2 DEF Kepts
  <2>5. {Redis} \in SUBSET {s \in Stores : ~L!RunsWith(s)}
    BY <1>0, <2>1
  <2>6. L!Lapse
    BY <1>1, <2>3, <2>4, <2>5 DEF L!Lapse
  <2> QED BY <2>6 DEF L!Next
<1> QED BY <1>2, <1>3, <1>4

\* A SET NX that its request no longer waits for takes a free key, or nothing.
LEMMA LateTakes ==
    ASSUME TypeInv, LeaseInv, NEW r \in Requests, guard[r] # Redis,
           store' = [store EXCEPT ![Redis] = SetNx(@, r)],
           UNCHANGED <<pc, read, guard>>
    PROVE  [L!Next]_(L!vars)
<1>0. Redis \in Stores /\ Redis \in Consulted[r]
  BY RequestViews DEF Stores
<1>1. UNCHANGED <<Results, guard, Seens>>
  BY SameViews DEF Outcome
<1>2. /\ store'[Redis] = SetNx(store[Redis], r)
      /\ \A t \in Stores : t # Redis => store'[t] = store[t]
  BY <1>0 DEF TypeInv, TypeOK
<1>3. CASE store[Redis].kind = "none"
  <2>1. store'[Redis].kind = "pending" /\ store'[Redis].owner = r
    BY <1>2, <1>3 DEF SetNx, Pending
  <2>2. Holders[Redis] = None /\ Kepts[Redis] = None
    BY <1>0, <1>3, StoreViews, OwnerViews
  <2>3. Holders' = [Holders EXCEPT ![Redis] = r]
    <3>1. Holders' = [Holders EXCEPT ![Redis] = OwnerOf(store'[Redis], "pending")]
      BY <1>0, <1>2, StoreViews
    <3> QED BY <2>1, <3>1, OwnerViews
  <2>4. Kepts' = Kepts
    <3>1. Kepts' = [Kepts EXCEPT ![Redis] = OwnerOf(store'[Redis], "done")]
      BY <1>0, <1>2, StoreViews
    <3>2. OwnerOf(store'[Redis], "done") = None
      BY <2>1, OwnerViews
    <3>3. Kepts' = [Kepts EXCEPT ![Redis] = Kepts[Redis]]
      BY <2>2, <3>1, <3>2
    <3> QED BY <3>3 DEF Kepts
  <2>5. L!Stray(r)
    BY <1>0, <1>1, <2>2, <2>3, <2>4 DEF L!Stray, L!Free
  <2> QED BY <2>5 DEF L!Next
<1>4. CASE store[Redis].kind # "none"
  <2>1. store'[Redis] = store[Redis]
    BY <1>2, <1>4 DEF SetNx
  <2>2. UNCHANGED <<Holders, Kepts>>
    BY <1>2, <2>1 DEF Holders, Kepts
  <2> QED BY <1>1, <2>2 DEF L!vars
<1> QED BY <1>3, <1>4

\* Time ends only records that nobody runs with.
LEMMA TickLapses == ASSUME Prompt PROVE TypeInv /\ RecordInv /\ Tick => L!Next
<1> SUFFICES ASSUME TypeInv, RecordInv, Tick PROVE L!Next
  OBVIOUS
<1> DEFINE S == {s \in Stores : store[s].ttl <= 1}
<1>1. UNCHANGED <<pc, read, guard>> /\ \A s \in Stores : store'[s] = Aged(store[s]) /\ store[s] \in Records
  BY DEF Tick, TypeInv, TypeOK
<1>2. UNCHANGED <<Results, guard, Seens>>
  BY <1>1, SameViews DEF Outcome
<1>3. S \in SUBSET {s \in Stores : ~L!RunsWith(s)}
  <2> SUFFICES ASSUME NEW s \in S, NEW q \in Requests, Results[q] = "running", guard[q] = s
               PROVE  FALSE
    BY DEF L!RunsWith
  <2>1. pc[q] = "run"
    BY RequestViews, Outcomes
  <2>2. Holds(q, s, left[q] + Slack - RedisTimeout - 1)
    BY <2>1 DEF RecordInv, RunInv
  <2>3. left[q] \in Nat /\ left[q] > 0
    BY <2>1, IdempotencyAssumption DEF Tick, Timed, TypeInv, TypeOK
  <2>4. store[s].ttl \in Nat /\ store[s].ttl <= 1
    BY <1>1 DEF Records
  <2>5. store[s].ttl > left[q] + Slack - RedisTimeout - 1
    BY <2>2 DEF Holds
  <2> HIDE DEF S
  <2> QED BY <2>3, <2>4, <2>5, IdempotencyAssumption DEF Prompt
<1>4. ASSUME NEW s \in Stores, NEW kind \in {"pending", "done"}
      PROVE  OwnerOf(store'[s], kind) = IF s \in S THEN None ELSE OwnerOf(store[s], kind)
  <2>1. store'[s] = Aged(store[s]) /\ store[s] \in Records
    BY <1>1
  <2>2. CASE s \in S
    <3>1. store'[s] = Empty
      BY <2>1, <2>2, AgedOwner
    <3> QED BY <2>2, <3>1, OwnerFacts, OwnerViews
  <2>3. CASE s \notin S
    <3>1. store'[s].kind = store[s].kind /\ store'[s].owner = store[s].owner
      BY <2>1, <2>3, AgedOwner
    <3> QED BY <2>3, <3>1 DEF OwnerOf
  <2> QED BY <2>2, <2>3
<1> HIDE DEF S
<1>5. Holders' = [s \in Stores |-> IF s \in S THEN None ELSE Holders[s]]
  BY <1>4 DEF Holders
<1>6. Kepts' = [s \in Stores |-> IF s \in S THEN None ELSE Kepts[s]]
  BY <1>4 DEF Kepts
<1>7. L!Lapse
  BY <1>2, <1>3, <1>5, <1>6 DEF L!Lapse
<1> QED BY <1>7 DEF L!Next

\* Every step of the code is a step of the lease, or changes nothing of it.
LEMMA LeaseStep ==
    ASSUME ~LocalEvicts, Prompt
    PROVE  TypeInv /\ RecordInv /\ LeaseInv /\ [Next]_vars => [L!Next]_(L!vars)
<1> SUFFICES ASSUME TypeInv, RecordInv, LeaseInv, [Next]_vars PROVE [L!Next]_(L!vars)
  OBVIOUS
<1>0. Redis \in Stores /\ \A r \in Requests : InstanceOf[r] \in Stores /\ InstanceOf[r] # Redis
  BY IdempotencyAssumption DEF Stores
<1>1. ASSUME UNCHANGED <<store, read, guard>>, \A q \in Requests : Outcome(q)' = Outcome(q)
      PROVE  [L!Next]_(L!vars)
  BY <1>1, SameViews DEF L!vars
<1>2. ASSUME NEW r \in Requests, \A q \in Requests : q # r => pc'[q] = pc[q],
             UNCHANGED <<store, read, guard>>,
             \/ pc[r] \in {"idle"} \cup Beginning /\ pc'[r] \in {"idle"} \cup Beginning
             \/ pc[r] \in Finishing /\ pc'[r] \in {"stored", "released", "gone"}
      PROVE  [L!Next]_(L!vars)
  <2>1. Outcome(r)' = Outcome(r)
    BY <1>2 DEF Outcome, Beginning, Finishing
  <2>2. \A q \in Requests : Outcome(q)' = Outcome(q)
    BY <1>2, <2>1 DEF Outcome
  <2> QED BY <1>1, <1>2, <2>2
<1>3. ASSUME NEW r \in Requests, Start(r) PROVE [L!Next]_(L!vars)
  <2>1. /\ pc[r] = "idle" /\ pc'[r] \in Beginning /\ UNCHANGED <<store, read, guard>>
        /\ \A q \in Requests : q # r => pc'[q] = pc[q]
    BY <1>3 DEF Start, Goto, Beginning, TypeInv, TypeOK
  <2> QED BY <1>2, <2>1
<1>4. ASSUME NEW r \in Requests, ExecSet(r) PROVE [L!Next]_(L!vars)
  <2>1. CASE Fresh(store[Redis], r) /\ Proceed(r, Redis)
    BY <1>4, <2>1, ProceedTakes DEF ExecSet
  <2>2. CASE Goto(r, "get") /\ UNCHANGED <<store, late, left, tries, read, guard, age, overdue>>
    <3>1. /\ pc[r] \in Beginning /\ pc'[r] \in Beginning
          /\ \A q \in Requests : q # r => pc'[q] = pc[q]
      BY <1>4, <2>2 DEF ExecSet, Goto, Beginning, TypeInv, TypeOK
    <3> QED BY <1>2, <2>2, <3>1
  <2> QED BY <1>4, <2>1, <2>2 DEF ExecSet
<1>5. ASSUME NEW r \in Requests, ExecGet(r) PROVE [L!Next]_(L!vars)
  <2>1. /\ pc[r] = "get" /\ pc'[r] = "pttl" /\ read'[r] = store[Redis]
        /\ \A q \in Requests : q # r => pc'[q] = pc[q] /\ read'[q] = read[q]
        /\ UNCHANGED <<store, guard>>
    BY <1>5 DEF ExecGet, Goto, TypeInv, TypeOK
  <2>2. Outcome(r) = "asked" /\ Outcome(r)' = "asked"
    BY <2>1 DEF Outcome, Beginning
  <2>3. UNCHANGED <<Results, guard, Holders, Kepts>>
    <3>1. \A q \in Requests : Outcome(q)' = Outcome(q)
      BY <2>1, <2>2 DEF Outcome
    <3> QED BY <2>1, <3>1, SameViews
  <2>4. Results[r] = "asked" /\ Seens' = [Seens EXCEPT ![r] = OwnerOf(store[Redis], "done")]
    BY <2>1, <2>2, RequestViews
  <2>5. OwnerOf(store[Redis], "done") = Kepts[Redis] /\ Redis \in Consulted[r]
    BY <1>0, StoreViews, RequestViews
  <2>6. L!Look(r)
    BY <2>3, <2>4, <2>5 DEF L!Look, L!Known
  <2> QED BY <2>6 DEF L!Next
<1>6. ASSUME NEW r \in Requests, ExecPttl(r) PROVE [L!Next]_(L!vars)
  <2>1. /\ pc[r] = "pttl" /\ pc[r] \in Beginning /\ UNCHANGED <<store, read, guard>>
        /\ \A q \in Requests : q # r => pc'[q] = pc[q]
        /\ \/ read[r].kind # "none" /\ pc'[r] = Existing(read[r], r)
           \/ pc'[r] \in {"set", "local"}
    BY <1>6 DEF ExecPttl, Goto, Beginning, TypeInv, TypeOK
  <2>2. CASE pc'[r] \in {"set", "local"}
    BY <1>2, <2>1, <2>2 DEF Beginning
  <2>3. CASE read[r].kind # "none" /\ pc'[r] = Existing(read[r], r)
    <3>a. Existing(read[r], r) = "replay" =>
              BodyOf[read[r].owner] = BodyOf[r] /\ read[r].kind # "pending"
      BY ResponseRecords
    <3>b. read[r].kind \in {"none", "pending", "done"}
      BY DEF TypeInv, TypeOK, Records, Kinds
    <3>1. pc'[r] = "replay" => read[r].kind = "done" /\ BodyOf[read[r].owner] = BodyOf[r]
      BY <2>3, <3>a, <3>b
    <3>2. pc'[r] \in {"replay", "inprogress", "mismatch"}
      BY <2>3, ExistingVerdict DEF Verdicts
    <3> QED BY <2>1, <3>1, <3>2, VerdictEnds
  <2> QED BY <2>1, <2>2, <2>3
<1>7. ASSUME NEW r \in Requests, Local(r) PROVE [L!Next]_(L!vars)
  <2> DEFINE i == InstanceOf[r]
  <2>1. CASE Fresh(store[i], r) /\ Proceed(r, i)
    BY <1>0, <1>7, <2>1, ProceedTakes DEF Local
  <2>2. CASE /\ ~Fresh(store[i], r) /\ Goto(r, Existing(store[i], r))
             /\ read' = [read EXCEPT ![r] = store[i]]
             /\ UNCHANGED <<store, late, left, tries, guard, age, overdue>>
    <3>1. /\ pc[r] \in Beginning /\ pc'[r] = Existing(store[i], r) /\ read'[r] = store[i]
          /\ \A q \in Requests : q # r => pc'[q] = pc[q] /\ read'[q] = read[q]
      BY <1>7, <2>2 DEF Local, Goto, Beginning, TypeInv, TypeOK
    <3>2. store[i].kind \in {"pending", "done"}
      BY <1>0, <2>2 DEF Fresh, SetNx, TypeInv, TypeOK, Records, Kinds
    <3>3. Existing(store[i], r) = "replay" =>
              BodyOf[store[i].owner] = BodyOf[r] /\ store[i].kind # "pending"
      BY ResponseRecords
    <3>4. pc'[r] = "replay" => store[i].kind = "done" /\ BodyOf[store[i].owner] = BodyOf[r]
      BY <3>1, <3>2, <3>3
    <3>5. pc'[r] \in {"replay", "inprogress", "mismatch"}
      BY <3>1, ExistingVerdict DEF Verdicts
    <3> QED BY <2>2, <3>1, <3>4, <3>5, VerdictEnds
  <2> QED BY <1>7, <2>1, <2>2 DEF Local
<1>8. ASSUME NEW r \in Requests, Finish(r) PROVE [L!Next]_(L!vars)
  <2>1. PICK stored \in BOOLEAN :
          LET op == IF stored THEN "put" ELSE "release" IN
          IF guard[r] = Redis
          THEN Goto(r, op) /\ UNCHANGED store
          ELSE /\ Goto(r, IF stored THEN "stored" ELSE "released")
               /\ store' = [store EXCEPT ![guard[r]] = After(op, @, r)]
    BY <1>8 DEF Finish
  <2>2. pc[r] = "run" /\ UNCHANGED <<late, read, guard>>
    BY <1>8 DEF Finish
  <2>3. /\ pc'[r] \in {"put", "release", "stored", "released"}
        /\ \A q \in Requests : q # r => pc'[q] = pc[q]
    BY <2>1 DEF Goto, TypeInv, TypeOK
  <2>4. CASE guard[r] = Redis
    BY <2>1, <2>2, <2>3, <2>4, RunEnds
  <2>5. CASE guard[r] # Redis
    <3>1. guard[r] \in Stores /\ store[guard[r]].kind = "pending" /\ store[guard[r]].owner = r
      BY <2>2 DEF RecordInv, RunInv, Holds
    <3>2. /\ store'[guard[r]] = Done(r) \/ store'[guard[r]] = Release(store[guard[r]], r)
          /\ \A t \in Stores : t # guard[r] => store'[t] = store[t]
      BY <2>1, <2>5, <3>1 DEF After, TypeInv, TypeOK
    <3>3. store'[guard[r]] \in {Done(r), Empty}
      BY <3>1, <3>2 DEF Release
    <3>4. L!Leaves(r) \/ L!GivesBack(r)
      BY <3>1, <3>2, <3>3, OwnRecord
    <3> QED BY <2>2, <2>3, <3>4, RunEnds
  <2> QED BY <2>4, <2>5
<1>9. ASSUME NEW r \in Requests, NEW op \in Finishing,
             guard[r] = Redis, store[Redis].kind = "pending", store[Redis].owner = r,
             pc[r] \in {"put", "release", "stored", "released", "gone"},
             store' = [store EXCEPT ![Redis] = After(op, @, r)],
             \A q \in Requests : Outcome(q)' = Outcome(q),
             UNCHANGED <<read, guard>>
      PROVE  [L!Next]_(L!vars)
  <2>1. store'[Redis] = After(op, store[Redis], r) /\ \A t \in Stores : t # Redis => store'[t] = store[t]
    BY <1>0, <1>9 DEF TypeInv, TypeOK
  <2>2. store'[Redis] \in {Done(r), Empty}
    BY <1>9, <2>1 DEF After, Finishing, Release
  <2> QED BY <1>9, <2>1, <2>2, LastCommand
<1>10. ASSUME NEW r \in Requests, ExecFinish(r) PROVE [L!Next]_(L!vars)
  <2>1. /\ pc[r] \in Finishing /\ pc'[r] \in {"stored", "released"} /\ UNCHANGED <<read, guard>>
        /\ \A q \in Requests : q # r => pc'[q] = pc[q]
        /\ store' = [store EXCEPT ![Redis] = After(pc[r], @, r)]
    BY <1>10 DEF ExecFinish, Goto, TypeInv, TypeOK
  <2>2. guard[r] = Redis /\ store[Redis].kind = "pending" /\ store[Redis].owner = r
    BY <2>1 DEF RecordInv, FinishInv, Holds
  <2>3. Outcome(r)' = Outcome(r)
    BY <2>1 DEF Outcome, Beginning, Finishing
  <2>4. \A q \in Requests : Outcome(q)' = Outcome(q)
    BY <2>1, <2>3 DEF Outcome
  <2>5. pc[r] \in {"put", "release"}
    BY <2>1 DEF Finishing
  <2> QED BY <1>9, <2>1, <2>2, <2>4, <2>5
<1>11. ASSUME NEW r \in Requests, GiveUp(r) PROVE [L!Next]_(L!vars)
  <2>1. /\ UNCHANGED <<store, read, guard>> /\ \A q \in Requests : q # r => pc'[q] = pc[q]
        /\ \/ pc[r] \in Beginning /\ pc'[r] \in Beginning
           \/ pc[r] \in Finishing /\ pc'[r] \in {"stored", "released"}
    BY <1>11 DEF GiveUp, Goto, Beginning, Finishing, TypeInv, TypeOK
  <2> QED BY <1>2, <2>1
<1>12. ASSUME NEW r \in Requests, DeadlineHit(r) PROVE [L!Next]_(L!vars)
  <2>1. /\ pc[r] \in Beginning /\ pc'[r] = "deadline" /\ UNCHANGED <<store, read, guard>>
        /\ \A q \in Requests : q # r => pc'[q] = pc[q]
    BY <1>12 DEF DeadlineHit, Goto, Beginning, TypeInv, TypeOK
  <2> QED BY <2>1, VerdictEnds
<1>13. ASSUME NEW r \in Requests, Leave(r) PROVE [L!Next]_(L!vars)
  <2>1. /\ pc'[r] = "gone" /\ UNCHANGED <<store, read, guard>>
        /\ \A q \in Requests : q # r => pc'[q] = pc[q]
        /\ pc[r] \in Beginning \cup {"run"} \cup Finishing
    BY <1>13 DEF Leave, Goto, TypeInv, TypeOK
  <2>2. CASE pc[r] \in Beginning
    BY <2>1, <2>2, VerdictEnds
  <2>3. CASE pc[r] = "run"
    BY <2>1, <2>3, RunEnds
  <2>4. CASE pc[r] \in Finishing
    BY <1>2, <2>1, <2>4
  <2> QED BY <2>1, <2>2, <2>3, <2>4
<1>14. ASSUME NEW c \in late, ExecLate(c) PROVE [L!Next]_(L!vars)
  <2>1. /\ UNCHANGED <<pc, read, guard>> /\ c.owner \in Requests
        /\ store' = [store EXCEPT ![Redis] = After(c.op, @, c.owner)]
        /\ c.op = "set" \/ c.op \in Finishing
    BY <1>14 DEF ExecLate, TypeInv, TypeOK, Commands
  <2>2. CASE c.op = "set"
    <3>1. guard[c.owner] # Redis
      BY <2>2 DEF LeaseInv, StrayInv
    <3>2. store' = [store EXCEPT ![Redis] = SetNx(@, c.owner)]
      BY <2>1, <2>2 DEF After
    <3> QED BY <2>1, <3>1, <3>2, LateTakes
  <2>3. CASE c.op \in Finishing
    <3>1. guard[c.owner] = Redis /\ pc[c.owner] \in {"stored", "released", "gone"}
      BY <2>3 DEF LeaseInv, StrayInv
    <3>2. store[Redis].kind = "pending" /\ store[Redis].owner = c.owner
      BY <2>3 DEF RecordInv, LateInv, Holds
    <3>3. \A q \in Requests : Outcome(q)' = Outcome(q)
      BY <2>1 DEF Outcome
    <3> QED BY <1>9, <2>1, <2>3, <3>1, <3>2, <3>3
  <2> QED BY <2>1, <2>2, <2>3
<1>15. ASSUME NEW c \in late, Lose(c) PROVE [L!Next]_(L!vars)
  BY <1>1, <1>15 DEF Lose, Outcome
<1>16. ASSUME UNCHANGED vars PROVE [L!Next]_(L!vars)
  BY <1>1, <1>16 DEF vars, Outcome
<1>17. ASSUME Tick PROVE [L!Next]_(L!vars)
  BY <1>17, TickLapses
<1> QED
  BY <1>3, <1>4, <1>5, <1>6, <1>7, <1>8, <1>10, <1>11, <1>12, <1>13, <1>14, <1>15,
     <1>16, <1>17 DEF Next, Request, Evict

\* If the in-process map is never full, then behind timeouts, late and lost
\* commands, disconnects and expiry there is one key per store, which one
\* request holds at a time and nothing takes from it while it runs.
THEOREM LeaseCorrect == ASSUME ~LocalEvicts, Prompt PROVE Spec => ImplementsLease
<1>1. Init => TypeInv /\ RecordInv /\ LeaseInv
  BY TypeInvInit, RecordInvInit, LeaseInvInit
<1>2. TypeInv /\ RecordInv /\ LeaseInv /\ [Next]_vars => (TypeInv /\ RecordInv /\ LeaseInv)'
  BY TypeInvStep, RecordInvStep, LeaseInvStep
<1> QED BY <1>1, <1>2, LeaseInit, LeaseStep, PTL DEF Spec, ImplementsLease, L!Spec
=============================================================================
