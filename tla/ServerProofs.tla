---------------------------- MODULE ServerProofs ----------------------------
(***************************************************************************)
(* What TLAPS proves of module Server, for every set of connections and    *)
(* questions, every configuration and every way it is reloaded.            *)
(***************************************************************************)
EXTENDS Server, FoldLemmas

\* The parts of TypeOK.
ServeOK ==
    /\ now \in 0 .. MaxTime /\ stopAt \in 0 .. now /\ arrivals \in 0 .. MaxArrivals
    /\ phase \in {"serving", "draining", "exited"}

LocalsOK ==
    /\ pc \in [Conns -> {"idle", "cut"} \cup Ready \cup Awaits]
    /\ deadline \in [Conns -> Nat] /\ until \in [Conns -> Nat]
    /\ raw \in [Conns -> [CacheKeys -> Values]]
    /\ jobs \in [Conns -> SUBSET CacheKeys]

CacheOK == l1 \in [CacheKeys -> Values] /\ l2 \in [CacheKeys -> Values]

TokensOK ==
    /\ closure \in [Conns -> {"none", "running", "ended"}] /\ detached \in 0 .. Threads
    /\ threads \in 0 .. Threads /\ queue \in 0 .. QueueSize

\* The types, in the parts that the lemmas use.
LEMMA TypeParts == TypeOK <=> ServeOK /\ LocalsOK /\ CacheOK /\ TokensOK
BY Zenon DEF TypeOK, ServeOK, LocalsOK, CacheOK, TokensOK

\* There is at least one tokenizer thread, and tokenize_queue is a number.
LEMMA Permits == Threads \in Nat \ {0} /\ QueueSize \in Nat
<1>1. Boot.tokenizeThreads \in Nat /\ Boot.tokenizeQueue \in Nat
  BY ServerAssumption DEF ServerAssumption
<1>2. Threads \in {Boot.tokenizeThreads, 1} /\ \A n \in {Boot.tokenizeThreads, 1} : n <= Threads
  <2> DEFINE S == {Boot.tokenizeThreads, 1}
             b == Boot.tokenizeThreads + 1
  <2>1. S \in SUBSET Nat /\ S # {} /\ b \in Nat /\ \A n \in S : n <= b
    BY <1>1
  <2>2. Max(S) \in S /\ \A n \in S : n <= Max(S)
    <3> HIDE DEF S, b
    <3> QED
      BY <2>1, MaxIsGreatest
  <2> QED
    BY <2>2 DEF Threads
<1>3. SumOf(Boot.pending, DOMAIN Boot.pending) \in Nat
  BY ServerAssumption, SumFacts DEF ServerAssumption
<1> QED
  BY <1>1, <1>2, <1>3 DEF QueueSize, SumOf

\* Times and bounds are numbers.
LEMMA Times ==
    /\ Boot.timeout \in Nat /\ Boot.redisTimeout \in Nat
    /\ DrainSlack \in Nat /\ MaxTime \in Nat /\ MaxArrivals \in Nat
BY ServerAssumption DEF ServerAssumption

\* What a request asks are questions.
LEMMA Asked ==
    ASSUME NEW r \in Conns
    PROVE  /\ Items[r] \in Seq(SUBSET CacheKeys) /\ Len(Items[r]) \in Nat
           /\ AsksOf(r) \in SUBSET CacheKeys
           /\ \A i \in DOMAIN Items[r] : \A k \in Items[r][i] : k \in AsksOf(r) /\ k \in CacheKeys
<1>1. Items[r] \in Seq(SUBSET CacheKeys)
  BY ServerAssumption DEF ServerAssumption
<1>2. \A i \in DOMAIN Items[r] : Items[r][i] \in SUBSET CacheKeys
  BY <1>1
<1> QED
  BY <1>1, <1>2 DEF AsksOf

\* The two ways a handler's locals go.
LEMMA SettleFacts ==
    ASSUME LocalsOK, ServeOK, NEW r \in Conns, Settle(r) \/ End(r)
    PROVE  /\ LocalsOK'
           /\ \E p \in {"idle", "finish"} : pc' = [pc EXCEPT ![r] = p]
           /\ \A q \in Conns \ {r} : /\ raw'[q] = raw[q] /\ jobs'[q] = jobs[q]
                                     /\ deadline'[q] = deadline[q] /\ until'[q] = until[q]
           /\ pc'[r] = "finish" => deadline'[r] = deadline[r] /\ until'[r] = now + Boot.redisTimeout
<1>1. Nothing \in [CacheKeys -> Values]
  BY DEF Nothing, Values
<1>2. now \in Nat /\ now + Boot.redisTimeout \in Nat
  BY Times DEF ServeOK
<1>3. CASE End(r)
  BY <1>1, <1>3 DEF End, LocalsOK
<1>4. CASE Settle(r) /\ ~ End(r)
  BY <1>1, <1>2, <1>4 DEF Settle, LocalsOK, Awaits
<1> QED
  BY <1>3, <1>4

-----------------------------------------------------------------------------
(* Permits.                                                                *)

\* A task that has not been joined belongs to a request in encode, or to one the
\* exit has cut; once the server has exited no request is served.
TaskHasRequest ==
    /\ \A r \in Conns : closure[r] # "none" => pc[r] \in {"encode", "cut"}
    /\ phase = "exited" => \A r \in Conns : pc[r] \in {"idle", "cut"}

\* One request changes place: what its step does to the two sets counted.
LEMMA CountsFinite ==
    /\ IsFiniteSet(Running) /\ IsFiniteSet(Waiting)
    /\ Cardinality(Running) \in Nat /\ Cardinality(Waiting) \in Nat
<1>1. Running \in SUBSET Conns /\ Waiting \in SUBSET Conns
  BY DEF Running, Waiting
<1> QED
  BY <1>1, ServerAssumption, FS_Subset, FS_CardinalityType DEF ServerAssumption

\* Adding an element to a finite set, or removing one, changes its size by one.
LEMMA OneMore ==
    ASSUME NEW S, IsFiniteSet(S), NEW x, x \notin S
    PROVE  Cardinality(S \cup {x}) = Cardinality(S) + 1
BY FS_AddElement

\* As OneMore, of an element that leaves.
LEMMA OneLess ==
    ASSUME NEW S, IsFiniteSet(S), NEW x \in S
    PROVE  Cardinality(S \ {x}) = Cardinality(S) - 1
BY FS_RemoveElement

\* At the start all permits are free and no task exists.
LEMMA PermitInit == Init => PermitsExact /\ TaskHasRequest
<1> SUFFICES ASSUME Init PROVE PermitsExact /\ TaskHasRequest
  OBVIOUS
<1>1. Nothing \in [CacheKeys -> Values] /\ l2 \in [CacheKeys -> Values]
  BY ServerAssumption DEF Init, Nothing, Values, ServerAssumption
<1>2. ServeOK /\ LocalsOK /\ CacheOK
  BY <1>1, Times DEF Init, ServeOK, LocalsOK, CacheOK
<1>3. TokensOK
  BY Permits DEF Init, TokensOK
<1>4. Running = {} /\ Waiting = {}
  BY DEF Init, Running, Waiting
<1>5. Cardinality(Running) = 0 /\ Cardinality(Waiting) = 0
  BY <1>4, FS_EmptySet
<1>6. threads = Threads /\ queue = QueueSize /\ detached = 0 /\ phase = "serving"
  BY DEF Init
<1>7. PermitsExact
  BY <1>2, <1>3, <1>5, <1>6, Permits, TypeParts DEF PermitsExact
<1>8. TaskHasRequest
  BY DEF Init, TaskHasRequest
<1> QED
  BY <1>7, <1>8

-----------------------------------------------------------------------------
(* Steps.                                                                  *)

Acts(r) ==
    \/ Arrive(r) \/ Replied(r) \/ StartItems(r) \/ LookedUp(r)
    \/ Enqueue(r) \/ Acquire(r) \/ WaitTimeout(r) \/ Encoded(r) \/ EncodeTimeout(r)
    \/ Submit(r) \/ Computed(r) \/ JobsFail(r) \/ Answer(r) \/ Finished(r) \/ Leave(r)

LocalsSame(r) ==
    /\ pc'[r] = pc[r] /\ deadline'[r] = deadline[r] /\ until'[r] = until[r]
    /\ raw'[r] = raw[r] /\ jobs'[r] = jobs[r]

\* A connection's locals change by its own steps, and when the server exits.
LEMMA Locality ==
    ASSUME LocalsOK, ServeOK, [Next]_vars, NEW q \in Conns
    PROVE  LocalsSame(q) \/ Exit \/ Acts(q)
<1>1. CASE UNCHANGED locals
  BY <1>1 DEF locals, LocalsSame
<1>2. ASSUME NEW r \in Conns, Acts(r), r # q PROVE LocalsSame(q)
  <2>1. CASE Settle(r) \/ End(r)
    BY <1>2, <2>1, SettleFacts DEF LocalsSame, LocalsOK
  <2>2. CASE ~ Settle(r) /\ ~ End(r)
    BY <1>2, <2>2 DEF Acts, LocalsSame, LocalsOK, Arrive, Replied, StartItems, LookedUp, Enqueue, Acquire,
            WaitTimeout, Encoded, EncodeTimeout, Submit, Computed, JobsFail, Answer, Finished, Leave
  <2> QED
    BY <2>1, <2>2
<1>3. Tick \/ ReloadKeys \/ TaskEnds \/ Stop \/ (\E r \in Conns : Refuse(r)) \/ UNCHANGED vars => UNCHANGED locals
  BY DEF Tick, ReloadKeys, TaskEnds, Stop, Refuse, vars
<1> QED
  BY <1>1, <1>2, <1>3 DEF Next, Acts

\* A request that waits for a thread or its task has a question to tokenize.
OpenInv == \A r \in Conns : pc[r] \in {"wait", "encode"} => Open(r) # {}

\* The next item is one of the request's.
LEMMA NextItem ==
    ASSUME OpenInv, NEW r \in Conns, pc[r] = "encode"
    PROVE  Min(Open(r)) \in DOMAIN Items[r] /\ Missing(r, Min(Open(r))) \in SUBSET CacheKeys
<1>1. Open(r) # {}
  BY DEF OpenInv
<1>2. Open(r) \subseteq DOMAIN Items[r] /\ DOMAIN Items[r] \subseteq Nat
  BY Asked DEF Open
<1>3. Min(Open(r)) \in DOMAIN Items[r]
  BY <1>1, <1>2, MinIsLeast
<1> QED
  BY <1>3, Asked DEF Missing

\* A request waits for a thread only while a question of its item is open.
LEMMA OpenStep == LocalsOK /\ ServeOK /\ OpenInv /\ [Next]_vars => OpenInv'
<1> SUFFICES ASSUME LocalsOK, ServeOK, OpenInv, [Next]_vars, NEW r \in Conns, pc'[r] \in {"wait", "encode"}
             PROVE  (Open(r) # {})'
  BY DEF OpenInv
<1>1. raw'[r] = raw[r] /\ jobs'[r] = jobs[r] => Open(r)' = Open(r)
  BY DEF Open, Missing
<1>2. CASE LocalsSame(r)
  BY <1>1, <1>2 DEF OpenInv, LocalsSame
<1>3. CASE Exit
  BY <1>1, <1>3 DEF OpenInv, Exit, LocalsOK
<1>4. CASE Settle(r) \/ End(r)
  <2>1. pc'[r] \in {"idle", "finish"}
    BY <1>4, SettleFacts DEF LocalsOK
  <2> QED
    BY <2>1
<1>5. CASE Enqueue(r) /\ ~ Settle(r)
  BY <1>1, <1>5 DEF Enqueue
<1>6. CASE Acquire(r)
  BY <1>1, <1>6 DEF Acquire, OpenInv
<1>7. CASE Acts(r) /\ ~ Enqueue(r) /\ ~ Acquire(r) /\ ~ (Settle(r) \/ End(r))
  <2>1. pc'[r] \notin {"wait", "encode"}
    BY <1>7 DEF Acts, LocalsOK, Arrive, Replied, StartItems, LookedUp,
            WaitTimeout, Encoded, EncodeTimeout, Submit, Computed, JobsFail, Answer, Finished, Leave
  <2> QED
    BY <2>1
<1> QED
  BY <1>2, <1>3, <1>4, <1>5, <1>6, <1>7, Locality

\* Each step keeps the clock, the requests and the caches within their types.
LEMMA LocalsStep == ServeOK /\ LocalsOK /\ CacheOK /\ OpenInv /\ [Next]_vars => ServeOK' /\ LocalsOK' /\ CacheOK'
<1> SUFFICES ASSUME ServeOK, LocalsOK, CacheOK, OpenInv, [Next]_vars PROVE ServeOK' /\ LocalsOK' /\ CacheOK'
  OBVIOUS
<1> DEFINE Goal == ServeOK' /\ LocalsOK' /\ CacheOK'
<1> USE DEF serve, cache
<1>a. UNCHANGED serve => ServeOK'
  BY DEF ServeOK
<1>b. UNCHANGED cache => CacheOK'
  BY DEF CacheOK
<1>c. UNCHANGED locals => LocalsOK'
  BY DEF LocalsOK, locals
<1>1. CASE Tick
  BY <1>1, <1>b, <1>c, Times DEF Tick, ServeOK
<1>2. CASE ReloadKeys \/ TaskEnds \/ UNCHANGED vars
  BY <1>2, <1>a, <1>b, <1>c DEF ReloadKeys, TaskEnds, vars
<1>3. CASE Stop
  BY <1>3, <1>b, <1>c DEF Stop, ServeOK
<1>4. CASE Exit
  <2>1. ServeOK' /\ CacheOK'
    BY <1>4, <1>b DEF Exit, ServeOK
  <2>2. LocalsOK'
    BY <1>4 DEF Exit, LocalsOK
  <2> QED
    BY <2>1, <2>2
<1>5. ASSUME NEW r \in Conns, Refuse(r) PROVE Goal
  BY <1>5, <1>b, <1>c, Times DEF Refuse, ServeOK
<1>6. ASSUME NEW r \in Conns, Arrive(r) PROVE Goal
  <2>1. ServeOK' /\ CacheOK'
    BY <1>6, <1>b, Times DEF Arrive, ServeOK
  <2>2. now + Boot.timeout \in Nat
    BY Times DEF ServeOK
  <2>3. LocalsOK'
    BY <1>6, <2>2 DEF Arrive, LocalsOK, Awaits
  <2> QED
    BY <2>1, <2>3
<1>d. ASSUME NEW done, Put(done) PROVE CacheOK'
  BY <1>d DEF Put, CacheOK, Values
<1>7. ASSUME NEW r \in Conns, Settle(r) \/ End(r), UNCHANGED serve, CacheOK' PROVE Goal
  BY <1>7, <1>a, SettleFacts
<1>8. ASSUME NEW r \in Conns, StartItems(r), ~ Settle(r) PROVE Goal
  <2>1. now + Boot.redisTimeout \in Nat
    BY Times DEF ServeOK
  <2>2. LocalsOK'
    BY <1>8, <2>1 DEF StartItems, LocalsOK, Awaits
  <2> QED
    BY <1>8, <2>2, <1>a, <1>b DEF StartItems
<1>9. ASSUME NEW r \in Conns, LookedUp(r) PROVE Goal
  <2>1. PICK hits \in SUBSET {k \in AsksOf(r) : Fits(l1[k]) \/ Fits(l2[k])} :
          LET val(k) == IF Fits(l1[k]) THEN l1[k] ELSE l2[k] IN
          /\ raw' = [raw EXCEPT ![r] = [k \in CacheKeys |-> IF k \in hits THEN val(k) ELSE "none"]]
          /\ l1' = [k \in CacheKeys |-> IF k \in hits THEN val(k) ELSE l1[k]]
    BY <1>9 DEF LookedUp
  <2>2. CacheOK'
    BY <1>9, <2>1 DEF LookedUp, CacheOK
  <2>3. raw' \in [Conns -> [CacheKeys -> Values]]
    BY <2>1 DEF LocalsOK, CacheOK, Values
  <2>4. LocalsOK'
    BY <1>9, <2>3 DEF LookedUp, LocalsOK, Ready
  <2> QED
    BY <1>9, <2>2, <2>4, <1>a DEF LookedUp
<1>10. ASSUME NEW r \in Conns, Enqueue(r) \/ Acquire(r) \/ Submit(r) PROVE Goal
  <2>1. CASE Settle(r)
    BY <1>7, <1>10, <1>b, <2>1 DEF Enqueue, Acquire, Submit
  <2>2. CASE ~ Settle(r)
    <3>1. LocalsOK'
      BY <1>10, <2>2 DEF Enqueue, Acquire, Submit, LocalsOK, Awaits, Ready
    <3> QED
      BY <1>10, <3>1, <1>a, <1>b DEF Enqueue, Acquire, Submit
  <2> QED
    BY <2>1, <2>2
<1>11. ASSUME NEW r \in Conns, Encoded(r) PROVE Goal
  <2>1. CASE Settle(r)
    BY <1>7, <1>11, <1>b, <2>1 DEF Encoded
  <2>2. CASE ~ Settle(r)
    <3>1. jobs[r] \cup Missing(r, Min(Open(r))) \in SUBSET CacheKeys
      BY <1>11, NextItem DEF Encoded, LocalsOK
    <3>2. LocalsOK'
      BY <1>11, <2>2, <3>1 DEF Encoded, LocalsOK, Ready
    <3> QED
      BY <1>11, <3>2, <1>a, <1>b DEF Encoded
  <2> QED
    BY <2>1, <2>2
<1>12. ASSUME NEW r \in Conns, Computed(r) PROVE Goal
  <2>1. CacheOK'
    BY <1>12, <1>d DEF Computed
  <2>2. LocalsOK'
    BY <1>12 DEF Computed, LocalsOK, Ready, Values
  <2> QED
    BY <1>12, <2>1, <2>2, <1>a DEF Computed
<1>13. ASSUME NEW r \in Conns, JobsFail(r) \/ Leave(r) PROVE Goal
  <2>1. CacheOK'
    BY <1>13, <1>b, <1>d DEF JobsFail, Leave
  <2> QED
    BY <1>7, <1>13, <2>1 DEF JobsFail, Leave
<1>14. ASSUME NEW r \in Conns,
              Replied(r) \/ StartItems(r) \/ WaitTimeout(r) \/ EncodeTimeout(r) \/ Answer(r) \/ Finished(r)
       PROVE  Goal
  BY <1>7, <1>8, <1>14, <1>b DEF Replied, StartItems, WaitTimeout, EncodeTimeout, Answer, Finished
<1> QED
  BY <1>1, <1>2, <1>3, <1>4, <1>5, <1>6, <1>9, <1>10, <1>11, <1>12, <1>13, <1>14 DEF Next

\* A task is joined in encode only, and no request outlives the exit.
LEMMA TaskStep == LocalsOK /\ ServeOK /\ TokensOK /\ TaskHasRequest /\ [Next]_vars => TaskHasRequest'
<1> SUFFICES ASSUME LocalsOK, ServeOK, TokensOK, TaskHasRequest, [Next]_vars, NEW r \in Conns
             PROVE  /\ closure'[r] # "none" => pc'[r] \in {"encode", "cut"}
                    /\ phase' = "exited" => pc'[r] \in {"idle", "cut"}
  BY DEF TaskHasRequest
<1> DEFINE Goal == /\ closure'[r] # "none" => pc'[r] \in {"encode", "cut"}
                   /\ phase' = "exited" => pc'[r] \in {"idle", "cut"}
<1>1. CASE Exit
  BY <1>1 DEF Exit, TaskHasRequest, LocalsOK, Live, Awaits, Ready, tokens
<1>2. CASE Acts(r)
  <2>1. /\ pc[r] # "cut" /\ (pc[r] = "idle" => phase # "exited") /\ phase' = phase
    BY <1>2 DEF Acts, serve, Awaits, Arrive, Replied, StartItems, LookedUp, Enqueue, Acquire, WaitTimeout,
            Encoded, EncodeTimeout, Submit, Computed, JobsFail, Answer, Finished, Leave
  <2>2. phase' # "exited"
    BY <2>1 DEF TaskHasRequest
  <2>3. CASE Settle(r) \/ End(r)
    <3>0. pc'[r] \in {"idle", "finish"}
      BY <2>3, SettleFacts DEF LocalsOK
    <3>1. pc[r] # "encode" => closure[r] = "none"
      BY <2>1 DEF TaskHasRequest
    <3>2. ~ (Encoded(r) \/ EncodeTimeout(r) \/ Leave(r)) => closure' = closure /\ pc[r] # "encode"
      BY <1>2, <3>0 DEF LocalsOK, Acts, tokens, Arrive, Replied, StartItems, LookedUp, Enqueue, Acquire, WaitTimeout,
            Submit, Computed, JobsFail, Answer, Finished
    <3>3. Encoded(r) \/ EncodeTimeout(r) \/ Leave(r) => closure'[r] = "none"
      BY DEF Encoded, EncodeTimeout, Leave, Detach, TokensOK
    <3> QED
      BY <2>2, <3>1, <3>2, <3>3
  <2>4. CASE ~ Settle(r) /\ ~ End(r)
    BY <1>2, <2>2, <2>4 DEF TaskHasRequest, LocalsOK, TokensOK, tokens, Detach,
            Acts, Arrive, Replied, StartItems, LookedUp, Enqueue, Acquire, WaitTimeout,
            Encoded, EncodeTimeout, Submit, Computed, JobsFail, Answer, Finished, Leave
  <2> QED
    BY <2>3, <2>4
<1>3. CASE LocalsSame(r) /\ ~ Exit
  <2>1. closure'[r] # "none" => closure[r] # "none" \/ Acts(r)
    BY <1>3 DEF TokensOK, Next, Acts, Tick, ReloadKeys, TaskEnds, Stop, Refuse, vars, tokens, Detach,
            Arrive, Replied, StartItems, LookedUp, Enqueue, Acquire, WaitTimeout,
            Encoded, EncodeTimeout, Submit, Computed, JobsFail, Answer, Finished, Leave
  <2>2. phase' = "exited" => phase = "exited"
    BY <1>3 DEF Next, Tick, ReloadKeys, TaskEnds, Stop, Refuse, vars, serve,
            Arrive, Replied, StartItems, LookedUp, Enqueue, Acquire, WaitTimeout,
            Encoded, EncodeTimeout, Submit, Computed, JobsFail, Answer, Finished, Leave
  <2> QED
    BY <1>2, <1>3, <2>1, <2>2 DEF TaskHasRequest, LocalsSame
<1> QED
  BY <1>1, <1>2, <1>3, Locality

\* The two sums that PermitsExact states.
Counted ==
    /\ threads + Cardinality(Running) + detached = Threads
    /\ queue + Cardinality(Waiting) + Cardinality(Running) + detached = QueueSize

\* Where the sums are right, the permits are within their bounds.
LEMMA CountedInRange ==
    ASSUME closure' \in [Conns -> {"none", "running", "ended"}], Counted',
           detached' \in Nat, threads' \in Nat, queue' \in Nat
    PROVE  TokensOK'
<1>1. Running' \in SUBSET Conns /\ Waiting' \in SUBSET Conns
  BY DEF Running, Waiting
<1>2. IsFiniteSet(Running') /\ IsFiniteSet(Waiting')
  BY <1>1, ServerAssumption, FS_Subset DEF ServerAssumption
<1>3. Cardinality(Running') \in Nat /\ Cardinality(Waiting') \in Nat
  BY <1>2, FS_CardinalityType
<1> QED
  BY <1>3, Permits DEF Counted, TokensOK

\* How one request's move changes who waits.
LEMMA WaitingMoves ==
    ASSUME LocalsOK, NEW r \in Conns, NEW p, pc' = [pc EXCEPT ![r] = p]
    PROVE  /\ p = "wait" => Waiting' = Waiting \cup {r}
           /\ p # "wait" => Waiting' = Waiting \ {r}
BY DEF Waiting, LocalsOK

\* How one request's move changes whose task runs.
LEMMA RunningMoves ==
    ASSUME TokensOK, NEW r \in Conns, NEW p, closure' = [closure EXCEPT ![r] = p]
    PROVE  /\ p = "running" => Running' = Running \cup {r}
           /\ p # "running" => Running' = Running \ {r}
BY DEF Running, TokensOK

\* A request that stops waiting for its task leaves the sums as they are.
LEMMA DetachCounts ==
    ASSUME TokensOK, Counted, NEW r \in Conns, Detach(r), threads' = threads,
           pc[r] # "wait", Waiting' = Waiting, queue' = queue
    PROVE  Counted' /\ TokensOK'
<1>1. Running' = Running \ {r}
  BY RunningMoves, ZenonT(60) DEF Detach
<1>2. closure' \in [Conns -> {"none", "running", "ended"}] /\ detached \in Nat /\ threads \in Nat /\ queue \in Nat
  <2>1. closure \in [Conns -> {"none", "running", "ended"}] /\ detached \in Nat /\ threads \in Nat /\ queue \in Nat
    BY DEF TokensOK
  <2>2. closure' = [closure EXCEPT ![r] = "none"]
    BY DEF Detach
  <2> QED
    BY <2>1, <2>2
<1>3. CASE closure[r] = "running"
  <2>1. r \in Running /\ detached' = detached + 1
    BY <1>3 DEF Running, Detach
  <2>2. Cardinality(Running') = Cardinality(Running) - 1
    BY <1>1, <2>1, CountsFinite, OneLess
  <2>3. Counted'
    BY <1>2, <2>1, <2>2, CountsFinite DEF Counted
  <2> QED
    BY <1>2, <2>1, <2>3, CountedInRange
<1>4. CASE closure[r] # "running"
  <2>1. Running' = Running /\ detached' = detached
    BY <1>1, <1>4 DEF Running, Detach
  <2>2. Counted'
    BY <2>1 DEF Counted
  <2> QED
    BY <1>2, <2>1, <2>2, CountedInRange
<1> QED
  BY <1>3, <1>4

\* Every step moves as many permits as requests and tasks.
LEMMA CountedStep ==
    ASSUME LocalsOK, ServeOK, TokensOK, TaskHasRequest, Counted, phase # "exited", [Next]_vars
    PROVE  TokensOK' /\ (phase' # "exited" => Counted')
<1> DEFINE Goal == TokensOK' /\ Counted'
<1>0. detached \in Nat /\ threads \in Nat /\ queue \in Nat
  BY DEF TokensOK
<1>1. ASSUME UNCHANGED tokens, Waiting' = Waiting PROVE Goal
  BY <1>1 DEF tokens, TokensOK, Counted, Running
<1>2. CASE Exit
  BY <1>2 DEF Exit, tokens, TokensOK
<1>3. CASE Tick \/ ReloadKeys \/ Stop \/ (\E r \in Conns : Refuse(r)) \/ UNCHANGED vars
  <2>1. UNCHANGED <<tokens, locals>>
    BY <1>3 DEF Tick, ReloadKeys, Stop, Refuse, vars
  <2> QED
    BY <1>1, <2>1 DEF Waiting, locals
<1>4. CASE TaskEnds
  <2>1. Waiting' = Waiting /\ threads' = threads + 1 /\ queue' = queue + 1
    BY <1>4 DEF TaskEnds, locals, Waiting
  <2>2. CASE detached > 0 /\ detached' = detached - 1 /\ UNCHANGED closure
    <3>1. Running' = Running
      BY <2>2 DEF Running
    <3>2. Counted'
      BY <1>0, <2>1, <2>2, <3>1, CountsFinite DEF Counted
    <3> QED
      BY <1>0, <2>1, <2>2, <3>2, CountedInRange DEF TokensOK
  <2>3. ASSUME NEW r \in Conns, closure[r] = "running", closure' = [closure EXCEPT ![r] = "ended"],
               UNCHANGED detached
        PROVE  Goal
    <3>0. r \in Running
      BY <2>3 DEF Running
    <3>a. closure' = [closure EXCEPT ![r] = "ended"]
      BY <2>3
    <3>b. Running' = Running \ {r}
      BY <3>a, RunningMoves, ZenonT(60)
    <3>1. Running' = Running \ {r} /\ r \in Running
      BY <3>0, <3>b
    <3>2. Cardinality(Running') = Cardinality(Running) - 1
      BY <3>1, CountsFinite, OneLess
    <3>3. Counted'
      BY <1>0, <2>1, <2>3, <3>2, CountsFinite DEF Counted
    <3>4. closure' \in [Conns -> {"none", "running", "ended"}]
      BY <2>3 DEF TokensOK
    <3> QED
      BY <1>0, <2>1, <2>3, <3>3, <3>4, CountedInRange
  <2> QED
    BY <1>4, <2>2, <2>3 DEF TaskEnds
<1>5. ASSUME NEW r \in Conns, Settle(r) \/ End(r)
      PROVE  Waiting' = Waiting \ {r}
  BY <1>5, SettleFacts, WaitingMoves
<1>6. ASSUME NEW r \in Conns, Enqueue(r), ~ (now >= deadline[r] \/ queue = 0) PROVE Goal
  <2>1. Waiting' = Waiting \cup {r} /\ r \notin Waiting
    BY <1>6, WaitingMoves DEF Enqueue, Waiting
  <2>2. Cardinality(Waiting') = Cardinality(Waiting) + 1
    BY <2>1, CountsFinite, OneMore
  <2>3. Running' = Running /\ queue' = queue - 1 /\ queue # 0 /\ UNCHANGED <<closure, detached, threads>>
    BY <1>6 DEF Enqueue, Running
  <2>4. Counted'
    BY <1>0, <2>2, <2>3, CountsFinite DEF Counted
  <2>5. closure' \in [Conns -> {"none", "running", "ended"}] /\ queue' \in Nat
    BY <1>0, <2>3 DEF TokensOK
  <2> QED
    BY <1>0, <2>3, <2>4, <2>5, CountedInRange
<1>7. ASSUME NEW r \in Conns, Acquire(r) PROVE Goal
  <2>0. r \in Waiting
    BY <1>7 DEF Acquire, Waiting
  <2>a. pc' = [pc EXCEPT ![r] = "encode"]
    BY <1>7 DEF Acquire
  <2>b. Waiting' = Waiting \ {r}
    BY <2>a, WaitingMoves, ZenonT(60)
  <2>1. Waiting' = Waiting \ {r} /\ r \in Waiting
    BY <2>0, <2>b
  <2>2. Running' = Running \cup {r} /\ r \notin Running
    BY <1>7, RunningMoves DEF Acquire, Running, TaskHasRequest
  <2>3. Cardinality(Waiting') = Cardinality(Waiting) - 1 /\ Cardinality(Running') = Cardinality(Running) + 1
    BY <2>1, <2>2, CountsFinite, OneMore, OneLess
  <2>4. threads' = threads - 1 /\ threads > 0 /\ UNCHANGED <<detached, queue>>
    BY <1>7 DEF Acquire
  <2>5. Counted'
    BY <1>0, <2>3, <2>4, CountsFinite DEF Counted
  <2>6. closure' \in [Conns -> {"none", "running", "ended"}]
    BY <1>7 DEF Acquire, TokensOK
  <2> QED
    BY <1>0, <2>4, <2>5, <2>6, CountedInRange
<1>8. ASSUME NEW r \in Conns, pc[r] = "wait", Settle(r) \/ End(r), queue' = queue + 1,
             UNCHANGED <<closure, detached, threads>>
      PROVE  Goal
  <2>1. Waiting' = Waiting \ {r} /\ r \in Waiting
    BY <1>5, <1>8 DEF Waiting
  <2>2. Cardinality(Waiting') = Cardinality(Waiting) - 1
    BY <2>1, CountsFinite, OneLess
  <2>3. Running' = Running
    BY <1>8 DEF Running
  <2>4. Counted'
    BY <1>0, <1>8, <2>2, <2>3, CountsFinite DEF Counted
  <2>5. closure' \in [Conns -> {"none", "running", "ended"}] /\ queue' \in Nat
    BY <1>0, <1>8 DEF TokensOK
  <2> QED
    BY <1>0, <1>8, <2>4, <2>5, CountedInRange
<1>9. ASSUME NEW r \in Conns, Encoded(r) PROVE Goal
  <2>1. pc[r] = "encode" /\ closure[r] = "ended" /\ closure' = [closure EXCEPT ![r] = "none"]
        /\ UNCHANGED <<detached, threads, queue>>
    BY <1>9 DEF Encoded
  <2>2. Waiting' = Waiting
    <3>1. CASE Settle(r)
      BY <1>5, <2>1, <3>1 DEF Waiting
    <3>2. CASE ~ Settle(r)
      BY <1>9, <2>1, <3>2 DEF Encoded, Waiting, LocalsOK
    <3> QED
      BY <3>1, <3>2
  <2>3. Running' = Running
    BY <2>1, RunningMoves DEF Running
  <2>4. closure' \in [Conns -> {"none", "running", "ended"}]
    BY <2>1 DEF TokensOK
  <2> QED
    BY <1>0, <2>1, <2>2, <2>3, <2>4, CountedInRange DEF Counted
<1>10. ASSUME NEW r \in Conns, EncodeTimeout(r) PROVE Goal
  <2>1. pc[r] = "encode" /\ Detach(r) /\ Waiting' = Waiting /\ UNCHANGED <<threads, queue>>
    BY <1>5, <1>10 DEF EncodeTimeout, Waiting
  <2> QED
    BY <2>1, DetachCounts
<1>11. ASSUME NEW r \in Conns, Leave(r) PROVE Goal
  <2>1. CASE pc[r] = "wait"
    <3>1. closure[r] = "none"
      BY <2>1 DEF TaskHasRequest
    <3>2. UNCHANGED <<closure, detached>>
      BY <1>11, <3>1 DEF Leave, Detach, TokensOK
    <3> QED
      BY <1>8, <1>11, <2>1, <3>2 DEF Leave
  <2>2. CASE pc[r] # "wait"
    <3>1. Detach(r) /\ Waiting' = Waiting /\ UNCHANGED <<threads, queue>>
      BY <1>5, <1>11, <2>2 DEF Leave, Waiting
    <3> QED
      BY <2>2, <3>1, DetachCounts
  <2> QED
    BY <2>1, <2>2
<1>12. ASSUME NEW r \in Conns, Acts(r), Enqueue(r) => now >= deadline[r] \/ queue = 0, ~ Acquire(r), ~ WaitTimeout(r),
              ~ Encoded(r), ~ EncodeTimeout(r), ~ Leave(r)
       PROVE  Goal
  <2>1. UNCHANGED tokens /\ pc[r] # "wait"
    BY <1>12 DEF Acts, tokens, Arrive, Replied, StartItems, LookedUp, Enqueue,
            Submit, Computed, JobsFail, Answer, Finished
  <2>2. Waiting' = Waiting
    <3>1. CASE Settle(r) \/ End(r)
      BY <1>5, <2>1, <3>1 DEF Waiting
    <3>2. CASE ~ (Settle(r) \/ End(r))
      BY <1>12, <3>2 DEF Waiting, LocalsOK, Acts, Arrive, Replied, StartItems, LookedUp, Enqueue,
            Submit, Computed, JobsFail, Answer, Finished
    <3> QED
      BY <3>1, <3>2
  <2> QED
    BY <1>1, <2>1, <2>2
<1>13. ASSUME NEW r \in Conns, WaitTimeout(r) PROVE Goal
  BY <1>8, <1>13 DEF WaitTimeout
<1> QED
  BY <1>2, <1>3, <1>4, <1>6, <1>7, <1>9, <1>10, <1>11, <1>12, <1>13 DEF Next, Acts

\* Nothing happens after the exit.
LEMMA ExitIsFinal ==
    ASSUME TaskHasRequest, phase = "exited", [Next]_vars
    PROVE  UNCHANGED vars
<1>1. \A r \in Conns : ~ Acts(r) /\ ~ Refuse(r)
  BY DEF TaskHasRequest, Acts, Refuse, Arrive, Replied, StartItems, LookedUp, Enqueue, Acquire, WaitTimeout,
         Encoded, EncodeTimeout, Submit, Computed, JobsFail, Answer, Finished, Leave, Awaits
<1> QED
  BY <1>1 DEF Next, Acts, Tick, ReloadKeys, TaskEnds, Stop, Exit

\* The inductive invariant of the permits.
PermitInv == PermitsExact /\ TaskHasRequest /\ OpenInv

\* The invariant, in the parts that the lemmas use.
LEMMA PermitParts ==
    PermitInv <=> /\ ServeOK /\ LocalsOK /\ CacheOK /\ TokensOK /\ OpenInv /\ TaskHasRequest
                  /\ phase # "exited" => Counted
BY TypeParts, Zenon DEF PermitInv, PermitsExact, Counted

\* The permits' invariant, at the start...
LEMMA PermitInvInit == Init => PermitInv
BY PermitInit DEF PermitInv, OpenInv, Init

\* ... and after each step.
LEMMA PermitInvStep == PermitInv /\ [Next]_vars => PermitInv'
<1> SUFFICES ASSUME PermitInv, [Next]_vars PROVE PermitInv'
  OBVIOUS
<1>1. /\ ServeOK /\ LocalsOK /\ CacheOK /\ TokensOK /\ OpenInv /\ TaskHasRequest
      /\ phase # "exited" => Counted
  BY PermitParts
<1>2. ServeOK' /\ LocalsOK' /\ CacheOK' /\ OpenInv' /\ TaskHasRequest'
  BY <1>1, LocalsStep, OpenStep, TaskStep
<1>3. TokensOK' /\ (phase' # "exited" => Counted')
  <2>1. CASE phase = "exited"
    <3>1. UNCHANGED vars
      BY <1>1, <2>1, ExitIsFinal
    <3>2. TokensOK'
      BY <1>1, <3>1 DEF vars, tokens, TokensOK
    <3> QED
      BY <2>1, <3>1, <3>2 DEF vars, serve
  <2>2. CASE phase # "exited"
    BY <1>1, <2>2, CountedStep
  <2> QED
    BY <2>1, <2>2
<1>4. TypeOK'
  BY <1>2, <1>3, Zenon DEF TypeOK, ServeOK, LocalsOK, CacheOK, TokensOK
<1>5. PermitsExact'
  BY <1>3, <1>4, Zenon DEF PermitsExact, Counted
<1> QED
  BY <1>2, <1>5 DEF PermitInv

\* The tokenizer's permits (run's closures, spawned with both permits): none is
\* leaked and none is given back twice, however a request ends.
THEOREM PermitsExactThm == Spec => []PermitsExact
<1>1. Init => PermitInv
  BY PermitInvInit
<1>2. PermitInv /\ [Next]_vars => PermitInv'
  BY PermitInvStep
<1>3. PermitInv => PermitsExact
  BY DEF PermitInv
<1> QED
  BY <1>1, <1>2, <1>3, PTL DEF Spec

\* The permits' invariant holds always.
LEMMA PermitInvThm == Spec => []PermitInv
BY PermitInvInit, PermitInvStep, PTL DEF Spec

-----------------------------------------------------------------------------
(* Answers.                                                                *)

\* What a request has is of the right shape, and once nothing is left to
\* tokenize each question it asks has a raw or a job.
RawInv ==
    \A r \in Conns :
        /\ \A k \in CacheKeys : raw[r][k] \in {"none", "good"}
        /\ pc[r] = "jobs" => \A k \in AsksOf(r) : raw[r][k] = "good" \/ k \in jobs[r]
        /\ pc[r] = "answer" => \A k \in AsksOf(r) : raw[r][k] = "good"

\* With no item open, no question is missing.
LEMMA NothingOpen ==
    ASSUME NEW r \in Conns, Open(r) = {}, NEW k \in AsksOf(r)
    PROVE  raw[r][k] # "none" \/ k \in jobs[r]
<1>1. PICK i \in DOMAIN Items[r] : k \in Items[r][i]
  BY DEF AsksOf
<1>2. Missing(r, i) = {}
  BY <1>1 DEF Open
<1> QED
  BY <1>1, <1>2 DEF Missing

\* Every step keeps the raws in shape and the questions accounted for.
LEMMA RawStep == PermitInv /\ RawInv /\ [Next]_vars => RawInv'
<1> SUFFICES ASSUME PermitInv, RawInv, [Next]_vars, NEW r \in Conns
             PROVE  /\ \A k \in CacheKeys : raw'[r][k] \in {"none", "good"}
                    /\ pc'[r] = "jobs" => \A k \in AsksOf(r) : raw'[r][k] = "good" \/ k \in jobs'[r]
                    /\ pc'[r] = "answer" => \A k \in AsksOf(r) : raw'[r][k] = "good"
  BY DEF RawInv, AsksOf
<1> DEFINE Goal == /\ \A k \in CacheKeys : raw'[r][k] \in {"none", "good"}
                   /\ pc'[r] = "jobs" => \A k \in AsksOf(r) : raw'[r][k] = "good" \/ k \in jobs'[r]
                   /\ pc'[r] = "answer" => \A k \in AsksOf(r) : raw'[r][k] = "good"
<1>0. LocalsOK /\ ServeOK /\ CacheOK
  BY PermitParts
<1>a. AsksOf(r) \subseteq CacheKeys
  BY Asked
<1>1. CASE LocalsSame(r)
  BY <1>1 DEF LocalsSame, RawInv
<1>2. CASE Exit
  BY <1>0, <1>2 DEF Exit, RawInv, LocalsOK
<1>3. CASE Settle(r) \/ End(r)
  <2>1. pc'[r] \in {"idle", "finish"}
    BY <1>0, <1>3, SettleFacts DEF LocalsOK
  <2>2. raw'[r] = Nothing
    BY <1>0, <1>3 DEF Settle, End, LocalsOK
  <2> QED
    BY <2>1, <2>2 DEF Nothing
<1>4. CASE LookedUp(r)
  <2>1. PICK hits \in SUBSET {k \in AsksOf(r) : Fits(l1[k]) \/ Fits(l2[k])} :
          raw' = [raw EXCEPT ![r] = [k \in CacheKeys |->
                    IF k \in hits THEN IF Fits(l1[k]) THEN l1[k] ELSE l2[k] ELSE "none"]]
    BY <1>4 DEF LookedUp
  <2>2. \A k \in CacheKeys : raw'[r][k] \in {"none", "good"}
    BY <1>0, <2>1 DEF Fits, LocalsOK
  <2> QED
    BY <1>0, <1>4, <2>2 DEF LookedUp, LocalsOK
<1>5. CASE Submit(r)
  <2>1. raw' = raw /\ jobs' = jobs /\ Open(r) = {} /\ pc'[r] = IF jobs[r] = {} THEN "answer" ELSE "jobs"
    BY <1>0, <1>5 DEF Submit, LocalsOK
  <2>2. \A k \in AsksOf(r) : raw[r][k] = "good" \/ k \in jobs[r]
    BY <1>a, <2>1, NothingOpen DEF RawInv
  <2> QED
    BY <2>1, <2>2 DEF RawInv
<1>6. CASE Computed(r)
  <2>1. /\ raw'[r] = [k \in CacheKeys |-> IF k \in jobs[r] THEN "good" ELSE raw[r][k]]
        /\ pc[r] = "jobs" /\ pc'[r] = "answer"
    BY <1>0, <1>6 DEF Computed, LocalsOK
  <2> QED
    BY <1>a, <2>1 DEF RawInv
<1>7. CASE Acts(r) /\ ~ (Settle(r) \/ End(r)) /\ ~ LookedUp(r) /\ ~ Submit(r) /\ ~ Computed(r)
  <2>1. raw'[r] = raw[r] /\ pc'[r] \notin {"jobs", "answer"}
    BY <1>0, <1>7 DEF LocalsOK, Acts, Arrive, Replied, StartItems, Enqueue, Acquire, WaitTimeout,
            Encoded, EncodeTimeout, JobsFail, Answer, Finished, Leave
  <2> QED
    BY <2>1 DEF RawInv
<1> QED
  BY <1>0, <1>1, <1>2, <1>3, <1>4, <1>5, <1>6, <1>7, Locality

\* A 200 carries a raw of the right shape for each question of each item.
THEOREM EveryQuestionAnsweredThm == Spec => []EveryQuestionAnswered
<1>1. Init => RawInv
  BY DEF Init, RawInv, Nothing
<1>2. PermitInv /\ RawInv /\ [Next]_vars => RawInv'
  BY RawStep
<1>3. RawInv => EveryQuestionAnswered
  BY DEF RawInv, EveryQuestionAnswered
<1> QED
  BY <1>1, <1>2, <1>3, PermitInvThm, PTL DEF Spec

-----------------------------------------------------------------------------
(* Time.                                                                   *)

\* Where each await stands against its timer: the deadline bounds the waits
\* that are under it, and each of the two waits for Redis adds its timeout.
TimeInv ==
    \A r \in Conns :
        /\ pc[r] \in {"begin", "wait", "encode"} => now <= deadline[r]
        /\ pc[r] \in {"items", "jobs", "answer"} => now <= deadline[r] + Boot.redisTimeout
        /\ pc[r] = "cache"  => now <= until[r] /\ until[r] <= deadline[r] + Boot.redisTimeout
        /\ pc[r] = "finish" => now <= until[r] /\ until[r] <= deadline[r] + 2 * Boot.redisTimeout

\* What the times come to: no request is two Redis timeouts late.
LEMMA TimeInvBounds ==
    ASSUME LocalsOK, ServeOK, TimeInv, NEW r \in Conns
    PROVE  /\ deadline[r] \in Nat /\ until[r] \in Nat /\ now \in Nat /\ Boot.redisTimeout \in Nat
           /\ Live(r) => now <= deadline[r] + 2 * Boot.redisTimeout
           /\ Live(r) /\ pc[r] # "finish" => now <= deadline[r] + Boot.redisTimeout
<1>1. deadline[r] \in Nat /\ until[r] \in Nat /\ now \in Nat /\ Boot.redisTimeout \in Nat
  BY Times DEF LocalsOK, ServeOK
<1> QED
  BY <1>1 DEF TimeInv, Live, Awaits, Ready

\* Every step keeps each await within its timer; a tick waits for those that are over.
LEMMA TimeStep == PermitInv /\ TimeInv /\ [Next]_vars => TimeInv'
<1> SUFFICES ASSUME PermitInv, TimeInv, [Next]_vars, NEW r \in Conns
             PROVE  /\ pc'[r] \in {"begin", "wait", "encode"} => now' <= deadline'[r]
                    /\ pc'[r] \in {"items", "jobs", "answer"} => now' <= deadline'[r] + Boot.redisTimeout
                    /\ pc'[r] = "cache"  => now' <= until'[r] /\ until'[r] <= deadline'[r] + Boot.redisTimeout
                    /\ pc'[r] = "finish" => now' <= until'[r] /\ until'[r] <= deadline'[r] + 2 * Boot.redisTimeout
  BY DEF TimeInv
<1>0. LocalsOK /\ ServeOK
  BY PermitParts
<1>a. /\ deadline[r] \in Nat /\ until[r] \in Nat /\ now \in Nat /\ Boot.redisTimeout \in Nat /\ Boot.timeout \in Nat
      /\ Live(r) => now <= deadline[r] + 2 * Boot.redisTimeout
      /\ Live(r) /\ pc[r] # "finish" => now <= deadline[r] + Boot.redisTimeout
  BY <1>0, TimeInvBounds, Times
<1>1. CASE Tick
  <2>1. now' = now + 1 /\ UNCHANGED locals /\ pc[r] \notin Ready /\ ~ Due(r)
    BY <1>1 DEF Tick
  <2>2. pc[r] \in {"begin", "wait", "encode", "jobs"} => now < deadline[r]
    BY <1>a, <2>1 DEF Due, Timer
  <2>3. pc[r] \in {"cache", "finish"} => now < until[r]
    BY <1>a, <2>1 DEF Due, Timer
  <2> QED
    BY <1>a, <2>1, <2>2, <2>3 DEF Ready, TimeInv, locals
<1>2. ~ Tick => now' = now
  BY DEF Next, ReloadKeys, TaskEnds, Stop, Exit, Refuse, vars, serve,
         Arrive, Replied, StartItems, LookedUp, Enqueue, Acquire, WaitTimeout,
         Encoded, EncodeTimeout, Submit, Computed, JobsFail, Answer, Finished, Leave
<1>3. CASE ~ Tick /\ LocalsSame(r)
  BY <1>2, <1>3 DEF LocalsSame, TimeInv
<1>4. CASE Exit
  <2>1. now' = now /\ deadline' = deadline /\ until' = until /\ pc'[r] \in {"cut", pc[r]}
    BY <1>0, <1>4 DEF Exit, LocalsOK
  <2> QED
    BY <2>1 DEF TimeInv
<1>5. CASE Acts(r) /\ (Settle(r) \/ End(r))
  <2>1. /\ pc'[r] \in {"idle", "finish"}
        /\ pc'[r] = "finish" => deadline'[r] = deadline[r] /\ until'[r] = now + Boot.redisTimeout
    BY <1>0, <1>5, SettleFacts DEF LocalsOK
  <2>2. now' = now
    BY <1>5 DEF Acts, serve, Arrive, Replied, StartItems, LookedUp, Enqueue, Acquire, WaitTimeout,
            Encoded, EncodeTimeout, Submit, Computed, JobsFail, Answer, Finished, Leave
  <2>3. CASE End(r)
    <3>1. pc'[r] = "idle"
      BY <1>0, <2>3 DEF End, LocalsOK
    <3> QED
      BY <3>1
  <2>4. CASE ~ End(r)
    <3>1. Live(r) /\ pc[r] # "finish"
      <4>1. pc[r] \in {"begin", "cache", "items", "wait", "encode", "jobs", "answer"}
        BY <1>0, <1>5, <2>1, <2>4 DEF Acts, LocalsOK, Arrive, Replied, StartItems, LookedUp, Enqueue, Acquire,
            WaitTimeout, Encoded, EncodeTimeout, Submit, Computed, JobsFail, Answer, Finished, Leave
      <4> QED
        BY <4>1 DEF Live, Awaits, Ready
    <3> QED
      BY <1>a, <2>1, <2>2, <3>1
  <2> QED
    BY <2>3, <2>4
<1>6. CASE Acts(r) /\ ~ (Settle(r) \/ End(r))
  <2>1. now' = now
    BY <1>6 DEF Acts, serve, Arrive, Replied, StartItems, LookedUp, Enqueue, Acquire, WaitTimeout,
            Encoded, EncodeTimeout, Submit, Computed, JobsFail, Answer, Finished, Leave
  <2>2. CASE Arrive(r)
    BY <1>0, <1>a, <2>1, <2>2 DEF Arrive, LocalsOK
  <2>3. CASE StartItems(r)
    BY <1>0, <1>a, <1>6, <2>1, <2>3 DEF StartItems, LocalsOK, TimeInv
  <2>4. CASE LookedUp(r)
    BY <1>0, <1>a, <2>1, <2>4 DEF LookedUp, LocalsOK, TimeInv
  <2>5. CASE Enqueue(r) \/ Acquire(r)
    BY <1>0, <1>a, <1>6, <2>1, <2>5 DEF Enqueue, Acquire, LocalsOK, TimeInv
  <2>6. CASE Encoded(r)
    BY <1>0, <1>a, <1>6, <2>1, <2>6 DEF Encoded, LocalsOK, TimeInv
  <2>7. CASE Submit(r) \/ Computed(r)
    BY <1>0, <1>a, <2>1, <2>7 DEF Submit, Computed, LocalsOK, TimeInv
  <2> QED
    BY <1>6, <2>2, <2>3, <2>4, <2>5, <2>6, <2>7 DEF Acts, Replied, WaitTimeout, EncodeTimeout, JobsFail,
            Answer, Finished, Leave
<1> QED
  BY <1>0, <1>1, <1>3, <1>4, <1>5, <1>6, Locality

\* The times' invariant holds always.
LEMMA TimeInvThm == Spec => []TimeInv
<1>1. Init => TimeInv
  BY DEF Init, TimeInv
<1> QED
  BY <1>1, TimeStep, PermitInvThm, PTL DEF Spec

\* No wait of the handler is unbounded: whatever is late or lost, a request has
\* ended two Redis timeouts after its deadline.
THEOREM EndsInTimeThm == Spec => []EndsInTime
<1>1. PermitInv /\ TimeInv => EndsInTime
  BY PermitParts, TimeInvBounds DEF EndsInTime
<1> QED
  BY <1>1, TimeInvThm, PermitInvThm, PTL

\* Only the exit cuts a request.
CutLate(r) == deadline[r] - Boot.timeout <= stopAt => now - deadline[r] \in DrainSlack .. 2 * Boot.redisTimeout
CutInv == \A r \in Conns : pc[r] = "cut" => phase = "exited" /\ CutLate(r)

\* A request is cut at the exit only, when the drain has ended and the request not.
LEMMA CutStep == PermitInv /\ TimeInv /\ CutInv /\ [Next]_vars => CutInv'
<1> SUFFICES ASSUME PermitInv, TimeInv, CutInv, [Next]_vars, NEW r \in Conns, pc'[r] = "cut"
             PROVE  phase' = "exited" /\ CutLate(r)'
  BY DEF CutInv
<1>0. LocalsOK /\ ServeOK /\ TaskHasRequest
  BY PermitParts
<1>1. CASE phase = "exited"
  <2>1. UNCHANGED vars
    BY <1>0, <1>1, ExitIsFinal
  <2> QED
    BY <2>1 DEF vars, serve, locals, CutInv, CutLate
<1>2. CASE Exit
  <2>1. Live(r) /\ phase' = "exited" /\ stopAt' = stopAt /\ deadline' = deadline /\ now' = now
    BY <1>0, <1>2 DEF Exit, CutInv
  <2>2. now >= stopAt + Boot.timeout + DrainSlack
    BY <1>2, <2>1 DEF Exit, DrainEnds
  <2>3. now <= deadline[r] + 2 * Boot.redisTimeout
    BY <1>0, <2>1, TimeInvBounds
  <2>4. stopAt \in Nat /\ now \in Nat /\ deadline[r] \in Nat
    BY <1>0, Times DEF ServeOK, LocalsOK
  <2> QED
    BY <2>1, <2>2, <2>3, <2>4, Times DEF CutLate
<1>3. CASE phase # "exited" /\ ~ Exit
  <2>1. pc[r] # "cut"
    BY <1>3 DEF CutInv
  <2>2. ~ LocalsSame(r)
    BY <2>1 DEF LocalsSame
  <2>3. Acts(r)
    BY <1>0, <1>3, <2>2, Locality
  <2>4. pc'[r] # "cut"
    <3>1. CASE Settle(r) \/ End(r)
      BY <1>0, <3>1, SettleFacts DEF LocalsOK
    <3>2. CASE ~ (Settle(r) \/ End(r))
      BY <1>0, <2>3, <3>2 DEF LocalsOK, Acts, Arrive, Replied, StartItems, LookedUp, Enqueue, Acquire, WaitTimeout,
            Encoded, EncodeTimeout, Submit, Computed, JobsFail, Answer, Finished, Leave
    <3> QED
      BY <3>1, <3>2
  <2> QED
    BY <2>4
<1> QED
  BY <1>1, <1>2, <1>3

\* A stop cuts a request that had begun only if Redis has kept it past its
\* deadline for as long as the drain exceeds a request; so never one that does
\* not wait for Redis, nor any if two redis_timeouts are shorter than that.
THEOREM DrainCoversThm == Spec => []DrainCovers
<1>1. Init => CutInv
  BY DEF Init, CutInv
<1>2. CutInv => DrainCovers
  BY DEF CutInv, CutLate, DrainCovers
<1> QED
  BY <1>1, <1>2, CutStep, TimeInvThm, PermitInvThm, PTL DEF Spec

-----------------------------------------------------------------------------
(* Keys.                                                                   *)

\* The keys are those of a file that was validated; what a key has been granted
\* and what its limiter has left are within its burst and what has come back.
KeysInv ==
    /\ keys = Boot.keys \/ \E c \in Files : Valid(c) /\ keys = c.keys
    /\ cells \in [DOMAIN keys -> Nat] /\ age \in [DOMAIN keys -> Nat] /\ granted \in [DOMAIN keys -> Nat]
    /\ \A k \in DOMAIN keys : granted[k] + cells[k] <= keys[k].burst + keys[k].rps * age[k]

\* The rates and bursts of the keys in use are numbers.
LEMMA KeyNumbers ==
    ASSUME KeysInv, NEW k \in DOMAIN keys
    PROVE  keys[k].rps \in Nat /\ keys[k].burst \in Nat
BY KeysAssumption DEF KeysInv, KeysAssumption

\* What one more tick adds to a product.
LEMMA OneTickMore ==
    ASSUME NEW n \in Nat, NEW a \in Nat
    PROVE  n * (a + 1) = n * a + n /\ n * a \in Nat /\ n * 0 = 0
OBVIOUS

\* A charge, a tick and a reload keep each limiter's account.
LEMMA KeysStep == PermitInv /\ KeysInv /\ [Next]_vars => KeysInv'
<1> SUFFICES ASSUME PermitInv, KeysInv, [Next]_vars PROVE KeysInv'
  OBVIOUS
<1>1. CASE UNCHANGED keyVars
  BY <1>1 DEF keyVars, KeysInv
<1>2. CASE Refill
  <2>1. /\ UNCHANGED <<keys, granted>>
        /\ cells' = [k \in DOMAIN keys |->
                       IF cells[k] + keys[k].rps > keys[k].burst THEN keys[k].burst ELSE cells[k] + keys[k].rps]
        /\ age' = [k \in DOMAIN keys |-> age[k] + 1]
    BY <1>2 DEF Refill
  <2>2. ASSUME NEW k \in DOMAIN keys
        PROVE  /\ cells'[k] \in Nat /\ age'[k] \in Nat
               /\ granted'[k] + cells'[k] <= keys'[k].burst + keys'[k].rps * age'[k]
    <3>1. /\ keys[k].rps \in Nat /\ keys[k].burst \in Nat
          /\ cells[k] \in Nat /\ age[k] \in Nat /\ granted[k] \in Nat
          /\ granted[k] + cells[k] <= keys[k].burst + keys[k].rps * age[k]
      BY KeyNumbers DEF KeysInv
    <3>2. keys[k].rps * (age[k] + 1) = keys[k].rps * age[k] + keys[k].rps /\ keys[k].rps * age[k] \in Nat
      BY <3>1, OneTickMore
    <3>3. cells'[k] \in Nat /\ cells'[k] <= cells[k] + keys[k].rps
      BY <2>1, <3>1
    <3>4. age'[k] = age[k] + 1 /\ granted'[k] = granted[k] /\ keys' = keys
      BY <2>1
    <3> QED
      BY <3>1, <3>2, <3>3, <3>4
  <2>3. keys' = keys /\ granted' = granted
    BY <2>1
  <2>4. cells' \in [DOMAIN keys -> Nat] /\ age' \in [DOMAIN keys -> Nat]
    BY <2>1, <2>2
  <2> QED
    BY <2>2, <2>3, <2>4 DEF KeysInv
<1>3. CASE Reload
  <2>1. PICK c \in Files :
          /\ Valid(c) /\ keys' = c.keys
          /\ cells' = [k \in DOMAIN c.keys |-> IF Kept(c, k) THEN cells[k] ELSE c.keys[k].burst]
          /\ age' = [k \in DOMAIN c.keys |-> IF Kept(c, k) THEN age[k] ELSE 0]
          /\ granted' = [k \in DOMAIN c.keys |-> IF Kept(c, k) THEN granted[k] ELSE 0]
    BY <1>3 DEF Reload, Kept
  <2>2. ASSUME NEW k \in DOMAIN c.keys
        PROVE  /\ cells'[k] \in Nat /\ age'[k] \in Nat /\ granted'[k] \in Nat
               /\ granted'[k] + cells'[k] <= c.keys[k].burst + c.keys[k].rps * age'[k]
    <3>1. c.keys[k].rps \in Nat /\ c.keys[k].burst \in Nat
      BY KeysAssumption DEF KeysAssumption
    <3>2. CASE Kept(c, k)
      BY <2>1, <3>2 DEF Kept, KeysInv
    <3>3. CASE ~ Kept(c, k)
      <4>1. cells'[k] = c.keys[k].burst /\ age'[k] = 0 /\ granted'[k] = 0
        BY <2>1, <3>3
      <4> QED
        BY <3>1, <4>1, OneTickMore
    <3> QED
      BY <3>2, <3>3
  <2>3. cells' \in [DOMAIN keys' -> Nat] /\ age' \in [DOMAIN keys' -> Nat] /\ granted' \in [DOMAIN keys' -> Nat]
    BY <2>1, <2>2
  <2> QED
    BY <2>1, <2>2, <2>3 DEF KeysInv
<1>4. ASSUME NEW r \in Conns, KeyOf[r] \in DOMAIN keys, Charge(KeyOf[r], Len(Items[r])) PROVE KeysInv'
  <2> DEFINE key == KeyOf[r]
             n == Len(Items[r])
  <2>1. n \in Nat /\ key \in DOMAIN keys
    BY <1>4, Asked
  <2>2. /\ n <= cells[key] /\ keys' = keys /\ age' = age
        /\ cells' = [cells EXCEPT ![key] = @ - n]
        /\ granted' = [granted EXCEPT ![key] = @ + n]
    BY <1>4 DEF Charge, Affords
  <2> HIDE DEF key, n
  <2>3. ASSUME NEW k \in DOMAIN keys
        PROVE  /\ cells'[k] \in Nat /\ granted'[k] \in Nat
               /\ granted'[k] + cells'[k] = granted[k] + cells[k]
    BY <2>1, <2>2 DEF KeysInv
  <2>4. cells' \in [DOMAIN keys -> Nat] /\ granted' \in [DOMAIN keys -> Nat]
    BY <2>1, <2>2, <2>3 DEF KeysInv
  <2> QED
    BY <2>2, <2>3, <2>4 DEF KeysInv
<1>5. ASSUME NEW r \in Conns, Acts(r), ~ Arrive(r) PROVE UNCHANGED keyVars
  BY <1>5 DEF Acts, Replied, StartItems, LookedUp, Enqueue, Acquire, WaitTimeout,
         Encoded, EncodeTimeout, Submit, Computed, JobsFail, Answer, Finished, Leave
<1> QED
  BY <1>1, <1>2, <1>3, <1>4, <1>5 DEF Next, Acts, Tick, ReloadKeys, TaskEnds, Stop, Exit, Refuse, Arrive, vars

\* The keys' invariant holds always.
LEMMA KeysInvThm == Spec => []KeysInv
<1>1. Init => KeysInv
  <2> SUFFICES ASSUME Init PROVE KeysInv
    OBVIOUS
  <2>1. /\ keys = Boot.keys
        /\ cells = [k \in DOMAIN keys |-> keys[k].burst]
        /\ age = [k \in DOMAIN keys |-> 0] /\ granted = [k \in DOMAIN keys |-> 0]
    BY DEF Init, KeysInit
  <2>2. \A k \in DOMAIN keys : keys[k].rps \in Nat /\ keys[k].burst \in Nat
    BY <2>1, KeysAssumption DEF KeysAssumption
  <2>3. ASSUME NEW k \in DOMAIN keys
        PROVE  granted[k] + cells[k] <= keys[k].burst + keys[k].rps * age[k]
    <3>1. granted[k] = 0 /\ cells[k] = keys[k].burst /\ age[k] = 0
      BY <2>1
    <3>2. keys[k].rps * 0 = 0
      BY <2>2, OneTickMore
    <3> QED
      BY <2>2, <3>1, <3>2
  <2>4. cells \in [DOMAIN keys -> Nat] /\ age \in [DOMAIN keys -> Nat] /\ granted \in [DOMAIN keys -> Nat]
    BY <2>1, <2>2
  <2> QED
    BY <2>1, <2>3, <2>4 DEF KeysInv
<1> QED
  BY <1>1, KeysStep, PermitInvThm, PTL DEF Spec

\* However often the keys are reloaded, a key whose configuration stays is
\* charged no more than its burst and what its rate has added since.
THEOREM BudgetKeptThm == Spec => []BudgetKept
<1>1. KeysInv => BudgetKept
  <2> SUFFICES ASSUME KeysInv, NEW k \in DOMAIN keys
               PROVE  granted[k] <= keys[k].burst + keys[k].rps * age[k]
    BY DEF BudgetKept
  <2>1. /\ granted[k] \in Nat /\ cells[k] \in Nat /\ age[k] \in Nat
        /\ granted[k] + cells[k] <= keys[k].burst + keys[k].rps * age[k]
    BY DEF KeysInv
  <2>2. keys[k].burst \in Nat /\ keys[k].rps * age[k] \in Nat
    BY <2>1, KeyNumbers, OneTickMore
  <2> QED
    BY <2>1, <2>2
<1> QED
  BY <1>1, KeysInvThm, PTL

\* "n > burst; startup validation prevents this" is right of a server whose
\* reloaded files never lower max_batch_states.
THEOREM BurstCoversBatchThm ==
    ASSUME \A c \in Files : Valid(c) => c.maxBatch >= Boot.maxBatch
    PROVE  Spec => []BurstCoversBatch
<1>1. KeysInv => BurstCoversBatch
  <2> SUFFICES ASSUME KeysInv, NEW k \in DOMAIN keys PROVE keys[k].burst >= Boot.maxBatch
    BY DEF BurstCoversBatch
  <2>1. Valid(Boot) /\ Boot.maxBatch \in Nat /\ \A c \in Files : c.maxBatch \in Nat
    BY KeysAssumption DEF KeysAssumption
  <2>2. keys[k].burst \in Nat
    BY KeyNumbers
  <2>3. CASE keys = Boot.keys
    BY <2>1, <2>3 DEF Valid
  <2>4. CASE keys # Boot.keys
    <3>1. PICK c \in Files : Valid(c) /\ keys = c.keys
      BY <2>4 DEF KeysInv
    <3>2. keys[k].burst >= c.maxBatch /\ c.maxBatch >= Boot.maxBatch
      BY <3>1 DEF Valid
    <3> QED
      BY <2>1, <2>2, <3>1, <3>2
  <2> QED
    BY <2>3, <2>4
<1> QED
  BY <1>1, KeysInvThm, PTL
=============================================================================
