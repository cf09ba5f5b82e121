-------------------------- MODULE RefinementProofs --------------------------
(***************************************************************************)
(* Scheduler implements Coalescing, for any requests, keys, models,        *)
(* workers and bounds.                                                     *)
(***************************************************************************)
EXTENDS SchedulerProofs, SchedulerCoalesces

-----------------------------------------------------------------------------
(* A request that was not admitted, or that has ended, subscribes to       *)
(* nothing.                                                                *)

SubsIdle == \A r \in Requests : subs[r] # {} => pc[r] \in {"send", "wait"}

\* Every return empties a request's subscriptions.
LEMMA IdleStep == TypeOK /\ SubsIdle /\ [Next]_vars => SubsIdle'
<1> SUFFICES ASSUME TypeOK, SubsIdle, [Next]_vars, NEW q \in Requests, subs'[q] # {}
             PROVE  pc'[q] \in {"send", "wait"}
  BY DEF SubsIdle
<1> DEFINE Goal == pc'[q] \in {"send", "wait"}
<1>0. RequestsOK /\ (subs[q] # {} => pc[q] \in {"send", "wait"})
  BY DEF TypeOK, SubsIdle
<1>1. CASE pc'[q] = pc[q] /\ subs'[q] = subs[q]
  BY <1>0, <1>1
<1>2. ASSUME NEW r \in Requests, NEW result, Return(r, result) PROVE Goal
  BY <1>0, <1>1, <1>2 DEF Return, RequestsOK
<1>3. ASSUME NEW r \in Requests, Lookup(r) \/ CheckDeadline(r) PROVE Goal
  <2>1. CASE \E result : Return(r, result)
    BY <1>2, <2>1
  <2>2. CASE pc[r] \in {"lookup", "check"} /\ subs' = subs /\ \E p : pc' = [pc EXCEPT ![r] = p]
    BY <1>0, <1>1, <2>2 DEF RequestsOK
  <2> QED
    BY <1>3, <2>1, <2>2 DEF Lookup, CheckDeadline
<1>4. ASSUME NEW r \in Requests, Admit(r) PROVE Goal
  <2>1. pc' = [pc EXCEPT ![r] = "send"] /\ \A p \in Requests \ {r} : subs'[p] = subs[p]
    BY <1>4, AdmitFacts DEF Admit
  <2> QED
    BY <1>0, <1>1, <2>1 DEF RequestsOK
<1>5. ASSUME NEW r \in Requests, Shed(r) \/ Timeout(r) \/ Abandon(r) PROVE Goal
  BY <1>2, <1>5 DEF Shed, Timeout, Abandon
<1>6. ASSUME NEW r \in Requests, Settle(r) PROVE Goal
  <2>1. CASE \E result : Return(r, result)
    BY <1>2, <2>1
  <2>2. CASE subs[r] = {} /\ subs' = subs /\ pc' = [pc EXCEPT ![r] = "check"]
    BY <1>0, <1>1, <2>2 DEF RequestsOK
  <2> QED
    BY <1>6, <2>1, <2>2 DEF Settle
<1>7. ASSUME NEW r \in Requests, Sent(r) PROVE Goal
  BY <1>0, <1>1, <1>7 DEF Sent, RequestsOK
<1>8. ASSUME NEW r \in Requests, NEW g \in Gens, Send(r, g) \/ Poll(r, g) PROVE Goal
  <2>1. pc' = pc /\ (subs' = subs \/ (pc[r] = "wait" /\ subs' = [subs EXCEPT ![r] = @ \ {g}]))
    BY <1>8 DEF Send, Poll
  <2> QED
    BY <1>0, <1>1, <2>1 DEF RequestsOK
<1> QED
  BY <1>1, <1>3, <1>4, <1>5, <1>6, <1>7, <1>8, RequestsFrame DEF Next, RunJobs, request

-----------------------------------------------------------------------------
(* The shapes a step of Scheduler takes behind the mapping.                *)

Outcome(r) == IF pc[r] \in Ended THEN pc[r] ELSE "asked"

\* A step that ends no computation, no request and no wait changes nothing abstract.
LEMMA Stutters ==
    ASSUME Computing' = Computing, itemKey' = itemKey, cached' = cached,
           \A r \in Requests : Outcome(r)' = Outcome(r),
           \A r \in Requests : subs'[r] \cap Computing = subs[r] \cap Computing
    PROVE  UNCHANGED C!vars
<1>1. [r \in Requests |-> IF pc'[r] \in Ended THEN pc'[r] ELSE "asked"]
        = [r \in Requests |-> IF pc[r] \in Ended THEN pc[r] ELSE "asked"]
  BY DEF Outcome
<1>2. [r \in Requests |-> subs'[r] \cap Computing'] = [r \in Requests |-> subs[r] \cap Computing]
  OBVIOUS
<1> QED
  BY <1>1, <1>2 DEF C!vars

\* An item that begins its drop is a computation that ends.
LEMMA Ends ==
    ASSUME NEW g \in Computing, Computing' = Computing \ {g},
           pc' = pc, subs' = subs, itemKey' = itemKey, cached' = cached
    PROVE  C!Next
<1>1. g \in Gens
  BY DEF Computing
<1>2. [r \in Requests |-> subs'[r] \cap Computing']
        = [r \in Requests |-> [q \in Requests |-> subs[q] \cap Computing][r] \ {g}]
  OBVIOUS
<1>3. C!End(g)
  BY <1>2 DEF C!End
<1> QED
  BY <1>1, <1>3 DEF C!Next

\* A request that returns an error fails in the abstract.
LEMMA Fails ==
    ASSUME TypeOK, NEW r \in Requests, NEW why \in C!Failures, Return(r, why), pc[r] \notin Ended,
           phase' = phase, itemKey' = itemKey, cached' = cached
    PROVE  C!Next
<1> DEFINE res == [q \in Requests |-> IF pc[q] \in Ended THEN pc[q] ELSE "asked"]
           wts == [q \in Requests |-> subs[q] \cap Computing]
<1>1. RequestsOK /\ Computing' = Computing
  BY DEF TypeOK, Computing
<1>2. [q \in Requests |-> IF pc'[q] \in Ended THEN pc'[q] ELSE "asked"] = [res EXCEPT ![r] = why]
  BY <1>1 DEF Return, RequestsOK, C!Failures, Ended
<1>3. [q \in Requests |-> subs'[q] \cap Computing'] = [wts EXCEPT ![r] = {}]
  BY <1>1 DEF Return, RequestsOK
<1>4. C!Fail(r)
  BY <1>1, <1>2, <1>3 DEF C!Fail
<1> QED
  BY <1>4 DEF C!Next

\* A request that returns ok with all its keys cached is answered in the abstract.
LEMMA Answers ==
    ASSUME TypeOK, NEW r \in Requests, pc[r] \notin Ended, subs[r] = {}, Asks[r] \subseteq cached,
           pc' = [pc EXCEPT ![r] = "ok"],
           \A q \in Requests : subs'[q] = subs[q],
           phase' = phase, itemKey' = itemKey, cached' = cached
    PROVE  C!Next
<1> DEFINE res == [q \in Requests |-> IF pc[q] \in Ended THEN pc[q] ELSE "asked"]
<1>1. RequestsOK /\ Computing' = Computing
  BY DEF TypeOK, Computing
<1>2. [q \in Requests |-> IF pc'[q] \in Ended THEN pc'[q] ELSE "asked"] = [res EXCEPT ![r] = "ok"]
  BY <1>1 DEF RequestsOK, Ended
<1>3. [q \in Requests |-> subs'[q] \cap Computing'] = [q \in Requests |-> subs[q] \cap Computing]
  BY <1>1
<1>4. res[r] = "asked" /\ [q \in Requests |-> subs[q] \cap Computing][r] = {}
  OBVIOUS
<1>5. C!Answer(r)
  BY <1>1, <1>2, <1>3, <1>4 DEF C!Answer
<1> QED
  BY <1>5 DEF C!Next

-----------------------------------------------------------------------------
(* Admission is Ask.                                                       *)

\* A request lacks only keys it asks for.
TodoAsked == \A r \in Requests : todo[r] \subseteq Asks[r]

\* What a request has to do stays within what it asked for.
LEMMA TodoStep == TypeOK /\ TodoAsked /\ [Next]_vars => TodoAsked'
<1> SUFFICES ASSUME TypeOK, TodoAsked, [Next]_vars, NEW q \in Requests
             PROVE  todo'[q] \subseteq Asks[q]
  BY DEF TodoAsked
<1> DEFINE Goal == todo'[q] \subseteq Asks[q]
<1>0. RequestsOK /\ todo[q] \subseteq Asks[q]
  BY DEF TypeOK, TodoAsked
<1>1. CASE todo' = todo
  BY <1>0, <1>1
<1>2. ASSUME NEW r \in Requests, NEW result, Return(r, result) PROVE Goal
  BY <1>0, <1>2 DEF Return, RequestsOK
<1>3. ASSUME NEW r \in Requests, Lookup(r) PROVE Goal
  BY <1>0, <1>3 DEF Lookup, RequestsOK
<1>4. ASSUME NEW r \in Requests,
             CheckDeadline(r) \/ Shed(r) \/ Settle(r) \/ Timeout(r) \/ Abandon(r)
      PROVE  Goal
  <2>1. (\E result : Return(r, result)) \/ todo' = todo
    BY <1>4 DEF CheckDeadline, Shed, Settle, Timeout, Abandon
  <2> QED
    BY <1>1, <1>2, <2>1
<1>5. ASSUME NEW r \in Requests, Admit(r) \/ Sent(r) PROVE Goal
  BY <1>1, <1>5 DEF Admit, Sent
<1>6. ASSUME NEW r \in Requests, NEW g \in Gens, Send(r, g) PROVE Goal
  BY <1>1, <1>6 DEF Send
<1>7. ASSUME NEW r \in Requests, NEW g \in Gens, Poll(r, g) PROVE Goal
  BY <1>0, <1>7 DEF Poll, RequestsOK
<1> QED
  BY <1>1, <1>3, <1>4, <1>5, <1>6, <1>7, RequestsFrame DEF Next, RunJobs, request

\* What is computed for a key that somebody waits for: its entry, if that can
\* be joined and still computes.
LEMMA WantedEntry ==
    ASSUME TypeOK, MapInv, NEW k \in Keys
    PROVE  /\ Joinable(k) /\ entry[k] \in Computing => C!Wanted(k) = {entry[k]}
           /\ ~Joinable(k) => C!Wanted(k) = {}
<1> DEFINE W == {c \in Computing : itemKey[c] = k /\ \E r \in Requests : c \in subs[r] \cap Computing}
<1>1. C!Wanted(k) = W
  BY DEF C!Wanted
<1>2. \A c \in W : entry[k] = c /\ Subscribers(c) # {}
  BY DEF MapInv, WantedIsMapped, Computing, Subscribers
<1>3. \A c \in W : c \in Gens /\ c # None
  BY BoundsAssumption DEF Computing, BoundsAssumption
<1>4. ~Joinable(k) => W = {}
  BY <1>2, <1>3 DEF Joinable
<1>5. ASSUME Joinable(k), entry[k] \in Computing PROVE entry[k] \in W
  BY <1>5 DEF Joinable, Subscribers, MapInv, EntriesAlive
<1> QED
  BY <1>1, <1>2, <1>4, <1>5

\* The critical section of admission is one Ask of all the request's keys.
LEMMA AdmitAsks ==
    ASSUME TypeOK, TypeOK', MapInv, SubsIdle, TodoAsked, NEW r \in Requests, Admit(r)
    PROVE  C!Next
<1> DEFINE wts == [q \in Requests |-> subs[q] \cap Computing]
           res == [q \in Requests |-> IF pc[q] \in Ended THEN pc[q] ELSE "asked"]
           K   == {k \in todo[r] : k \in Fresh(r) \/ entry[k] \in Computing}
           of  == [g \in Born |-> itemKey'[g]]
<1>0. RequestsOK /\ ItemsOK /\ RequestsOK' /\ ItemsOK'
  BY DEF TypeOK
<1>1. pc[r] = "admit" /\ pc' = [pc EXCEPT ![r] = "send"] /\ cached' = cached
  BY DEF Admit
<1>2. res[r] = "asked" /\ wts[r] = {}
  BY <1>1 DEF Ended, SubsIdle
<1>3. [q \in Requests |-> IF pc'[q] \in Ended THEN pc'[q] ELSE "asked"] = res
  BY <1>0, <1>1 DEF Ended, RequestsOK
<1>4. Computing' = Computing \cup Born /\ Born \subseteq Gens \ Computing
  BY AdmitFacts DEF Computing, Queued, Running
<1>5. Fresh(r) \subseteq K /\ K \subseteq Asks[r] /\ K \subseteq Keys
  BY <1>0 DEF Fresh, TodoAsked, RequestsOK
<1>6. \A k \in K : IF k \in Fresh(r) THEN C!Wanted(k) = {} ELSE C!Wanted(k) = {entry[k]}
  BY <1>5, WantedEntry DEF Fresh
<1>7. {k \in K : C!Wanted(k) = {}} = Fresh(r)
  BY <1>5, <1>6
<1>8. UNION {C!Wanted(k) : k \in K} = Joined(r) \cap Computing
  <2>1. ASSUME NEW c, c \in UNION {C!Wanted(k) : k \in K} PROVE c \in Joined(r) \cap Computing
    <3>1. PICK k \in K : c \in C!Wanted(k)
      BY <2>1
    <3>2. k \notin Fresh(r) /\ c = entry[k]
      BY <1>6, <3>1
    <3> QED
      BY <3>2 DEF Joined, Fresh
  <2>2. ASSUME NEW c, c \in Joined(r) \cap Computing PROVE c \in UNION {C!Wanted(k) : k \in K}
    <3>1. PICK k \in todo[r] : Joinable(k) /\ c = entry[k]
      BY <2>2 DEF Joined
    <3>2. k \in K /\ k \notin Fresh(r)
      BY <2>2, <3>1 DEF Fresh
    <3> QED
      BY <1>6, <3>1, <3>2
  <2> QED
    BY <2>1, <2>2
<1>9. [q \in Requests |-> subs'[q] \cap Computing']
        = [wts EXCEPT ![r] = Born \cup UNION {C!Wanted(k) : k \in K}]
  <2>1. subs'[r] = Joined(r) \cup Born /\ \A q \in Requests \ {r} : subs'[q] = subs[q]
    BY AdmitFacts
  <2>2. \A q \in Requests : subs[q] \cap Born = {}
    BY AdmitFacts DEF MapInv, SubsBorn
  <2> QED
    BY <1>4, <1>8, <2>1, <2>2
<1>10. itemKey' = [c \in Gens |-> IF c \in Born THEN of[c] ELSE itemKey[c]]
  BY <1>0, AdmitFacts DEF ItemsOK
<1>11. of \in C!Bijection(Born, Fresh(r))
  <2>1. \A k \in Fresh(r) : entry'[k] \in Born /\ itemKey'[entry'[k]] = k
    BY AdmitFacts
  <2>2. \A g \in Born : itemKey'[g] \in Fresh(r) /\ entry'[itemKey'[g]] = g
    BY AdmitFacts
  <2> QED
    BY <2>1, <2>2 DEF C!Bijection, C!Injection, C!Surjection, C!IsInjective
<1>12. Born \in SUBSET (Gens \ Computing) /\ K \in SUBSET Asks[r]
  BY <1>4, <1>5
<1> HIDE DEF K, of
<1> DEFINE Begin(Q, new, f) ==
             /\ itemKey' = [c \in Gens |-> IF c \in new THEN f[c] ELSE itemKey[c]]
             /\ Computing' = Computing \cup new
             /\ [q \in Requests |-> subs'[q] \cap Computing']
                  = [wts EXCEPT ![r] = new \cup UNION {C!Wanted(k) : k \in Q}]
<1>a. of \in C!Bijection(Born, {k \in K : C!Wanted(k) = {}}) /\ Begin(K, Born, of)
  BY <1>4, <1>7, <1>9, <1>10, <1>11
<1> HIDE DEF Begin
<1>b. \E Q \in SUBSET Asks[r], new \in SUBSET (Gens \ Computing) :
        \E f \in C!Bijection(new, {k \in Q : C!Wanted(k) = {}}) : Begin(Q, new, f)
  BY <1>12, <1>a
<1>13. C!Ask(r)
  <2>1. \E Q \in SUBSET Asks[r], new \in SUBSET (Gens \ Computing) :
          LET missing == {k \in Q : C!Wanted(k) = {}} IN
          \E f \in C!Bijection(new, missing) :
            /\ itemKey' = [c \in Gens |-> IF c \in new THEN f[c] ELSE itemKey[c]]
            /\ Computing' = Computing \cup new
            /\ [q \in Requests |-> subs'[q] \cap Computing']
                  = [wts EXCEPT ![r] = new \cup UNION {C!Wanted(k) : k \in Q}]
    BY <1>b DEF Begin
  <2> QED
    BY <1>1, <1>2, <1>3, <2>1 DEF C!Ask
<1> QED
  BY <1>13 DEF C!Next

-----------------------------------------------------------------------------
(* Every step is a step of Coalescing or none.                             *)

\* What the requests' other actions are.
LEMMA RequestRefines ==
    ASSUME TypeOK, FateInv, AsksInv, SubsIdle, NEW r \in Requests,
           Lookup(r) \/ CheckDeadline(r) \/ Shed(r) \/ Sent(r) \/ Settle(r) \/ Timeout(r) \/ Abandon(r)
    PROVE  C!Next \/ UNCHANGED C!vars
<1>0. RequestsOK
  BY DEF TypeOK
<1>1. phase' = phase /\ itemKey' = itemKey /\ cached' = cached /\ pc[r] \notin Ended
  BY DEF Lookup, CheckDeadline, Shed, Sent, Settle, Timeout, Abandon, item, Ended
<1>2. Computing' = Computing
  BY <1>1 DEF Computing
<1>3. ASSUME NEW why \in C!Failures, Return(r, why) PROVE C!Next
  BY <1>1, <1>3, Fails
<1>4. ASSUME \E p \in {"check", "admit", "wait"} : pc' = [pc EXCEPT ![r] = p], subs' = subs
      PROVE  UNCHANGED C!vars
  <2>1. \A q \in Requests : Outcome(q)' = Outcome(q)
    BY <1>0, <1>1, <1>4 DEF Outcome, RequestsOK, Ended
  <2> QED
    BY <1>1, <1>2, <1>4, <2>1, Stutters
<1>5. ASSUME pc' = [pc EXCEPT ![r] = "ok"], \A q \in Requests : subs'[q] = subs[q],
             subs[r] = {}, Asks[r] \subseteq cached
      PROVE  C!Next
  BY <1>1, <1>5, Answers
<1>6. CASE Lookup(r)
  BY <1>4, <1>5, <1>6 DEF Lookup, SubsIdle
<1>7. CASE CheckDeadline(r)
  BY <1>3, <1>4, <1>7 DEF CheckDeadline, C!Failures
<1>8. CASE Shed(r) \/ Timeout(r) \/ Abandon(r)
  BY <1>3, <1>8 DEF Shed, Timeout, Abandon, C!Failures
<1>9. CASE Sent(r)
  BY <1>4, <1>9 DEF Sent
<1>10. CASE Settle(r)
  <2>1. CASE Return(r, "backend")
    BY <1>3, <2>1 DEF C!Failures
  <2>2. CASE pc' = [pc EXCEPT ![r] = "check"] /\ subs' = subs
    BY <1>4, <2>2
  <2>3. CASE Return(r, "ok") /\ subs[r] = {} /\ pc[r] = "wait" /\ todo[r] = {}
    <3>1. pc' = [pc EXCEPT ![r] = "ok"] /\ \A q \in Requests : subs'[q] = subs[q]
      BY <1>0, <2>3 DEF Return, RequestsOK
    <3>2. Asks[r] \subseteq cached
      BY <2>3 DEF AsksInv
    <3> QED
      BY <1>5, <2>3, <3>1, <3>2
  <2> QED
    BY <1>10, <2>1, <2>2, <2>3 DEF Settle
<1> QED
  BY <1>6, <1>7, <1>8, <1>9, <1>10

\* What the steps are that the requests take on one item, and everybody else.
LEMMA ItemRefines ==
    ASSUME TypeOK, FateInv,
           \/ Tick
           \/ \E r \in Requests, g \in Gens : Send(r, g) \/ Poll(r, g)
           \/ \E g \in Gens : Drop(g)
           \/ \E m \in Models : Batcher(m)
           \/ \E w \in Workers : Worker(w)
    PROVE  C!Next \/ UNCHANGED C!vars
<1> USE DEF Queued, Running
<1>0. RequestsOK /\ ItemsOK
  BY DEF TypeOK
<1>1. ASSUME NEW h \in Gens, phase[h] \in Queued \cup Running, phase' = [phase EXCEPT ![h] = "dropping"],
             pc' = pc, subs' = subs, itemKey' = itemKey, cached' = cached
      PROVE  C!Next
  <2>1. h \in Computing /\ Computing' = Computing \ {h}
    BY <1>0, <1>1 DEF Computing, ItemsOK
  <2> QED
    BY <1>1, <2>1, Ends
<1>2. ASSUME Computing' = Computing, pc' = pc, itemKey' = itemKey, cached' = cached,
             \A r \in Requests : subs'[r] \cap Computing = subs[r] \cap Computing
      PROVE  UNCHANGED C!vars
  BY <1>2, Stutters DEF Outcome
<1>3. ASSUME Computing' = Computing, pc' = pc, subs' = subs, itemKey' = itemKey, cached' = cached
      PROVE  UNCHANGED C!vars
  BY <1>2, <1>3
<1>4. CASE Tick
  BY <1>3, <1>4 DEF Tick, request, item, Computing
<1>5. ASSUME NEW r \in Requests, NEW g \in Gens, Send(r, g) PROVE C!Next \/ UNCHANGED C!vars
  <2>1. CASE phase' = [phase EXCEPT ![g] = "queued"]
    <3>1. Computing' = Computing
      BY <1>0, <1>5, <2>1 DEF Send, Computing, ItemsOK
    <3> QED
      BY <1>3, <1>5, <3>1 DEF Send
  <2>2. CASE phase' = [phase EXCEPT ![g] = "dropping"]
    BY <1>1, <1>5, <2>2 DEF Send
  <2> QED
    BY <1>5, <2>1, <2>2 DEF Send
<1>6. ASSUME NEW r \in Requests, NEW g \in Gens, Poll(r, g) PROVE UNCHANGED C!vars
  <2>1. phase' = phase /\ itemKey' = itemKey /\ cached' = cached /\ pc' = pc
    BY <1>6 DEF Poll, item
  <2>2. g \notin Computing
    BY <1>6 DEF Poll, FateInv, Computing, Dropping
  <2>3. \A q \in Requests : subs'[q] \cap Computing = subs[q] \cap Computing
    BY <1>0, <1>6, <2>2 DEF Poll, RequestsOK
  <2> QED
    BY <1>2, <2>1, <2>3 DEF Computing
<1>7. ASSUME NEW g \in Gens, Drop(g) PROVE UNCHANGED C!vars
  <2>1. /\ phase[g] \in Dropping
        /\ \E p \in {"subtracted", "unmapped", "hungup", "gone"} : phase' = [phase EXCEPT ![g] = p]
        /\ pc' = pc /\ subs' = subs /\ itemKey' = itemKey /\ cached' = cached
    BY <1>7 DEF Drop, SubtractTokens, RemoveEntry, DropSender, ReleasePermit, request, Dropping
  <2>2. Computing' = Computing
    BY <1>0, <2>1 DEF Computing, ItemsOK, Dropping
  <2> QED
    BY <1>3, <2>1, <2>2
<1>8. ASSUME NEW m \in Models, Batcher(m) PROVE C!Next \/ UNCHANGED C!vars
  <2>0. pc' = pc /\ subs' = subs /\ itemKey' = itemKey /\ cached' = cached
    BY <1>8 DEF Batcher, Collect, Judge, Dispatch, NothingLive, StopBatcher, CloseReceiver, Discard, request, item
  <2>1. CASE Collect(m)
    <3>1. Computing' = Computing
      BY <1>0, <2>1 DEF Collect, In, ItemsOf, Item, Computing, ItemsOK
    <3> QED
      BY <1>3, <2>0, <3>1
  <2>2. CASE NothingLive(m) \/ StopBatcher(m) \/ CloseReceiver(m)
    BY <1>3, <2>0, <2>2 DEF NothingLive, StopBatcher, CloseReceiver, item, Computing
  <2>3. ASSUME NEW g \in Gens, Judge(m, g) PROVE C!Next \/ UNCHANGED C!vars
    <3>1. phase[g] = "judging" /\ \E p \in {"kept", "dropping"} : phase' = [phase EXCEPT ![g] = p]
      BY <2>3 DEF Judge, In
    <3>2. CASE phase' = [phase EXCEPT ![g] = "kept"]
      <4>1. Computing' = Computing
        BY <1>0, <3>1, <3>2 DEF Computing, ItemsOK
      <4> QED
        BY <1>3, <2>0, <4>1
    <3>3. CASE phase' = [phase EXCEPT ![g] = "dropping"]
      BY <1>1, <2>0, <3>1, <3>3
    <3> QED
      BY <3>1, <3>2, <3>3
  <2>4. ASSUME NEW g \in Gens, Discard(m, g) PROVE C!Next
    <3>1. phase[g] \in Queued /\ phase' = [phase EXCEPT ![g] = "dropping"]
      BY <2>4 DEF Discard, In
    <3> QED
      BY <1>1, <2>0, <3>1
  <2>5. ASSUME NEW w \in Workers, Dispatch(m, w) PROVE UNCHANGED C!vars
    <3>1. PICK batch \in SUBSET In(m, "kept") :
            phase' = [g \in Gens |-> IF g \in batch THEN "running" ELSE phase[g]]
      BY <2>5 DEF Dispatch
    <3>2. Computing' = Computing
      BY <1>0, <3>1 DEF In, ItemsOf, Computing, ItemsOK
    <3> QED
      BY <1>3, <2>0, <3>2
  <2> QED
    BY <1>8, <2>1, <2>2, <2>3, <2>4, <2>5 DEF Batcher
<1>9. ASSUME NEW w \in Workers, Worker(w) PROVE C!Next \/ UNCHANGED C!vars
  <2>1. CASE RunBatch(w) \/ EndBatch(w)
    BY <1>3, <2>1 DEF RunBatch, EndBatch, request, item, Computing
  <2>2. ASSUME NEW g \in Gens, PutL1(w, g) PROVE C!Next
    <3>1. /\ phase[g] = "running" /\ phase' = [phase EXCEPT ![g] = "stored"]
          /\ pc' = pc /\ subs' = subs /\ itemKey' = itemKey /\ cached' = cached \cup {itemKey[g]}
      BY <2>2 DEF PutL1, request
    <3>2. Computing' = Computing /\ g \in Computing
      BY <1>0, <3>1 DEF Computing, ItemsOK
    <3>3. C!Learn(g)
      BY <3>1, <3>2 DEF C!Learn
    <3> QED
      BY <3>3 DEF C!Next
  <2>3. ASSUME NEW g \in Gens, Finish(w, g) PROVE C!Next
    <3>1. phase[g] \in Running /\ phase' = [phase EXCEPT ![g] = "dropping"]
      BY <2>3 DEF Finish
    <3> QED
      BY <1>1, <2>3, <3>1 DEF Finish, request
  <2> QED
    BY <1>9, <2>1, <2>2, <2>3 DEF Worker
<1> QED
  BY <1>4, <1>5, <1>6, <1>7, <1>8, <1>9

\* Coalescing, whole: every behaviour of requests, batchers, drops and worker
\* threads is one of the abstract specification, in which a wanted key has one
\* computation and an answer has every key computed.
THEOREM RefinesCoalescing == Spec => ImplementsCoalescing
<1> DEFINE Inv == TypeOK /\ MapInv /\ FateInv /\ AsksInv /\ SubsIdle /\ TodoAsked
<1>1. Init => Inv
  BY TypeInit, MapInit DEF Init, FateInv, AsksInv, SubsIdle, TodoAsked
<1>2. Inv /\ [Next]_vars => Inv'
  BY TypeStep, MapStep, FateStep, AsksStep, IdleStep, TodoStep
<1>3. Init => C!Init
  BY DEF Init, C!Init, Computing, Queued, Running, Ended
<1>4. ASSUME Inv, Inv', [Next]_vars PROVE [C!Next]_(C!vars)
  <2>1. ASSUME NEW r \in Requests, Admit(r) PROVE C!Next
    BY <1>4, <2>1, AdmitAsks
  <2>2. CASE UNCHANGED vars
    BY <2>2, Stutters DEF vars, request, item, Computing, Outcome
  <2> QED
    BY <1>4, <2>1, <2>2, RequestRefines, ItemRefines DEF Next, RunJobs
<1> QED
  BY <1>1, <1>2, <1>3, <1>4, PTL DEF Spec, ImplementsCoalescing, C!Spec
=============================================================================
