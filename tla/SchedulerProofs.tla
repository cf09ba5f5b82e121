-------------------------- MODULE SchedulerProofs --------------------------
(***************************************************************************)
(* What TLAPS proves of Scheduler, for any requests, keys, models, workers *)
(* and bounds.                                                             *)
(***************************************************************************)
EXTENDS Scheduler, FoldLemmas

-----------------------------------------------------------------------------
(* The generations one admission registers.                                *)

Born == nextGen .. (nextGen' - 1)

\* admit names distinct new generations, one for each fresh key.
LEMMA AdmitFacts ==
    ASSUME TypeOK, NEW r \in Requests, Admit(r)
    PROVE  /\ Cardinality(Fresh(r)) \in Nat
           /\ nextGen' \in 0 .. MaxGens /\ nextGen' = nextGen + Cardinality(Fresh(r))
           /\ \A k \in Fresh(r) :
                /\ entry'[k] \in Born
                /\ itemKey'[entry'[k]] = k
           /\ \A g \in Born :
                /\ g \in Gens /\ phase[g] = "unborn" /\ phase'[g] = "held"
                /\ itemKey'[g] \in Fresh(r) /\ entry'[itemKey'[g]] = g
                /\ due'[g] = DeadlineOf[r]
           /\ \A g \in Gens \ (Born) :
                phase'[g] = phase[g] /\ itemKey'[g] = itemKey[g] /\ due'[g] = Extended(r, Joined(r))[g]
           /\ \A k \in Keys \ Fresh(r) : entry'[k] = entry[k]
           /\ subs'[r] = Joined(r) \cup (Born)
           /\ \A q \in Requests \ {r} : subs'[q] = subs[q]
           /\ parts'[r] = Born
           /\ \A q \in Requests \ {r} : parts'[q] = parts[q]
<1>1. Fresh(r) \subseteq Keys
  BY DEF Fresh, TypeOK, RequestsOK
<1>2. Cardinality(Fresh(r)) \in Nat
  BY <1>1, FS_Subset, FS_CardinalityType, RequestsAssumption DEF RequestsAssumption
<1> DEFINE n == Cardinality(Fresh(r))
           new == nextGen .. (nextGen + n - 1)
<1>3. nextGen' = nextGen + n /\ nextGen + n <= MaxGens
  BY DEF Admit
<1>4. nextGen \in Nat /\ MaxGens \in Nat /\ n \in Nat
  BY <1>2, BoundsAssumption DEF TypeOK, ItemsOK, BoundsAssumption
<1>5. new \subseteq Gens /\ new = Born
  BY <1>3, <1>4 DEF Born, Gens
<1>6. \A g \in new : phase[g] = "unborn"
  <2>1. \A g \in Gens : phase[g] = "unborn" <=> g >= nextGen
    BY DEF TypeOK, ItemsOK
  <2>2. \A g \in new : g >= nextGen
    BY <1>4
  <2> QED
    BY <1>5, <2>1, <2>2
<1> HIDE DEF n, new
<1>7. PICK of \in Bijection(new, Fresh(r)) :
        /\ entry' = [k \in Keys |-> IF k \in Fresh(r) THEN CHOOSE g \in new : of[g] = k ELSE entry[k]]
        /\ phase' = [g \in Gens |-> IF g \in new THEN "held" ELSE phase[g]]
        /\ itemKey' = [g \in Gens |-> IF g \in new THEN of[g] ELSE itemKey[g]]
        /\ due' = [g \in Gens |-> IF g \in new THEN DeadlineOf[r] ELSE Extended(r, Joined(r))[g]]
        /\ subs' = [subs EXCEPT ![r] = Joined(r) \cup new]
        /\ parts' = [parts EXCEPT ![r] = new]
  BY DEF Admit, n, new
<1>8. /\ of \in [new -> Fresh(r)]
      /\ \A k \in Fresh(r) : \E g \in new : of[g] = k
      /\ \A g, h \in new : of[g] = of[h] => g = h
  BY <1>7 DEF Bijection, Injection, Surjection, IsInjective
<1>9. ASSUME NEW k \in Fresh(r)
      PROVE  entry'[k] \in new /\ of[entry'[k]] = k
  BY <1>1, <1>7, <1>8
<1>10. \A k \in Fresh(r) : entry'[k] \in new /\ itemKey'[entry'[k]] = k
  BY <1>5, <1>7, <1>9
<1>11. \A g \in new : itemKey'[g] \in Fresh(r) /\ entry'[itemKey'[g]] = g
  <2> SUFFICES ASSUME NEW g \in new
               PROVE  itemKey'[g] \in Fresh(r) /\ entry'[itemKey'[g]] = g
    OBVIOUS
  <2>1. itemKey'[g] = of[g]
    BY <1>5, <1>7
  <2>2. of[g] \in Fresh(r)
    BY <1>8
  <2>3. entry'[of[g]] \in new /\ of[entry'[of[g]]] = of[g]
    BY <1>9, <2>2
  <2> QED
    BY <1>8, <2>1, <2>2, <2>3
<1>12. subs \in [Requests -> SUBSET Gens] /\ parts \in [Requests -> SUBSET Gens]
  BY DEF TypeOK, RequestsOK
<1>13. nextGen' \in 0 .. MaxGens
  BY <1>3, <1>4
<1>14. \A g \in new : g \in Gens /\ phase'[g] = "held" /\ due'[g] = DeadlineOf[r]
  BY <1>5, <1>7
<1>15. \A g \in Gens \ new :
          phase'[g] = phase[g] /\ itemKey'[g] = itemKey[g] /\ due'[g] = Extended(r, Joined(r))[g]
  BY <1>7
<1>16. \A k \in Keys \ Fresh(r) : entry'[k] = entry[k]
  BY <1>7
<1>17. /\ subs'[r] = Joined(r) \cup new /\ parts'[r] = new
       /\ \A q \in Requests \ {r} : subs'[q] = subs[q] /\ parts'[q] = parts[q]
  BY <1>7, <1>12
<1> QED
  BY <1>2, <1>3, <1>5, <1>6, <1>10, <1>11, <1>13, <1>14, <1>15, <1>16, <1>17 DEF n

-----------------------------------------------------------------------------
(* Type correctness, one part of the state at a time.                      *)

\* The types hold at the start.
LEMMA TypeInit == Init => TypeOK
  BY ModelsAssumption, BoundsAssumption DEF Init, TypeOK, RequestsOK, ItemsOK, PoolOK, ModelsAssumption, BoundsAssumption, Gens, Phases, Ended

\* Only a request changes what belongs to requests.
LEMMA RequestsFrame ==
    ASSUME \/ Tick \/ UNCHANGED vars \/ \E g \in Gens : Drop(g)
           \/ \E m \in Models : Batcher(m)
           \/ \E w \in Workers : Worker(w)
    PROVE  UNCHANGED request
<1>1. CASE Tick \/ UNCHANGED vars
  BY <1>1 DEF Tick, vars
<1>2. ASSUME NEW g \in Gens, Drop(g) PROVE UNCHANGED request
  BY <1>2 DEF Drop, SubtractTokens, RemoveEntry, DropSender, ReleasePermit
<1>3. ASSUME NEW m \in Models, Batcher(m) PROVE UNCHANGED request
  BY <1>3 DEF Batcher, Collect, Judge, Dispatch, NothingLive, StopBatcher, CloseReceiver, Discard
<1>4. ASSUME NEW w \in Workers, Worker(w) PROVE UNCHANGED request
  BY <1>4 DEF Worker, RunBatch, PutL1, Finish, EndBatch
<1> QED
  BY <1>1, <1>2, <1>3, <1>4

\* The requests' variables keep their types.
LEMMA RequestsStep == TypeOK /\ [Next]_vars => RequestsOK'
<1> SUFFICES ASSUME TypeOK, [Next]_vars PROVE RequestsOK'
  OBVIOUS
<1>0. RequestsOK /\ ItemsOK
  BY DEF TypeOK
<1> USE DEF Ended
<1>1. ASSUME UNCHANGED request PROVE RequestsOK'
  BY <1>0, <1>1 DEF RequestsOK, request
<1>2. ASSUME NEW r \in Requests, NEW result \in Ended, Return(r, result) PROVE RequestsOK'
  BY <1>0, <1>2, BoundsAssumption DEF RequestsOK, Return, BoundsAssumption
<1>3. ASSUME NEW r \in Requests, Lookup(r) PROVE RequestsOK'
  <2>1. UNCHANGED <<subs, parts, lost, failed, readmits>>
    BY <1>3 DEF Lookup
  <2>2. pc' \in [Requests -> {"lookup", "check", "admit", "send", "wait"} \cup Ended]
    BY <1>0, <1>3 DEF RequestsOK, Lookup
  <2>3. Asks[r] \subseteq Keys
    BY RequestsAssumption DEF RequestsAssumption
  <2>4. todo' \in [Requests -> SUBSET Keys]
    BY <1>0, <1>3, <2>3 DEF RequestsOK, Lookup
  <2> QED
    BY <1>0, <2>1, <2>2, <2>4 DEF RequestsOK
<1>4. ASSUME NEW r \in Requests, CheckDeadline(r) PROVE RequestsOK'
  <2>1. CASE Return(r, "deadline")
    BY <1>2, <2>1
  <2>2. CASE pc' = [pc EXCEPT ![r] = "admit"] /\ UNCHANGED <<todo, subs, parts, lost, failed, readmits>>
    BY <1>0, <2>2 DEF RequestsOK
  <2> QED
    BY <1>4, <2>1, <2>2 DEF CheckDeadline
<1>5. ASSUME NEW r \in Requests, Admit(r) PROVE RequestsOK'
  <2>1. Born \subseteq Gens
    BY <1>5, AdmitFacts
  <2>2. Joined(r) \subseteq Gens
    BY <1>0 DEF Joined, Joinable, ItemsOK, RequestsOK
  <2>3. \E n : subs' = [subs EXCEPT ![r] = Joined(r) \cup n] /\ parts' = [parts EXCEPT ![r] = n]
    BY <1>5 DEF Admit
  <2>4. parts'[r] = Born
    BY <1>5, AdmitFacts
  <2>5. subs' \in [Requests -> SUBSET Gens] /\ parts' \in [Requests -> SUBSET Gens]
    <3>1. PICK n : subs' = [subs EXCEPT ![r] = Joined(r) \cup n] /\ parts' = [parts EXCEPT ![r] = n]
      BY <2>3
    <3>2. subs \in [Requests -> SUBSET Gens] /\ parts \in [Requests -> SUBSET Gens]
      BY <1>0 DEF RequestsOK
    <3>3. n = Born
      BY <2>4, <3>1, <3>2
    <3> QED
      BY <2>1, <2>2, <3>1, <3>2, <3>3
  <2> QED
    BY <1>0, <1>5, <2>5 DEF RequestsOK, Admit
<1>6. ASSUME NEW r \in Requests, Shed(r) PROVE RequestsOK'
  BY <1>2, <1>6 DEF Shed
<1>7. ASSUME NEW r \in Requests, NEW g \in Gens, Send(r, g) PROVE RequestsOK'
  BY <1>0, <1>7 DEF RequestsOK, Send
<1>8. ASSUME NEW r \in Requests, Sent(r) PROVE RequestsOK'
  BY <1>0, <1>8 DEF RequestsOK, Sent
<1>9. ASSUME NEW r \in Requests, NEW g \in Gens, Poll(r, g) PROVE RequestsOK'
  BY <1>0, <1>9 DEF RequestsOK, Poll
<1>10. ASSUME NEW r \in Requests, Settle(r) PROVE RequestsOK'
  <2>1. CASE Return(r, "backend") \/ Return(r, "ok")
    BY <1>2, <2>1
  <2>2. CASE /\ readmits[r] < MaxReadmits
             /\ readmits' = [readmits EXCEPT ![r] = @ + 1]
             /\ lost' = [lost EXCEPT ![r] = FALSE]
             /\ pc' = [pc EXCEPT ![r] = "check"]
             /\ UNCHANGED <<todo, subs, parts, failed>>
    BY <1>0, <2>2, BoundsAssumption DEF RequestsOK, BoundsAssumption
  <2> QED
    BY <1>10, <2>1, <2>2 DEF Settle
<1>11. ASSUME NEW r \in Requests, Timeout(r) \/ Abandon(r) PROVE RequestsOK'
  BY <1>2, <1>11 DEF Timeout, Abandon
<1> QED
  BY <1>1, <1>3, <1>4, <1>5, <1>6, <1>7, <1>8, <1>9, <1>10, <1>11, RequestsFrame DEF Next, RunJobs

\* No action but Admit makes an item exist or changes its key, and none makes
\* one cease to: an item's phase only moves on.
LEMMA ItemsMove ==
    ASSUME TypeOK, [Next]_vars
    PROVE  \/ \E r \in Requests : Admit(r)
           \/ /\ nextGen' = nextGen /\ itemKey' = itemKey
              /\ phase' \in [Gens -> Phases]
              /\ \A g \in Gens : phase'[g] = "unborn" <=> phase[g] = "unborn"
<1>0. ItemsOK
  BY DEF TypeOK
<1> DEFINE Moves == /\ nextGen' = nextGen /\ itemKey' = itemKey
                    /\ phase' \in [Gens -> Phases]
                    /\ \A g \in Gens : phase'[g] = "unborn" <=> phase[g] = "unborn"
<1> USE DEF Phases, Queued, Running, Dropping
<1>1. CASE Tick \/ UNCHANGED vars
  BY <1>0, <1>1 DEF Tick, vars, item, ItemsOK
<1>2. ASSUME NEW r \in Requests,
             Lookup(r) \/ CheckDeadline(r) \/ Shed(r) \/ Sent(r) \/ Settle(r) \/ Timeout(r) \/ Abandon(r)
      PROVE  Moves
  BY <1>0, <1>2 DEF Lookup, CheckDeadline, Shed, Sent, Settle, Timeout, Abandon, item, ItemsOK
<1>3. ASSUME NEW r \in Requests, NEW g \in Gens, Send(r, g) \/ Poll(r, g) PROVE Moves
  <2>1. CASE Poll(r, g)
    BY <1>0, <2>1 DEF Poll, item, ItemsOK
  <2>2. CASE Send(r, g)
    <3>1. /\ phase[g] = "held" /\ nextGen' = nextGen /\ itemKey' = itemKey
          /\ \E p \in {"queued", "dropping"} : phase' = [phase EXCEPT ![g] = p]
      BY <2>2 DEF Send
    <3> QED
      BY <1>0, <3>1 DEF ItemsOK
  <2> QED
    BY <1>3, <2>1, <2>2
<1>4. ASSUME NEW g \in Gens, Drop(g) PROVE Moves
  BY <1>0, <1>4 DEF Drop, SubtractTokens, RemoveEntry, DropSender, ReleasePermit, ItemsOK
<1>5. ASSUME NEW m \in Models, NothingLive(m) \/ StopBatcher(m) \/ CloseReceiver(m) PROVE Moves
  BY <1>0, <1>5 DEF NothingLive, StopBatcher, CloseReceiver, item, ItemsOK
<1>6. ASSUME NEW m \in Models, Collect(m) PROVE Moves
  BY <1>0, <1>6 DEF Collect, In, ItemsOf, Item, ItemsOK
<1>7. ASSUME NEW m \in Models, NEW g \in Gens, Judge(m, g) \/ Discard(m, g) PROVE Moves
  BY <1>0, <1>7 DEF Judge, Discard, In, ItemsOf, Item, ItemsOK
<1>8. ASSUME NEW m \in Models, NEW w \in Workers, Dispatch(m, w) PROVE Moves
  <2>1. PICK batch \in SUBSET In(m, "kept") :
          phase' = [h \in Gens |-> IF h \in batch THEN "running" ELSE phase[h]]
    BY <1>8 DEF Dispatch
  <2>2. \A h \in batch : h \in Gens /\ phase[h] = "kept"
    BY <2>1 DEF In, ItemsOf
  <2> QED
    BY <1>0, <1>8, <2>1, <2>2 DEF Dispatch, ItemsOK
<1>9. ASSUME NEW w \in Workers, RunBatch(w) \/ EndBatch(w) PROVE Moves
  BY <1>0, <1>9 DEF RunBatch, EndBatch, item, ItemsOK
<1>10. ASSUME NEW w \in Workers, NEW g \in Gens, PutL1(w, g) \/ Finish(w, g) PROVE Moves
  BY <1>0, <1>10 DEF PutL1, Finish, ItemsOK
<1> QED
  BY <1>1, <1>2, <1>3, <1>4, <1>5, <1>6, <1>7, <1>8, <1>9, <1>10 DEF Next, RunJobs, Batcher, Worker

\* Which actions write the map, the deadlines, the results, the subscriptions.
LEMMA Writers ==
    ASSUME [Next]_vars
    PROVE  /\ \/ entry' = entry
              \/ \E r \in Requests : Admit(r)
              \/ \E g \in Gens : RemoveEntry(g)
           /\ \/ due' = due
              \/ \E r \in Requests : Admit(r) \/ Shed(r)
           /\ \/ out' = out
              \/ \E r \in Requests, g \in Gens : Send(r, g)
              \/ \E g \in Gens : DropSender(g)
              \/ \E w \in Workers, g \in Gens : Finish(w, g)
<1>1. CASE Tick \/ UNCHANGED vars
  BY <1>1 DEF Tick, vars, item
<1>2. ASSUME NEW r \in Requests,
             Lookup(r) \/ CheckDeadline(r) \/ Sent(r) \/ Settle(r) \/ Timeout(r) \/ Abandon(r)
      PROVE  UNCHANGED <<entry, due, out>>
  BY <1>2 DEF Lookup, CheckDeadline, Sent, Settle, Timeout, Abandon, item
<1>3. ASSUME NEW r \in Requests, Shed(r) \/ Admit(r) PROVE out' = out /\ (Shed(r) => entry' = entry)
  BY <1>3 DEF Shed, Admit
<1>4. ASSUME NEW r \in Requests, NEW g \in Gens, Send(r, g) \/ Poll(r, g)
      PROVE  UNCHANGED <<entry, due>> /\ (Poll(r, g) => out' = out)
  BY <1>4 DEF Send, Poll, item
<1>5. ASSUME NEW g \in Gens, Drop(g)
      PROVE  due' = due /\ (RemoveEntry(g) \/ entry' = entry) /\ (DropSender(g) \/ out' = out)
  BY <1>5 DEF Drop, SubtractTokens, RemoveEntry, DropSender, ReleasePermit
<1>6. ASSUME NEW m \in Models, Batcher(m) PROVE UNCHANGED <<entry, due, out>>
  BY <1>6 DEF Batcher, Collect, Judge, Dispatch, NothingLive, StopBatcher, CloseReceiver, Discard, item
<1>7. ASSUME NEW w \in Workers, Worker(w)
      PROVE  UNCHANGED <<entry, due>> /\ ((\E g \in Gens : Finish(w, g)) \/ out' = out)
  BY <1>7 DEF Worker, RunBatch, EndBatch, PutL1, Finish, item
<1> QED
  BY <1>1, <1>2, <1>3, <1>4, <1>5, <1>6, <1>7 DEF Next, RunJobs

\* The items' variables keep their types.
LEMMA ItemsStep == TypeOK /\ [Next]_vars => ItemsOK'
<1> SUFFICES ASSUME TypeOK, [Next]_vars PROVE ItemsOK'
  OBVIOUS
<1>0. RequestsOK /\ ItemsOK
  BY DEF TypeOK
<1>1. ASSUME NEW r \in Requests, Admit(r) PROVE ItemsOK'
  <2>1. /\ nextGen' \in 0 .. MaxGens /\ nextGen' = nextGen + Cardinality(Fresh(r))
        /\ Cardinality(Fresh(r)) \in Nat
        /\ \A k \in Fresh(r) : entry'[k] \in Born
        /\ \A k \in Keys \ Fresh(r) : entry'[k] = entry[k]
    BY <1>1, AdmitFacts
  <2>12. Born \subseteq Gens
    BY <1>1, AdmitFacts
  <2>2. \A g \in Born : phase'[g] = "held" /\ itemKey'[g] \in Fresh(r) /\ due'[g] = DeadlineOf[r]
    BY <1>1, AdmitFacts
  <2>3. \A g \in Gens \ Born : /\ phase'[g] = phase[g] /\ itemKey'[g] = itemKey[g]
                              /\ due'[g] = Extended(r, Joined(r))[g]
    BY <1>1, AdmitFacts
  <2>4. Fresh(r) \subseteq Keys
    BY <1>0 DEF Fresh, RequestsOK
  <2>5. entry' = [k \in Keys |-> entry'[k]]
    BY <1>1 DEF Admit
  <2>6. phase' = [g \in Gens |-> phase'[g]] /\ itemKey' = [g \in Gens |-> itemKey'[g]]
        /\ due' = [g \in Gens |-> due'[g]] /\ out' = out
    BY <1>1 DEF Admit
  <2>7. entry' \in [Keys -> Gens \cup {None}]
    <3>1. \A k \in Keys : entry'[k] \in Gens \cup {None}
      BY <1>0, <2>1, <2>12 DEF ItemsOK
    <3> QED
      BY <2>5, <3>1
  <2>8. phase' \in [Gens -> Phases] /\ itemKey' \in [Gens -> Keys \cup {None}]
    <3>1. \A g \in Gens : phase'[g] \in Phases /\ itemKey'[g] \in Keys \cup {None}
      BY <1>0, <2>2, <2>3, <2>4 DEF ItemsOK, Phases, Queued
    <3> QED
      BY <2>6, <3>1
  <2>9. due' \in [Gens -> Nat]
    <3>1. \A g \in Gens : due'[g] \in Nat
      BY <1>0, <2>2, <2>3, RequestsAssumption DEF ItemsOK, Extended, Later, RequestsAssumption
    <3> QED
      BY <2>6, <3>1
  <2>10. \A g \in Gens : phase'[g] = "unborn" <=> g >= nextGen'
    <3> SUFFICES ASSUME NEW g \in Gens PROVE phase'[g] = "unborn" <=> g >= nextGen'
      OBVIOUS
    <3>0. PICK n \in Nat : nextGen' = n
      BY <2>1, BoundsAssumption DEF BoundsAssumption
    <3>1. nextGen \in Nat /\ nextGen' \in Nat /\ g \in Nat /\ (phase[g] = "unborn" <=> g >= nextGen)
      BY <1>0, <2>1, BoundsAssumption DEF ItemsOK, BoundsAssumption, Gens
    <3>2. CASE g \in Born
      <4>1. phase'[g] = "held"
        BY <2>2, <3>2
      <4>2. g \in nextGen .. (n - 1)
        BY <3>0, <3>2 DEF Born
      <4>3. ~(g >= n)
        BY <3>0, <3>1, <4>2
      <4> QED
        BY <3>0, <4>1, <4>3
    <3>3. CASE g \notin Born
      BY <2>1, <2>3, <3>1, <3>3 DEF Born
    <3> QED
      BY <3>2, <3>3
  <2>11. \A g \in Gens : phase'[g] # "unborn" => itemKey'[g] \in Keys
    BY <1>0, <2>2, <2>3, <2>4 DEF ItemsOK
  <2> QED
    BY <1>0, <2>1, <2>6, <2>7, <2>8, <2>9, <2>10, <2>11 DEF ItemsOK
<1>2. CASE ~\E r \in Requests : Admit(r)
  <2>1. /\ nextGen' = nextGen /\ itemKey' = itemKey /\ phase' \in [Gens -> Phases]
        /\ \A g \in Gens : phase'[g] = "unborn" <=> phase[g] = "unborn"
    BY <1>2, ItemsMove
  <2>2. entry' \in [Keys -> Gens \cup {None}]
    <3>1. ASSUME NEW g \in Gens, RemoveEntry(g) PROVE entry' \in [Keys -> Gens \cup {None}]
      BY <1>0, <3>1 DEF RemoveEntry, Unmapped, ItemsOK
    <3> QED
      BY <1>0, <1>2, <3>1, Writers DEF ItemsOK
  <2>3. due' \in [Gens -> Nat]
    <3>1. ASSUME NEW r \in Requests, Shed(r) PROVE due' \in [Gens -> Nat]
      BY <1>0, <3>1, RequestsAssumption DEF Shed, Extended, Later, ItemsOK, RequestsAssumption
    <3> QED
      BY <1>0, <1>2, <3>1, Writers DEF ItemsOK
  <2>4. out' \in [Gens -> {"none", "ok", "err", "canceled"}]
    <3>1. ASSUME NEW r \in Requests, NEW g \in Gens, Send(r, g)
          PROVE  out' = out \/ out' = [out EXCEPT ![g] = "err"]
      BY <3>1 DEF Send
    <3>2. ASSUME NEW g \in Gens, DropSender(g)
          PROVE  out' = [out EXCEPT ![g] = IF @ = "none" THEN "canceled" ELSE @]
      BY <3>2 DEF DropSender
    <3>3. ASSUME NEW w \in Workers, NEW g \in Gens, Finish(w, g)
          PROVE  out' = [out EXCEPT ![g] = "ok"] \/ out' = [out EXCEPT ![g] = "err"]
      BY <3>3 DEF Finish
    <3> QED
      BY <1>0, <3>1, <3>2, <3>3, Writers DEF ItemsOK
  <2> QED
    BY <1>0, <2>1, <2>2, <2>3, <2>4 DEF ItemsOK
<1> QED
  BY <1>1, <1>2

\* The variables of the batchers and the workers keep their types.
LEMMA PoolStep == TypeOK /\ [Next]_vars => PoolOK'
<1> SUFFICES ASSUME TypeOK, [Next]_vars PROVE PoolOK'
  OBVIOUS
<1>0. RequestsOK /\ ItemsOK /\ PoolOK /\ now \in Nat
  BY BoundsAssumption DEF TypeOK, BoundsAssumption
<1>1. CASE Tick \/ UNCHANGED vars
  BY <1>0, <1>1 DEF Tick, vars, queue, pool, PoolOK
<1>2. ASSUME NEW r \in Requests,
             \/ Lookup(r) \/ CheckDeadline(r) \/ Shed(r) \/ Sent(r) \/ Settle(r) \/ Timeout(r) \/ Abandon(r)
             \/ \E g \in Gens : Send(r, g) \/ Poll(r, g)
      PROVE  PoolOK'
  <2>1. UNCHANGED <<now, queue, pool>>
    BY <1>2 DEF Lookup, CheckDeadline, Shed, Sent, Settle, Timeout, Abandon, Send, Poll
  <2> QED
    BY <1>0, <2>1 DEF queue, pool, PoolOK
<1>3. ASSUME NEW r \in Requests, Admit(r) PROVE PoolOK'
  <2>1. UNCHANGED <<now, estimated, pool>>
    BY <1>3 DEF Admit
  <2> DEFINE new == nextGen .. (nextGen + Cardinality(Fresh(r)) - 1)
  <2>2. PICK of \in Bijection(new, Fresh(r)) :
          /\ \A m \in Models : Cardinality({g \in new : ModelOf[of[g]] = m}) <= permits[m]
          /\ permits' = [m \in Models |-> permits[m] - Cardinality({g \in new : ModelOf[of[g]] = m})]
    BY <1>3 DEF Admit
  <2>3. IsFiniteSet(new)
    <3>1. nextGen \in Int /\ nextGen + Cardinality(Fresh(r)) - 1 \in Int
      <4>1. Cardinality(Fresh(r)) \in Nat
        BY <1>3, AdmitFacts
      <4> QED
        BY <1>0, <4>1 DEF ItemsOK
    <3> QED
      BY <3>1, FS_Interval
  <2>4. \A m \in Models : Cardinality({g \in new : ModelOf[of[g]] = m}) \in Nat
    BY <2>3, FS_Subset, FS_CardinalityType
  <2>5. permits' \in [Models -> Nat]
    <3>0. permits \in [Models -> Nat]
      BY <1>0 DEF PoolOK
    <3>1. ASSUME NEW m \in Models
          PROVE  permits[m] - Cardinality({g \in new : ModelOf[of[g]] = m}) \in Nat
      BY <2>2, <2>4, <3>0
    <3> QED
      BY <2>2, <3>1
  <2> QED
    BY <1>0, <2>1, <2>5 DEF pool, PoolOK
<1>4. ASSUME NEW g \in Gens, Drop(g) PROVE PoolOK'
  <2>1. CASE SubtractTokens(g) \/ RemoveEntry(g) \/ DropSender(g)
    BY <1>0, <2>1 DEF SubtractTokens, RemoveEntry, DropSender, queue, pool, PoolOK
  <2>2. CASE ReleasePermit(g)
    <3>1. permits' = [permits EXCEPT ![ModelOf[itemKey[g]]] = permits[ModelOf[itemKey[g]]] + 1]
      BY <2>2 DEF ReleasePermit
    <3>2. permits' \in [Models -> Nat]
      <4>1. permits \in [Models -> Nat]
        BY <1>0 DEF PoolOK
      <4>2. \A m \in Models : permits[m] + 1 \in Nat
        BY <4>1
      <4> QED
        BY <3>1, <4>1, <4>2
    <3> QED
      BY <1>0, <2>2, <3>2 DEF ReleasePermit, pool, PoolOK
  <2> QED
    BY <1>4, <2>1, <2>2 DEF Drop
<1>5. ASSUME NEW m \in Models, Collect(m) \/ NothingLive(m) \/ StopBatcher(m) \/ CloseReceiver(m)
      PROVE  PoolOK'
  <2>1. CASE Collect(m)
    BY <1>0, <2>1 DEF Collect, SweepTime, queue, PoolOK
  <2>2. CASE NothingLive(m)
    BY <1>0, <2>2 DEF NothingLive, queue, PoolOK
  <2>3. CASE StopBatcher(m) \/ CloseReceiver(m)
    BY <1>0, <2>3 DEF StopBatcher, CloseReceiver, queue, PoolOK
  <2> QED
    BY <1>5, <2>1, <2>2, <2>3
<1>6. ASSUME NEW m \in Models, NEW g \in Gens, Judge(m, g) \/ Discard(m, g) PROVE PoolOK'
  BY <1>0, <1>6 DEF Judge, Discard, queue, pool, PoolOK
<1>7. ASSUME NEW m \in Models, NEW w \in Workers, Dispatch(m, w) PROVE PoolOK'
  <2>1. PICK batch \in SUBSET In(m, "kept") : work' = [work EXCEPT ![w] = batch]
    BY <1>7 DEF Dispatch
  <2>2. batch \subseteq Gens
    BY <2>1 DEF In, ItemsOf
  <2> QED
    BY <1>0, <1>7, <2>1, <2>2 DEF Dispatch, queue, PoolOK
<1>8. ASSUME NEW w \in Workers, RunBatch(w) PROVE PoolOK'
  BY <1>0, <1>8 DEF RunBatch, PoolOK
<1>9. ASSUME NEW w \in Workers, EndBatch(w) PROVE PoolOK'
  BY <1>0, <1>9 DEF EndBatch, queue, PoolOK
<1>10. ASSUME NEW w \in Workers, NEW g \in Gens, PutL1(w, g) \/ Finish(w, g) PROVE PoolOK'
  BY <1>0, <1>10 DEF PutL1, Finish, queue, pool, PoolOK
<1> QED
  BY <1>1, <1>2, <1>3, <1>4, <1>5, <1>6, <1>7, <1>8, <1>9, <1>10 DEF Next, RunJobs, Batcher, Worker

\* Every step keeps the types.
LEMMA TypeStep == TypeOK /\ [Next]_vars => TypeOK'
<1> SUFFICES ASSUME TypeOK, [Next]_vars PROVE TypeOK'
  OBVIOUS
<1>1. now' \in 0 .. MaxTime
  <2>1. CASE Tick
    BY <2>1, BoundsAssumption DEF Tick, TypeOK, BoundsAssumption
  <2>2. CASE ~Tick
    <3>1. now' = now
      BY <2>2, ZenonT(60) DEF Next, vars, RunJobs, Lookup, CheckDeadline, Admit, Shed, Send, Sent, Poll, Settle, Timeout,
             Abandon, Drop, SubtractTokens, RemoveEntry, DropSender, ReleasePermit, Batcher, Collect, Judge,
             Dispatch, NothingLive, StopBatcher, CloseReceiver, Discard, Worker, RunBatch, PutL1, Finish, EndBatch
    <3> QED
      BY <3>1 DEF TypeOK
  <2> QED
    BY <2>1, <2>2
<1>2. cached' \subseteq Keys
  <2>1. ASSUME NEW w \in Workers, NEW g \in Gens, PutL1(w, g) PROVE cached' \subseteq Keys
    BY <2>1 DEF PutL1, TypeOK, ItemsOK
  <2>2. CASE cached' = cached
    BY <2>2 DEF TypeOK
  <2> QED
    BY <2>1, <2>2, ZenonT(60)
       DEF Next, vars, Tick, RunJobs, Lookup, CheckDeadline, Admit, Shed, Send, Sent, Poll, Settle, Timeout,
           Abandon, Drop, SubtractTokens, RemoveEntry, DropSender, ReleasePermit, Batcher, Collect, Judge,
           Dispatch, NothingLive, StopBatcher, CloseReceiver, Discard, Worker, RunBatch, Finish, EndBatch
<1> QED
  BY <1>1, <1>2, RequestsStep, ItemsStep, PoolStep DEF TypeOK

\* In every reachable state every variable has its type, items are numbered
\* without gaps by next_gen, and no sweep uses a clock reading of the future.
THEOREM TypeCorrect == Spec => []TypeOK
<1> QED
  BY TypeInit, TypeStep, PTL DEF Spec

-----------------------------------------------------------------------------
(* The life of an item.                                                    *)

\* Whether an item has still to be run, and whether its entry may be in the map.
Active == Queued \cup Running
Alive  == Active \cup {"dropping", "subtracted"}
Over   == {"hungup", "gone"}

\* An item leaves Alive only when its entry is removed, never becomes active
\* again, and is over for good.
Forward(g) ==
    /\ phase[g] \in Alive => phase'[g] \in Alive \/ RemoveEntry(g)
    /\ phase'[g] \in Active => phase[g] \in Active \cup {"unborn"}
    /\ phase[g] \in Over => phase'[g] \in Over
    /\ phase'[g] = "stored" => phase[g] = "stored" \/ itemKey[g] \in cached'

\* No step takes an item back to an earlier phase.
LEMMA ItemsForward ==
    ASSUME TypeOK, [Next]_vars, NEW h \in Gens
    PROVE  Forward(h)
<1> USE DEF Forward, Alive, Active, Over, Queued, Running, Dropping, Phases
<1>0. ItemsOK
  BY DEF TypeOK
<1>1. CASE phase' = phase
  BY <1>1
<1>2. ASSUME NEW r \in Requests, Admit(r) PROVE Forward(h)
  BY <1>2, AdmitFacts
<1>3. ASSUME NEW r \in Requests, NEW g \in Gens, Send(r, g) PROVE Forward(h)
  <2>1. /\ phase[g] = "held"
        /\ \E p \in {"queued", "dropping"} : phase' = [phase EXCEPT ![g] = p]
    BY <1>3 DEF Send
  <2> QED
    BY <1>0, <2>1 DEF ItemsOK
<1>4. ASSUME NEW g \in Gens, Drop(g) PROVE Forward(h)
  BY <1>0, <1>4 DEF Drop, SubtractTokens, RemoveEntry, DropSender, ReleasePermit, ItemsOK
<1>5. ASSUME NEW m \in Models, Collect(m) PROVE Forward(h)
  BY <1>0, <1>5 DEF Collect, In, ItemsOf, Item, ItemsOK
<1>6. ASSUME NEW m \in Models, NEW g \in Gens, Judge(m, g) \/ Discard(m, g) PROVE Forward(h)
  BY <1>0, <1>6 DEF Judge, Discard, In, ItemsOf, Item, ItemsOK
<1>7. ASSUME NEW m \in Models, NEW w \in Workers, Dispatch(m, w) PROVE Forward(h)
  <2>1. PICK batch \in SUBSET In(m, "kept") :
          phase' = [g \in Gens |-> IF g \in batch THEN "running" ELSE phase[g]]
    BY <1>7 DEF Dispatch
  <2> QED
    BY <2>1 DEF In, ItemsOf
<1>8. ASSUME NEW w \in Workers, NEW g \in Gens, PutL1(w, g) \/ Finish(w, g) PROVE Forward(h)
  BY <1>0, <1>8 DEF PutL1, Finish, ItemsOK
<1> QED
  BY <1>1, <1>2, <1>3, <1>4, <1>5, <1>6, <1>7, <1>8
     DEF Next, vars, item, Tick, RunJobs, Lookup, CheckDeadline, Shed, Sent, Poll, Settle, Timeout,
         Abandon, Batcher, NothingLive, StopBatcher, CloseReceiver, Worker, RunBatch, EndBatch

-----------------------------------------------------------------------------
(* Coalescing: the map and the subscriptions.                              *)

\* A request only gives subscriptions up, unless it is admitted.
LEMMA SubsFrame ==
    ASSUME TypeOK, [Next]_vars, NEW q \in Requests
    PROVE  subs'[q] \subseteq subs[q] \/ Admit(q)
<1>0. subs \in [Requests -> SUBSET Gens]
  BY DEF TypeOK, RequestsOK
<1>1. CASE UNCHANGED request
  BY <1>1 DEF request
<1>2. ASSUME NEW r \in Requests, NEW result, Return(r, result) PROVE subs'[q] \subseteq subs[q]
  BY <1>0, <1>2 DEF Return
<1>3. ASSUME NEW r \in Requests, Lookup(r) \/ Sent(r) PROVE subs'[q] \subseteq subs[q]
  BY <1>3 DEF Lookup, Sent
<1>4. ASSUME NEW r \in Requests, CheckDeadline(r) PROVE subs'[q] \subseteq subs[q]
  <2>1. CASE Return(r, "deadline")
    BY <1>2, <2>1
  <2>2. CASE subs' = subs
    BY <2>2
  <2> QED
    BY <1>4, <2>1, <2>2 DEF CheckDeadline
<1>5. ASSUME NEW r \in Requests, Admit(r) PROVE subs'[q] \subseteq subs[q] \/ Admit(q)
  BY <1>5, AdmitFacts
<1>6. ASSUME NEW r \in Requests, Shed(r) \/ Timeout(r) \/ Abandon(r) PROVE subs'[q] \subseteq subs[q]
  BY <1>2, <1>6 DEF Shed, Timeout, Abandon
<1>7. ASSUME NEW r \in Requests, Settle(r) PROVE subs'[q] \subseteq subs[q]
  BY <1>2, <1>7 DEF Settle
<1>8. ASSUME NEW r \in Requests, NEW g \in Gens, Send(r, g) \/ Poll(r, g) PROVE subs'[q] \subseteq subs[q]
  BY <1>0, <1>8 DEF Send, Poll
<1> QED
  BY <1>1, <1>3, <1>4, <1>5, <1>6, <1>7, <1>8, RequestsFrame DEF Next, RunJobs

SubsBorn == \A r \in Requests : \A g \in subs[r] : phase[g] # "unborn"

\* The part of the invariant about the map: nobody subscribes to an item that
\* does not exist, entries are alive, wanted items are mapped.
MapInv == SubsBorn /\ EntriesAlive /\ WantedIsMapped /\ DueCoversWaiters

\* The map starts empty.
LEMMA MapInit == Init => MapInv
  BY DEF Init, MapInv, SubsBorn, EntriesAlive, WantedIsMapped, DueCoversWaiters, Queued, Running

\* Admission keeps the map's invariant: what it registers is alive and due late enough.
LEMMA AdmitMap ==
    ASSUME TypeOK, MapInv, NEW r \in Requests, Admit(r)
    PROVE  MapInv'
<1>0. RequestsOK /\ ItemsOK /\ SubsBorn /\ EntriesAlive /\ WantedIsMapped /\ DueCoversWaiters
  BY DEF TypeOK, MapInv
<1>1. /\ \A k \in Fresh(r) : entry'[k] \in Born /\ itemKey'[entry'[k]] = k
      /\ \A k \in Keys \ Fresh(r) : entry'[k] = entry[k]
  BY AdmitFacts
<1>2. \A g \in Born : /\ g \in Gens /\ phase[g] = "unborn" /\ phase'[g] = "held"
                      /\ itemKey'[g] \in Fresh(r) /\ entry'[itemKey'[g]] = g /\ due'[g] = DeadlineOf[r]
  BY AdmitFacts
<1>3. \A g \in Gens \ Born :
         phase'[g] = phase[g] /\ itemKey'[g] = itemKey[g] /\ due'[g] = Extended(r, Joined(r))[g]
  BY AdmitFacts
<1>4. subs'[r] = Joined(r) \cup Born /\ \A q \in Requests \ {r} : subs'[q] = subs[q]
  BY AdmitFacts
<1>5. \A g \in Joined(r) : /\ g \in Gens /\ phase[g] # "unborn" /\ Subscribers(g) # {}
                           /\ itemKey[g] \in todo[r] \ Fresh(r) /\ entry[itemKey[g]] = g
  <2> SUFFICES ASSUME NEW k \in todo[r], Joinable(k), NEW g, g = entry[k]
               PROVE  /\ g \in Gens /\ phase[g] # "unborn" /\ Subscribers(g) # {}
                      /\ itemKey[g] \in todo[r] \ Fresh(r) /\ entry[itemKey[g]] = g
    BY DEF Joined
  <2>1. k \in Keys /\ k \notin Fresh(r)
    BY <1>0 DEF RequestsOK, Fresh
  <2>2. g \in Gens /\ Subscribers(g) # {}
    BY <1>0, <2>1 DEF Joinable, ItemsOK
  <2>3. itemKey[g] = k /\ phase[g] # "unborn"
    BY <1>0, <2>1 DEF Joinable, EntriesAlive, Queued, Running
  <2> QED
    BY <2>1, <2>2, <2>3
<1>6. \A q \in Requests : subs[q] \subseteq Gens /\ todo[q] \subseteq Keys
  BY <1>0 DEF RequestsOK
<1>7. SubsBorn'
  BY <1>0, <1>2, <1>3, <1>4, <1>5, <1>6 DEF SubsBorn
<1>8. EntriesAlive'
  <2> SUFFICES ASSUME NEW k \in Keys, entry'[k] # None
               PROVE  /\ itemKey'[entry'[k]] = k
                      /\ phase'[entry'[k]] \in Queued \cup Running \cup {"dropping", "subtracted"}
    BY DEF EntriesAlive
  <2>1. CASE k \in Fresh(r)
    BY <1>1, <1>2, <2>1 DEF Queued
  <2>2. CASE k \notin Fresh(r)
    <3>1. entry'[k] = entry[k] /\ entry[k] \in Gens
      BY <1>0, <1>1, <2>2 DEF ItemsOK
    <3>2. phase[entry[k]] # "unborn"
      BY <1>0, <3>1 DEF EntriesAlive, Queued, Running
    <3> QED
      BY <1>0, <1>2, <1>3, <3>1, <3>2 DEF EntriesAlive
  <2> QED
    BY <2>1, <2>2
<1>9. WantedIsMapped'
  <2> SUFFICES ASSUME NEW g \in Gens, phase'[g] \in Queued \cup Running,
                      NEW q \in Requests, g \in subs'[q]
               PROVE  entry'[itemKey'[g]] = g
    BY DEF WantedIsMapped, Subscribers
  <2>1. CASE g \in Born
    BY <1>2, <2>1
  <2>2. CASE g \notin Born
    <3>1. phase'[g] = phase[g] /\ itemKey'[g] = itemKey[g]
      BY <1>3, <2>2
    <3>2. Subscribers(g) # {}
      BY <1>4, <1>5, <2>2 DEF Subscribers
    <3>3. entry[itemKey[g]] = g
      BY <1>0, <3>1, <3>2 DEF WantedIsMapped
    <3>4. itemKey[g] \in Keys
      BY <1>0, <3>1 DEF ItemsOK, Queued, Running
    <3>5. itemKey[g] \notin Fresh(r)
      BY <1>0, <3>2, <3>3, BoundsAssumption DEF Fresh, Joinable, BoundsAssumption
    <3> QED
      BY <1>1, <3>1, <3>3, <3>4, <3>5
  <2> QED
    BY <2>1, <2>2
<1>10. DueCoversWaiters'
  <2> SUFFICES ASSUME NEW q \in Requests, NEW g \in subs'[q] PROVE due'[g] >= DeadlineOf[q]
    BY DEF DueCoversWaiters
  <2>0. DeadlineOf \in [Requests -> Nat] /\ due \in [Gens -> Nat]
    BY <1>0, RequestsAssumption DEF RequestsAssumption, ItemsOK
  <2>1. CASE g \in Born
    <3>1. q = r
      BY <1>0, <1>2, <1>4, <2>1 DEF SubsBorn
    <3> QED
      BY <1>2, <2>0, <2>1, <3>1
  <2>2. CASE g \notin Born
    <3>1. g \in Gens
      BY <1>4, <1>5, <1>6, <2>2
    <3>2. due'[g] = IF g \in Joined(r) THEN Later(due[g], DeadlineOf[r]) ELSE due[g]
      BY <1>3, <2>2, <3>1 DEF Extended
    <3>3. CASE q = r
      BY <1>4, <2>0, <2>2, <3>1, <3>2, <3>3 DEF Later
    <3>4. CASE q # r
      BY <1>0, <1>4, <2>0, <3>1, <3>2, <3>4 DEF Later, DueCoversWaiters
    <3> QED
      BY <3>3, <3>4
  <2> QED
    BY <2>1, <2>2
<1> QED
  BY <1>7, <1>8, <1>9, <1>10 DEF MapInv

\* Every step keeps the map's invariant.
LEMMA MapStep == TypeOK /\ MapInv /\ [Next]_vars => MapInv'
<1> SUFFICES ASSUME TypeOK, MapInv, [Next]_vars, ~\E r \in Requests : Admit(r) PROVE MapInv'
  BY AdmitMap
<1>0. RequestsOK /\ ItemsOK /\ SubsBorn /\ EntriesAlive /\ WantedIsMapped /\ DueCoversWaiters
  BY DEF TypeOK, MapInv
<1>1. itemKey' = itemKey /\ \A g \in Gens : phase'[g] = "unborn" <=> phase[g] = "unborn"
  BY ItemsMove
<1>2. \A r \in Requests : subs'[r] \subseteq subs[r] /\ subs[r] \subseteq Gens
  BY <1>0, SubsFrame DEF RequestsOK
<1>3. \A g \in Gens : Forward(g)
  BY ItemsForward
<1>4. ASSUME NEW g \in Gens, RemoveEntry(g)
      PROVE  /\ phase[g] = "subtracted" /\ phase' = [phase EXCEPT ![g] = "unmapped"]
             /\ itemKey[g] \in Keys
             /\ \A k \in Keys : entry'[k] = IF entry[k] = g THEN None ELSE entry[k]
  <2>1. /\ phase[g] = "subtracted" /\ phase' = [phase EXCEPT ![g] = "unmapped"]
        /\ entry' = [entry EXCEPT ![itemKey[g]] = IF @ = g THEN None ELSE @]
    BY <1>4 DEF RemoveEntry, Unmapped
  <2>2. itemKey[g] \in Keys
    BY <1>0, <2>1 DEF ItemsOK
  <2>3. ASSUME NEW k \in Keys PROVE entry'[k] = IF entry[k] = g THEN None ELSE entry[k]
    <3>1. CASE k = itemKey[g]
      BY <1>0, <2>1, <3>1 DEF ItemsOK
    <3>2. CASE k # itemKey[g]
      <4>1. entry'[k] = entry[k]
        BY <1>0, <2>1, <3>2 DEF ItemsOK
      <4>2. entry[k] # g
        BY <1>0, <3>2, BoundsAssumption DEF EntriesAlive, BoundsAssumption
      <4> QED
        BY <4>1, <4>2
    <3> QED
      BY <3>1, <3>2
  <2> QED
    BY <2>1, <2>2, <2>3
<1>5. CASE \E g \in Gens : RemoveEntry(g)
  <2>1. PICK g \in Gens : RemoveEntry(g)
    BY <1>5
  <2>2. \A k \in Keys : entry'[k] = IF entry[k] = g THEN None ELSE entry[k]
    BY <1>4, <2>1
  <2>3. phase[g] = "subtracted" /\ phase' = [phase EXCEPT ![g] = "unmapped"] /\ due' = due
    BY <1>4, <2>1 DEF RemoveEntry, Unmapped
  <2>4. SubsBorn'
    BY <1>0, <1>1, <1>2 DEF SubsBorn
  <2>5. EntriesAlive'
    BY <1>0, <1>1, <2>2, <2>3 DEF EntriesAlive, ItemsOK
  <2>6. WantedIsMapped'
    <3> SUFFICES ASSUME NEW h \in Gens, phase'[h] \in Queued \cup Running,
                        NEW q \in Requests, h \in subs'[q]
                 PROVE  entry'[itemKey'[h]] = h
      BY DEF WantedIsMapped, Subscribers
    <3>1. h # g /\ phase[h] \in Queued \cup Running
      BY <1>0, <2>3 DEF ItemsOK, Queued, Running
    <3>2. entry[itemKey[h]] = h /\ itemKey[h] \in Keys
      BY <1>0, <1>2, <3>1 DEF WantedIsMapped, Subscribers, ItemsOK, Queued, Running
    <3> QED
      BY <1>1, <2>2, <3>1, <3>2
  <2>7. DueCoversWaiters'
    BY <1>0, <1>2, <2>3 DEF DueCoversWaiters
  <2> QED
    BY <2>4, <2>5, <2>6, <2>7 DEF MapInv
<1>6. CASE ~\E g \in Gens : RemoveEntry(g)
  <2>1. entry' = entry
    BY <1>6, Writers
  <2>2. SubsBorn'
    BY <1>0, <1>1, <1>2 DEF SubsBorn
  <2>3. EntriesAlive'
    <3> SUFFICES ASSUME NEW k \in Keys, entry[k] # None
                 PROVE  itemKey[entry[k]] = k /\ phase'[entry[k]] \in Alive
      BY <1>1, <2>1 DEF EntriesAlive, Alive, Active
    <3>1. entry[k] \in Gens
      BY <1>0 DEF ItemsOK
    <3>2. itemKey[entry[k]] = k /\ phase[entry[k]] \in Alive
      BY <1>0 DEF EntriesAlive, Alive, Active
    <3> QED
      BY <1>3, <1>6, <3>1, <3>2 DEF Forward
  <2>4. WantedIsMapped'
    <3> SUFFICES ASSUME NEW h \in Gens, phase'[h] \in Queued \cup Running,
                        NEW q \in Requests, h \in subs'[q]
                 PROVE  entry[itemKey[h]] = h
      BY <1>1, <2>1 DEF WantedIsMapped, Subscribers
    <3>1. phase[h] \in Queued \cup Running
      BY <1>1, <1>3 DEF Forward, Active, Queued, Running
    <3> QED
      BY <1>0, <1>2, <3>1 DEF WantedIsMapped, Subscribers
  <2>5. DueCoversWaiters'
    <3> SUFFICES ASSUME NEW q \in Requests, NEW g \in subs'[q] PROVE due'[g] >= DeadlineOf[q]
      BY DEF DueCoversWaiters
    <3>1. g \in Gens /\ due[g] >= DeadlineOf[q]
      BY <1>0, <1>2 DEF DueCoversWaiters
    <3>2. due[g] \in Nat /\ DeadlineOf \in [Requests -> Nat]
      BY <1>0, <3>1, RequestsAssumption DEF ItemsOK, RequestsAssumption
    <3>3. CASE due' = due
      BY <3>1, <3>3
    <3>4. ASSUME NEW r \in Requests, Shed(r) PROVE due'[g] >= DeadlineOf[q]
      BY <3>1, <3>2, <3>4 DEF Shed, Extended, Later
    <3> QED
      BY <3>3, <3>4, Writers
  <2> QED
    BY <2>2, <2>3, <2>4, <2>5 DEF MapInv
<1> QED
  BY <1>5, <1>6

\* A queued or running item that somebody waits for is the one its key's map
\* entry names; entries name items that will still be resolved or removed;
\* and an item's deadline covers everyone who joined it.
THEOREM MapCorrect == Spec => [](EntriesAlive /\ WantedIsMapped /\ DueCoversWaiters)
<1>1. TypeOK /\ MapInv /\ [Next]_vars => (TypeOK /\ MapInv)'
  BY TypeStep, MapStep
<1>2. Init => TypeOK /\ MapInv
  BY TypeInit, MapInit
<1>3. TypeOK /\ MapInv => EntriesAlive /\ WantedIsMapped /\ DueCoversWaiters
  BY DEF MapInv
<1> QED
  BY <1>1, <1>2, <1>3, PTL DEF Spec

\* Coalescing: no key ever has two wanted computations queued or running.
THEOREM CoalescingCorrect == Spec => []OneComputation
<1>1. WantedIsMapped => OneComputation
  BY DEF WantedIsMapped, OneComputation
<1>2. EntriesAlive /\ WantedIsMapped /\ DueCoversWaiters => OneComputation
  BY <1>1
<1> QED
  BY <1>2, MapCorrect, PTL

-----------------------------------------------------------------------------
(* The sweep.                                                              *)

\* Only Judge takes an item from "judging" to its drop.
LEMMA OnlyJudgeDrops ==
    ASSUME TypeOK, [Next]_vars, NEW g \in Gens, phase[g] = "judging", phase'[g] = "dropping"
    PROVE  \E m \in Models : Judge(m, g)
<1>0. ItemsOK
  BY DEF TypeOK
<1>1. phase' # phase
  OBVIOUS
<1>2. ASSUME NEW r \in Requests, Admit(r) PROVE FALSE
  BY <1>2, AdmitFacts
<1>3. ASSUME NEW r \in Requests, NEW h \in Gens, Send(r, h) PROVE FALSE
  <2>1. phase[h] = "held" /\ \E p \in {"queued", "dropping"} : phase' = [phase EXCEPT ![h] = p]
    BY <1>3 DEF Send
  <2> QED
    BY <1>0, <2>1 DEF ItemsOK
<1>4. ASSUME NEW h \in Gens, Drop(h) PROVE FALSE
  BY <1>0, <1>4 DEF Drop, SubtractTokens, RemoveEntry, DropSender, ReleasePermit, ItemsOK
<1>5. ASSUME NEW m \in Models, Collect(m) PROVE FALSE
  BY <1>0, <1>5 DEF Collect, ItemsOK
<1>6. ASSUME NEW m \in Models, NEW h \in Gens, Judge(m, h) \/ Discard(m, h) PROVE Judge(m, g)
  <2>1. CASE Discard(m, h)
    <3>1. phase[h] \in {"kept", "queued"} /\ phase' = [phase EXCEPT ![h] = "dropping"]
      BY <2>1 DEF Discard, In
    <3> QED
      BY <1>0, <3>1 DEF ItemsOK
  <2>2. CASE Judge(m, h)
    <3>1. \E p \in {"kept", "dropping"} : phase' = [phase EXCEPT ![h] = p]
      BY <2>2 DEF Judge
    <3>2. h = g
      BY <1>0, <3>1 DEF ItemsOK
    <3> QED
      BY <2>2, <3>2
  <2> QED
    BY <1>6, <2>1, <2>2
<1>7. ASSUME NEW m \in Models, NEW w \in Workers, Dispatch(m, w) PROVE FALSE
  <2>1. PICK batch \in SUBSET In(m, "kept") :
          phase' = [h \in Gens |-> IF h \in batch THEN "running" ELSE phase[h]]
    BY <1>7 DEF Dispatch
  <2> QED
    BY <2>1
<1>8. ASSUME NEW w \in Workers, NEW h \in Gens, PutL1(w, h) \/ Finish(w, h) PROVE FALSE
  <2>1. \/ phase' = [phase EXCEPT ![h] = "stored"]
        \/ phase[h] \in {"stored", "running"} /\ phase' = [phase EXCEPT ![h] = "dropping"]
    BY <1>8 DEF PutL1, Finish
  <2> QED
    BY <1>0, <2>1 DEF ItemsOK
<1> QED
  BY <1>1, <1>2, <1>3, <1>4, <1>5, <1>6, <1>7, <1>8
     DEF Next, vars, item, Tick, RunJobs, Lookup, CheckDeadline, Shed, Sent, Poll, Settle, Timeout,
         Abandon, Batcher, NothingLive, StopBatcher, CloseReceiver, Worker, RunBatch, EndBatch

\* What the sweep drops had no subscriber with time left: a subscriber's
\* deadline is within the item's (DueCoversWaiters), the item's had passed
\* when the sweep read the clock, and the clock does not go back.
THEOREM SweepCorrect == Spec => SweepSparesWaiters
<1> DEFINE Spares == \A g \in Gens : phase[g] = "judging" /\ phase'[g] = "dropping" =>
                        \A r \in Subscribers(g) : DeadlineOf[r] <= now
<1>1. ASSUME TypeOK, DueCoversWaiters, [Next]_vars PROVE Spares
  <2> SUFFICES ASSUME NEW g \in Gens, phase[g] = "judging", phase'[g] = "dropping",
                      NEW r \in Subscribers(g)
               PROVE  DeadlineOf[r] <= now
    OBVIOUS
  <2>0. ItemsOK /\ PoolOK /\ now \in Nat
    <3>1. ItemsOK /\ PoolOK /\ now \in 0 .. MaxTime
      BY <1>1 DEF TypeOK
    <3>2. MaxTime \in Nat
      BY BoundsAssumption DEF BoundsAssumption
    <3> QED
      BY <3>1, <3>2
  <2>1. PICK m \in Models : Judge(m, g)
    BY <1>1, OnlyJudgeDrops
  <2>2. ~Live(g, sweptAt[m])
    <3>1. phase' = [phase EXCEPT ![g] = IF Live(g, sweptAt[m]) THEN "kept" ELSE "dropping"]
      BY <2>1 DEF Judge
    <3> QED
      BY <2>0, <3>1 DEF ItemsOK
  <2>3. r \in Requests /\ due[g] >= DeadlineOf[r]
    BY <1>1 DEF Subscribers, DueCoversWaiters
  <2>4. ~(sweptAt[m] < due[g])
    BY <2>2 DEF Live
  <2>5. due[g] \in Nat /\ sweptAt[m] \in Nat /\ sweptAt[m] <= now /\ DeadlineOf[r] \in Nat
    BY <2>0, <2>3, RequestsAssumption DEF ItemsOK, PoolOK, RequestsAssumption
  <2> QED
    BY <2>0, <2>3, <2>4, <2>5
<1>2. TypeOK /\ DueCoversWaiters /\ [Next]_vars => [Spares]_vars
  BY <1>1
<1> QED
  BY <1>2, TypeCorrect, MapCorrect, PTL DEF Spec, SweepSparesWaiters

-----------------------------------------------------------------------------
(* Results: what an item's subscribers are told, and when.                 *)

\* An item has a result only once its drop has begun, cancels its subscribers
\* at the drop's third step, and holds an answer only if the cache was given it.
FateInv ==
    \A g \in Gens :
        /\ out[g] # "none" => phase[g] \in Dropping \cup {"gone"}
        /\ out[g] = "canceled" => phase[g] \in Over
        /\ out[g] = "ok" \/ phase[g] = "stored" => itemKey[g] \in cached

\* A request lacks no key that it no longer asks for.
AsksInv ==
    \A r \in Requests :
        pc[r] \in {"check", "admit", "send", "wait", "ok"} => Asks[r] \ todo[r] \subseteq cached

\* Every step keeps an item's result in line with its phase.
LEMMA FateStep == TypeOK /\ FateInv /\ [Next]_vars => FateInv'
<1> SUFFICES ASSUME TypeOK, FateInv, [Next]_vars, NEW h \in Gens
             PROVE  /\ out'[h] # "none" => phase'[h] \in Dropping \cup {"gone"}
                    /\ out'[h] = "canceled" => phase'[h] \in Over
                    /\ out'[h] = "ok" \/ phase'[h] = "stored" => itemKey'[h] \in cached'
  BY DEF FateInv
<1> DEFINE Goal == /\ out'[h] # "none" => phase'[h] \in Dropping \cup {"gone"}
                   /\ out'[h] = "canceled" => phase'[h] \in Over
                   /\ out'[h] = "ok" \/ phase'[h] = "stored" => itemKey'[h] \in cached'
<1> USE DEF Over, Dropping
<1>0. ItemsOK
  BY DEF TypeOK
<1>h. /\ out[h] # "none" => phase[h] \in Dropping \cup {"gone"}
      /\ out[h] = "canceled" => phase[h] \in Over
      /\ out[h] = "ok" \/ phase[h] = "stored" => itemKey[h] \in cached
  BY DEF FateInv
<1>1. CASE UNCHANGED <<phase, itemKey, out, cached>>
  BY <1>1, <1>h
<1>2. ASSUME NEW r \in Requests, Admit(r) PROVE Goal
  <2>1. out' = out /\ cached' = cached
    BY <1>2 DEF Admit
  <2>2. CASE h \in Born
    BY <1>2, <1>h, <2>1, <2>2, AdmitFacts
  <2>3. CASE h \notin Born
    BY <1>2, <1>h, <2>1, <2>3, AdmitFacts
  <2> QED
    BY <2>2, <2>3
<1>3. ASSUME NEW r \in Requests, NEW g \in Gens, Send(r, g) PROVE Goal
  <2>1. /\ phase[g] = "held" /\ itemKey' = itemKey /\ cached' = cached
        /\ \/ phase' = [phase EXCEPT ![g] = "queued"] /\ out' = out
           \/ phase' = [phase EXCEPT ![g] = "dropping"] /\ out' = [out EXCEPT ![g] = "err"]
    BY <1>3 DEF Send, pool
  <2> QED
    BY <1>0, <1>h, <2>1 DEF ItemsOK
<1>4. ASSUME NEW g \in Gens, Drop(g) PROVE Goal
  <2>1. CASE DropSender(g)
    <3>1. /\ phase[g] = "unmapped" /\ phase' = [phase EXCEPT ![g] = "hungup"]
          /\ itemKey' = itemKey /\ cached' = cached
          /\ \/ out' = out
             \/ out' = [out EXCEPT ![g] = "canceled"]
      BY <1>0, <2>1 DEF DropSender, ItemsOK
    <3> QED
      BY <1>0, <1>h, <3>1 DEF ItemsOK
  <2>2. CASE SubtractTokens(g) \/ RemoveEntry(g) \/ ReleasePermit(g)
    <3>1. /\ itemKey' = itemKey /\ cached' = cached /\ out' = out
          /\ \/ phase[g] = "dropping" /\ phase' = [phase EXCEPT ![g] = "subtracted"]
             \/ phase[g] = "subtracted" /\ phase' = [phase EXCEPT ![g] = "unmapped"]
             \/ phase[g] = "hungup" /\ phase' = [phase EXCEPT ![g] = "gone"]
      BY <2>2 DEF SubtractTokens, RemoveEntry, ReleasePermit
    <3> QED
      BY <1>0, <1>h, <3>1 DEF ItemsOK
  <2> QED
    BY <1>4, <2>1, <2>2 DEF Drop
<1>5. ASSUME NEW m \in Models, Collect(m) PROVE Goal
  BY <1>0, <1>5, <1>h DEF Collect, In, ItemsOf, ItemsOK
<1>6. ASSUME NEW m \in Models, NEW g \in Gens, Judge(m, g) \/ Discard(m, g) PROVE Goal
  <2>1. /\ itemKey' = itemKey /\ cached' = cached /\ out' = out
        /\ phase[g] \in {"judging", "kept", "queued"}
        /\ \E p \in {"kept", "dropping"} : phase' = [phase EXCEPT ![g] = p]
    BY <1>6 DEF Judge, Discard, In
  <2> QED
    BY <1>0, <1>h, <2>1 DEF ItemsOK
<1>7. ASSUME NEW m \in Models, NEW w \in Workers, Dispatch(m, w) PROVE Goal
  <2>1. PICK batch \in SUBSET In(m, "kept") :
          phase' = [g \in Gens |-> IF g \in batch THEN "running" ELSE phase[g]]
    BY <1>7 DEF Dispatch
  <2>2. UNCHANGED <<itemKey, out, cached>>
    BY <1>7 DEF Dispatch
  <2> QED
    BY <1>h, <2>1, <2>2 DEF In
<1>8. ASSUME NEW w \in Workers, NEW g \in Gens, PutL1(w, g) \/ Finish(w, g) PROVE Goal
  <2>1. CASE PutL1(w, g)
    BY <1>0, <1>h, <2>1 DEF PutL1, ItemsOK
  <2>2. CASE Finish(w, g)
    <3>1. /\ itemKey' = itemKey /\ cached' = cached /\ phase' = [phase EXCEPT ![g] = "dropping"]
          /\ \/ phase[g] = "stored" /\ out' = [out EXCEPT ![g] = "ok"]
             \/ phase[g] = "running" /\ out' = [out EXCEPT ![g] = "err"]
      BY <2>2 DEF Finish
    <3> QED
      BY <1>0, <1>h, <3>1 DEF ItemsOK
  <2> QED
    BY <1>8, <2>1, <2>2
<1> QED
  BY <1>1, <1>2, <1>3, <1>4, <1>5, <1>6, <1>7, <1>8
     DEF Next, vars, item, Tick, RunJobs, Lookup, CheckDeadline, Shed, Sent, Poll, Settle, Timeout,
         Abandon, Batcher, NothingLive, StopBatcher, CloseReceiver, Worker, RunBatch, EndBatch

\* A lost subscriber that admits again finds the lost item's entry gone.
THEOREM CancelCorrect == Spec => []CanceledIsUnmapped
<1>1. Init => FateInv
  BY DEF Init, FateInv
<1>2. TypeOK /\ FateInv /\ [Next]_vars => FateInv'
  BY FateStep
<1>3. FateInv /\ EntriesAlive => CanceledIsUnmapped
  <2> SUFFICES ASSUME FateInv, EntriesAlive, NEW g \in Gens, out[g] = "canceled", NEW k \in Keys,
                      entry[k] = g
               PROVE  FALSE
    BY DEF CanceledIsUnmapped
  <2>1. phase[g] \in Over
    BY DEF FateInv
  <2>2. phase[g] \in Queued \cup Running \cup {"dropping", "subtracted"}
    BY BoundsAssumption DEF EntriesAlive, BoundsAssumption
  <2> QED
    BY <2>1, <2>2 DEF Over, Queued, Running
<1> QED
  BY <1>1, <1>2, <1>3, TypeCorrect, MapCorrect, PTL DEF Spec

\* An answered item leaves the map only when its key has been cached.
THEOREM CacheCorrect == Spec => CachedBeforeUnmapped
<1> DEFINE Stored == \A k \in Keys : entry[k] # None /\ entry'[k] # entry[k] /\ out[entry[k]] = "ok"
                        => k \in cached
<1>1. Init => FateInv
  BY DEF Init, FateInv
<1>2. TypeOK /\ FateInv /\ [Next]_vars => FateInv'
  BY FateStep
<1>3. TypeOK /\ FateInv /\ EntriesAlive => Stored
  BY DEF TypeOK, ItemsOK, FateInv, EntriesAlive
<1>4. TypeOK /\ FateInv /\ EntriesAlive => [Stored]_vars
  BY <1>3
<1> QED
  BY <1>1, <1>2, <1>4, TypeCorrect, MapCorrect, PTL DEF Spec, CachedBeforeUnmapped

\* A key is taken off a request's list only once it is cached.
LEMMA AsksStep == TypeOK /\ FateInv /\ AsksInv /\ [Next]_vars => AsksInv'
<1> SUFFICES ASSUME TypeOK, FateInv, AsksInv, [Next]_vars, NEW q \in Requests,
                    pc'[q] \in {"check", "admit", "send", "wait", "ok"}
             PROVE  Asks[q] \ todo'[q] \subseteq cached'
  BY DEF AsksInv
<1> DEFINE Goal == Asks[q] \ todo'[q] \subseteq cached'
<1>0. RequestsOK /\ ItemsOK
  BY DEF TypeOK
<1>q. pc[q] \in {"check", "admit", "send", "wait", "ok"} => Asks[q] \ todo[q] \subseteq cached
  BY DEF AsksInv
<1>1. cached \subseteq cached'
  <2>1. ASSUME NEW w \in Workers, Worker(w) PROVE cached \subseteq cached'
    BY <2>1 DEF Worker, RunBatch, EndBatch, PutL1, Finish
  <2>2. ASSUME NEW r \in Requests, Lookup(r) \/ RunJobs(r) \/ Timeout(r) \/ Abandon(r)
        PROVE  cached' = cached
    BY <2>2 DEF Lookup, RunJobs, CheckDeadline, Admit, Shed, Sent, Settle, Send, Poll, Timeout, Abandon, pool
  <2>3. ASSUME NEW g \in Gens, Drop(g) PROVE cached' = cached
    BY <2>3 DEF Drop, SubtractTokens, RemoveEntry, DropSender, ReleasePermit
  <2>4. ASSUME NEW m \in Models, Batcher(m) PROVE cached' = cached
    BY <2>4 DEF Batcher, Collect, Judge, Dispatch, NothingLive, StopBatcher, CloseReceiver, Discard
  <2>5. CASE Tick \/ UNCHANGED vars
    BY <2>5 DEF Tick, vars
  <2> QED
    BY <2>1, <2>2, <2>3, <2>4, <2>5 DEF Next
<1>2. CASE pc'[q] = pc[q] /\ todo'[q] = todo[q]
  BY <1>1, <1>2, <1>q
<1>3. ASSUME NEW r \in Requests, NEW result, Return(r, result) PROVE q # r => pc'[q] = pc[q] /\ todo'[q] = todo[q]
  BY <1>0, <1>3 DEF Return, RequestsOK
<1>4. ASSUME NEW r \in Requests, Lookup(r) PROVE Goal
  BY <1>0, <1>1, <1>2, <1>4 DEF Lookup, RequestsOK
<1>5. ASSUME NEW r \in Requests, CheckDeadline(r) PROVE Goal
  <2>1. CASE Return(r, "deadline")
    BY <1>0, <1>2, <1>3, <2>1 DEF Return, RequestsOK
  <2>2. CASE ~Return(r, "deadline")
    BY <1>0, <1>1, <1>5, <1>q, <2>2 DEF CheckDeadline, RequestsOK
  <2> QED
    BY <2>1, <2>2
<1>6. ASSUME NEW r \in Requests, Admit(r) \/ Sent(r) PROVE Goal
  BY <1>0, <1>1, <1>6, <1>q DEF Admit, Sent, RequestsOK
<1>7. ASSUME NEW r \in Requests, Shed(r) \/ Timeout(r) \/ Abandon(r) PROVE Goal
  <2>1. \E result \in {"overloaded", "deadline", "gone"} : Return(r, result)
    BY <1>7 DEF Shed, Timeout, Abandon
  <2> QED
    BY <1>0, <1>2, <1>3, <2>1 DEF Return, RequestsOK
<1>8. ASSUME NEW r \in Requests, Settle(r) PROVE Goal
  <2>1. CASE Return(r, "backend")
    BY <1>0, <1>2, <1>3, <2>1 DEF Return, RequestsOK
  <2>2. CASE Return(r, "ok") /\ todo[r] = {} /\ pc[r] = "wait"
    BY <1>0, <1>1, <1>2, <1>3, <1>q, <2>2
  <2>3. CASE pc[r] = "wait" /\ pc' = [pc EXCEPT ![r] = "check"] /\ todo' = todo
    BY <1>0, <1>1, <1>q, <2>3 DEF RequestsOK
  <2> QED
    BY <1>8, <2>1, <2>2, <2>3 DEF Settle
<1>9. ASSUME NEW r \in Requests, NEW g \in Gens, Poll(r, g) PROVE Goal
  <2>1. /\ pc' = pc /\ pc[r] = "wait" /\ out[g] # "none"
        /\ todo' = [todo EXCEPT ![r] = IF out[g] = "ok" THEN todo[r] \ {itemKey[g]} ELSE todo[r]]
    BY <1>9 DEF Poll
  <2>2. CASE q = r /\ out[g] = "ok"
    <3>1. itemKey[g] \in cached
      BY <2>2 DEF FateInv
    <3>2. todo'[q] = todo[q] \ {itemKey[g]}
      BY <1>0, <2>1, <2>2 DEF RequestsOK
    <3> QED
      BY <1>1, <1>q, <2>1, <2>2, <3>1, <3>2
  <2>3. CASE ~(q = r /\ out[g] = "ok")
    BY <1>0, <1>2, <2>1, <2>3 DEF RequestsOK
  <2> QED
    BY <2>2, <2>3
<1>10. ASSUME NEW r \in Requests, NEW g \in Gens, Send(r, g) PROVE Goal
  BY <1>2, <1>10 DEF Send
<1> QED
  BY <1>2, <1>4, <1>5, <1>6, <1>7, <1>8, <1>9, <1>10, RequestsFrame DEF Next, RunJobs, request

\* An answered request has nothing left to do.
DoneInv == \A r \in Requests : pc[r] = "ok" => todo[r] = {}

\* A request answers only when its list is empty.
LEMMA DoneStep == TypeOK /\ DoneInv /\ [Next]_vars => DoneInv'
<1> SUFFICES ASSUME TypeOK, DoneInv, [Next]_vars, NEW q \in Requests, pc'[q] = "ok"
             PROVE  todo'[q] = {}
  BY DEF DoneInv
<1>0. RequestsOK
  BY DEF TypeOK
<1>1. CASE pc'[q] = pc[q] /\ todo'[q] = todo[q]
  BY <1>1 DEF DoneInv
<1>2. ASSUME NEW r \in Requests, NEW result, Return(r, result) PROVE todo'[q] = {}
  BY <1>0, <1>1, <1>2 DEF Return, RequestsOK
<1>3. ASSUME NEW r \in Requests, Lookup(r) PROVE todo'[q] = {}
  BY <1>0, <1>1, <1>3 DEF Lookup, RequestsOK
<1>4. ASSUME NEW r \in Requests,
             CheckDeadline(r) \/ Shed(r) \/ Settle(r) \/ Timeout(r) \/ Abandon(r)
      PROVE  todo'[q] = {}
  <2>1. (\E result : Return(r, result)) \/ \E p \in {"admit", "check"} : pc' = [pc EXCEPT ![r] = p] /\ todo' = todo
    BY <1>4 DEF CheckDeadline, Shed, Settle, Timeout, Abandon
  <2> QED
    BY <1>0, <1>1, <1>2, <2>1 DEF RequestsOK
<1>5. ASSUME NEW r \in Requests, Admit(r) \/ Sent(r) PROVE todo'[q] = {}
  BY <1>0, <1>1, <1>5 DEF Admit, Sent, RequestsOK
<1>6. ASSUME NEW r \in Requests, NEW g \in Gens, Send(r, g) \/ Poll(r, g) PROVE todo'[q] = {}
  BY <1>0, <1>1, <1>6 DEF Send, Poll, RequestsOK
<1> QED
  BY <1>1, <1>3, <1>4, <1>5, <1>6, RequestsFrame DEF Next, RunJobs, request

\* A request is answered only with every key it asked for.
THEOREM AnswersCorrect == Spec => []AnswersComplete
<1>1. Init => FateInv /\ AsksInv /\ DoneInv
  BY DEF Init, FateInv, AsksInv, DoneInv
<1>2. TypeOK /\ FateInv /\ AsksInv /\ DoneInv /\ [Next]_vars => (FateInv /\ AsksInv /\ DoneInv)'
  BY FateStep, AsksStep, DoneStep
<1>3. AsksInv /\ DoneInv => AnswersComplete
  BY DEF AsksInv, DoneInv, AnswersComplete
<1> QED
  BY <1>1, <1>2, <1>3, TypeCorrect, PTL DEF Spec

-----------------------------------------------------------------------------
(* Permits.  However requests are admitted and items end, none is leaked   *)
(* and none is returned twice.                                             *)

\* The items of m that one admission registers.
BornOf(m) == {g \in Born : ModelOf[itemKey'[g]] = m}

\* admit takes a permit for each item it registers.
LEMMA AdmitTakesPermits ==
    ASSUME TypeOK, NEW r \in Requests, Admit(r), NEW m \in Models
    PROVE  permits'[m] = permits[m] - Cardinality(BornOf(m))
<1>1. nextGen' = nextGen + Cardinality(Fresh(r)) /\ Cardinality(Fresh(r)) \in Nat /\ nextGen \in Nat
  <2>1. nextGen \in 0 .. MaxGens /\ MaxGens \in Nat
    BY BoundsAssumption DEF TypeOK, ItemsOK, BoundsAssumption
  <2> QED
    BY <2>1, AdmitFacts
<1> DEFINE new == nextGen .. (nextGen + Cardinality(Fresh(r)) - 1)
<1>2. new = Born
  BY <1>1 DEF Born
<1> HIDE DEF new
<1>3. PICK of \in Bijection(new, Fresh(r)) :
        /\ itemKey' = [g \in Gens |-> IF g \in new THEN of[g] ELSE itemKey[g]]
        /\ permits' = [n \in Models |-> permits[n] - Cardinality({g \in new : ModelOf[of[g]] = n})]
  BY DEF Admit, new
<1>4. \A g \in new : itemKey'[g] = of[g]
  BY <1>2, <1>3, AdmitFacts
<1>5. {g \in new : ModelOf[of[g]] = m} = BornOf(m)
  BY <1>2, <1>4 DEF BornOf
<1> QED
  BY <1>3, <1>5

\* The items of m are finitely many.
LEMMA ItemsFinite ==
    ASSUME NEW m \in Models
    PROVE  IsFiniteSet(ItemsOf(m)) /\ Cardinality(ItemsOf(m)) \in Nat
<1>1. MaxGens \in Nat
  BY BoundsAssumption DEF BoundsAssumption
<1>2. IsFiniteSet(Gens)
  BY <1>1, FS_Interval DEF Gens
<1>3. ItemsOf(m) \subseteq Gens
  BY DEF ItemsOf
<1> QED
  BY <1>2, <1>3, FS_Subset, FS_CardinalityType

\* The items of a model change only by an admission and at the last step of a drop.
LEMMA PermitFrame ==
    ASSUME TypeOK, [Next]_vars
    PROVE  \/ \E r \in Requests : Admit(r)
           \/ \E g \in Gens : ReleasePermit(g)
           \/ permits' = permits /\ \A m \in Models : ItemsOf(m)' = ItemsOf(m)
<1> DEFINE Same == permits' = permits /\ itemKey' = itemKey /\ \A g \in Gens :
                      phase'[g] \in {"unborn", "gone"} <=> phase[g] \in {"unborn", "gone"}
<1>0. ItemsOK
  BY DEF TypeOK
<1> USE DEF Item
<1>1. ASSUME Tick \/ UNCHANGED vars PROVE Same
  <2>1. permits' = permits /\ itemKey' = itemKey /\ phase' = phase
    BY <1>1 DEF Tick, vars, item, queue
  <2> QED
    BY <2>1
<1>2. ASSUME NEW r \in Requests,
             Lookup(r) \/ CheckDeadline(r) \/ Shed(r) \/ Sent(r) \/ Settle(r) \/ Timeout(r) \/ Abandon(r)
      PROVE  Same
  BY <1>2 DEF Lookup, CheckDeadline, Shed, Sent, Settle, Timeout, Abandon, item, queue
<1>3. ASSUME NEW r \in Requests, NEW g \in Gens, Send(r, g) \/ Poll(r, g) PROVE Same
  <2>1. CASE Poll(r, g)
    BY <2>1 DEF Poll, item, queue
  <2>2. CASE Send(r, g)
    <3>1. /\ phase[g] = "held" /\ itemKey' = itemKey /\ permits' = permits
          /\ \E p \in {"queued", "dropping"} : phase' = [phase EXCEPT ![g] = p]
      BY <2>2 DEF Send, queue
    <3> QED
      BY <1>0, <3>1 DEF ItemsOK
  <2> QED
    BY <1>3, <2>1, <2>2
<1>4. ASSUME NEW g \in Gens, SubtractTokens(g) \/ RemoveEntry(g) \/ DropSender(g) PROVE Same
  BY <1>0, <1>4 DEF SubtractTokens, RemoveEntry, DropSender, ItemsOK, queue
<1>5. ASSUME NEW m \in Models, NothingLive(m) \/ StopBatcher(m) \/ CloseReceiver(m) PROVE Same
  BY <1>5 DEF NothingLive, StopBatcher, CloseReceiver, item, queue
<1>6. ASSUME NEW m \in Models, Collect(m) PROVE Same
  BY <1>0, <1>6 DEF Collect, In, ItemsOf, ItemsOK, queue
<1>7. ASSUME NEW m \in Models, NEW g \in Gens, Judge(m, g) \/ Discard(m, g) PROVE Same
  BY <1>0, <1>7 DEF Judge, Discard, In, ItemsOf, ItemsOK, queue
<1>8. ASSUME NEW m \in Models, NEW w \in Workers, Dispatch(m, w) PROVE Same
  <2>1. PICK batch \in SUBSET In(m, "kept") :
          phase' = [h \in Gens |-> IF h \in batch THEN "running" ELSE phase[h]]
    BY <1>8 DEF Dispatch
  <2>2. permits' = permits /\ itemKey' = itemKey
    BY <1>8 DEF Dispatch, queue
  <2> QED
    BY <2>1, <2>2 DEF In, ItemsOf
<1>9. ASSUME NEW w \in Workers, RunBatch(w) \/ EndBatch(w) PROVE Same
  BY <1>9 DEF RunBatch, EndBatch, item, queue
<1>10. ASSUME NEW w \in Workers, NEW g \in Gens, PutL1(w, g) \/ Finish(w, g) PROVE Same
  BY <1>0, <1>10 DEF PutL1, Finish, ItemsOK, queue
<1> HIDE DEF Same
<1>11. \/ \E r \in Requests : Admit(r)
       \/ \E g \in Gens : ReleasePermit(g)
       \/ Same
  BY <1>1, <1>2, <1>3, <1>4, <1>5, <1>6, <1>7, <1>8, <1>9, <1>10 DEF Next, RunJobs, Drop, Batcher, Worker
<1>12. Same => \A m \in Models : ItemsOf(m)' = ItemsOf(m)
  BY DEF Same, ItemsOf, Item
<1> QED
  BY <1>11, <1>12 DEF Same

\* Every step moves as many permits as items.
LEMMA PermitStep == TypeOK /\ PermitsConserved /\ [Next]_vars => PermitsConserved'
<1> SUFFICES ASSUME TypeOK, PermitsConserved, [Next]_vars, NEW m \in Models
             PROVE  permits'[m] + Cardinality(ItemsOf(m)') = MaxPending[m]
  BY DEF PermitsConserved
<1>0. ItemsOK
  BY DEF TypeOK
<1>1. permits[m] + Cardinality(ItemsOf(m)) = MaxPending[m]
  BY DEF PermitsConserved
<1>2. permits \in [Models -> Nat] /\ MaxPending[m] \in Nat
  BY ModelsAssumption DEF TypeOK, PoolOK, ModelsAssumption
<1>3. IsFiniteSet(ItemsOf(m)) /\ Cardinality(ItemsOf(m)) \in Nat
  BY ItemsFinite
<1>4. CASE permits' = permits /\ ItemsOf(m)' = ItemsOf(m)
  BY <1>1, <1>4
<1>5. ASSUME NEW r \in Requests, Admit(r) PROVE permits'[m] + Cardinality(ItemsOf(m)') = MaxPending[m]
  <2>1. permits'[m] = permits[m] - Cardinality(BornOf(m))
    BY <1>5, AdmitTakesPermits
  <2>2. ItemsOf(m)' = ItemsOf(m) \cup BornOf(m)
    <3>1. \A g \in Born : g \in Gens /\ phase'[g] = "held"
      BY <1>5, AdmitFacts
    <3>2. \A g \in Gens \ Born : phase'[g] = phase[g] /\ itemKey'[g] = itemKey[g]
      BY <1>5, AdmitFacts
    <3>3. \A g \in Born : phase[g] = "unborn"
      BY <1>5, AdmitFacts
    <3> QED
      BY <3>1, <3>2, <3>3 DEF ItemsOf, Item, BornOf
  <2>3. ItemsOf(m) \cap BornOf(m) = {}
    BY <1>5, AdmitFacts DEF ItemsOf, Item, BornOf
  <2>4. IsFiniteSet(BornOf(m)) /\ Cardinality(BornOf(m)) \in Nat
    <3>1. IsFiniteSet(Gens)
      BY FS_Interval, BoundsAssumption DEF BoundsAssumption, Gens
    <3>2. BornOf(m) \subseteq Gens
      BY <1>5, AdmitFacts DEF BornOf
    <3> QED
      BY <3>1, <3>2, FS_Subset, FS_CardinalityType
  <2>5. Cardinality(ItemsOf(m) \cup BornOf(m)) = Cardinality(ItemsOf(m)) + Cardinality(BornOf(m))
    BY <1>3, <2>3, <2>4, DisjointUnion
  <2>6. permits[m] \in Nat
    BY <1>2
  <2> QED
    BY <1>1, <1>3, <2>1, <2>2, <2>4, <2>5, <2>6
<1>6. ASSUME NEW g \in Gens, ReleasePermit(g)
      PROVE  permits'[m] + Cardinality(ItemsOf(m)') = MaxPending[m]
  <2>1. /\ phase[g] = "hungup" /\ phase' = [phase EXCEPT ![g] = "gone"] /\ itemKey' = itemKey
        /\ permits' = [permits EXCEPT ![ModelOf[itemKey[g]]] = permits[ModelOf[itemKey[g]]] + 1]
    BY <1>6 DEF ReleasePermit
  <2>2. CASE ModelOf[itemKey[g]] = m
    <3>1. g \in ItemsOf(m)
      BY <2>1, <2>2 DEF ItemsOf, Item
    <3>2. ItemsOf(m)' = ItemsOf(m) \ {g}
      BY <1>0, <2>1 DEF ItemsOf, Item, ItemsOK
    <3>3. Cardinality(ItemsOf(m) \ {g}) = Cardinality(ItemsOf(m)) - 1
      BY <1>3, <3>1, FS_RemoveElement
    <3>4. permits'[m] = permits[m] + 1
      BY <1>2, <2>1, <2>2
    <3>5. permits[m] \in Nat
      BY <1>2
    <3> QED
      BY <1>1, <1>3, <3>2, <3>3, <3>4, <3>5
  <2>3. CASE ModelOf[itemKey[g]] # m
    <3>1. ItemsOf(m)' = ItemsOf(m)
      BY <1>0, <2>1, <2>3 DEF ItemsOf, Item, ItemsOK
    <3>2. permits'[m] = permits[m]
      BY <1>2, <2>1, <2>3
    <3> QED
      BY <1>1, <3>1, <3>2
  <2> QED
    BY <2>2, <2>3
<1> QED
  BY <1>4, <1>5, <1>6, PermitFrame

\* A model's free permits and its items alive are always max_pending together.
THEOREM PermitsCorrect == Spec => []PermitsConserved
<1>1. Init => PermitsConserved
  <2> SUFFICES ASSUME Init, NEW m \in Models PROVE permits[m] + Cardinality(ItemsOf(m)) = MaxPending[m]
    BY DEF PermitsConserved
  <2>1. ItemsOf(m) = {}
    BY DEF Init, ItemsOf, Item
  <2>2. permits[m] = MaxPending[m] /\ MaxPending[m] \in Nat
    BY ModelsAssumption DEF Init, ModelsAssumption
  <2> QED
    BY <2>1, <2>2, FS_EmptySet
<1>2. TypeOK /\ PermitsConserved /\ [Next]_vars => PermitsConserved'
  BY PermitStep
<1> QED
  BY <1>1, <1>2, TypeCorrect, PTL DEF Spec

-----------------------------------------------------------------------------
(* Queued tokens.                                                          *)

\* The items of m whose tokens are counted, and what they add up to.
InCount      == Queued \cup Running \cup {"dropping"}
Counted(m) == {g \in ItemsOf(m) : phase[g] \in InCount}
TokenSum(m) == SumVia(TokensOf, itemKey, Counted(m))

\* The counters, each the sum of the lengths it stands for.
TokensInv ==
    /\ queuedTokens \in [Models -> Nat]
    /\ \A m \in Models : queuedTokens[m] = TokenSum(m)

\* The sum that the invariant keeps is the one TokensExact states.
LEMMA TokensInvExact == TokensInv => TokensExact
<1> SUFFICES ASSUME TokensInv PROVE TokensExact
  OBVIOUS
<1>1. \A m \in Models : queuedTokens[m] = SumVia(TokensOf, itemKey, Counted(m))
  BY DEF TokensInv, TokenSum
<1>2. \A m \in Models : Counted(m) = {g \in ItemsOf(m) : phase[g] \in Queued \cup Running \cup {"dropping"}}
  BY DEF Counted, InCount
<1>3. \A m \in Models : queuedTokens[m] =
          SumVia(TokensOf, itemKey, {g \in ItemsOf(m) : phase[g] \in Queued \cup Running \cup {"dropping"}})
  BY <1>1, <1>2
<1> QED
  BY <1>3, Zenon DEF TokensExact, SumVia

\* The counted items are finitely many and have lengths.
LEMMA CountedFacts ==
    ASSUME TypeOK, NEW m \in Models
    PROVE  /\ IsFiniteSet(Counted(m)) /\ Counted(m) \subseteq Gens
           /\ \A g \in Counted(m) : itemKey[g] \in Keys /\ TokensOf[itemKey[g]] \in Nat
<1>1. Counted(m) \subseteq ItemsOf(m) /\ ItemsOf(m) \subseteq Gens
  BY DEF Counted, ItemsOf
<1>2. \A g \in ItemsOf(m) : itemKey[g] \in Keys
  BY DEF TypeOK, ItemsOK, ItemsOf, Item
<1> QED
  BY <1>1, <1>2, ItemsFinite, FS_Subset, RequestsAssumption DEF RequestsAssumption

\* An item that is no longer counted takes its length with it.
LEMMA TokensWithout ==
    ASSUME NEW S, IsFiniteSet(S), \A h \in S : TokensOf[itemKey[h]] \in Nat, NEW g \in S
    PROVE  SumVia(TokensOf, itemKey, S) = TokensOf[itemKey[g]] + SumVia(TokensOf, itemKey, S \ {g})
  BY SumViaWithout

\* admit adds the lengths of the items it registers.
LEMMA AdmitAddsTokens ==
    ASSUME TypeOK, queuedTokens \in [Models -> Nat], NEW r \in Requests, Admit(r)
    PROVE  /\ DOMAIN queuedTokens' = Models /\ queuedTokens' = [m \in Models |-> queuedTokens'[m]]
           /\ \A m \in Models : queuedTokens'[m] = queuedTokens[m] + SumVia(TokensOf, itemKey', BornOf(m))
<1>1. nextGen' = nextGen + Cardinality(Fresh(r)) /\ Cardinality(Fresh(r)) \in Nat /\ nextGen \in Nat
  <2>1. nextGen \in 0 .. MaxGens /\ MaxGens \in Nat
    BY BoundsAssumption DEF TypeOK, ItemsOK, BoundsAssumption
  <2> QED
    BY <2>1, AdmitFacts
<1> DEFINE new == nextGen .. (nextGen + Cardinality(Fresh(r)) - 1)
<1>2. new = Born
  BY <1>1 DEF Born
<1> HIDE DEF new
<1>3. PICK of \in Bijection(new, Fresh(r)) :
        /\ itemKey' = [g \in Gens |-> IF g \in new THEN of[g] ELSE itemKey[g]]
        /\ queuedTokens' = [m \in Models |-> queuedTokens[m] +
              MapThenSumSet(LAMBDA g : TokensOf[of[g]], {g \in new : ModelOf[of[g]] = m})]
  BY Zenon DEF Admit, new
<1>4. \A g \in new : itemKey'[g] = of[g]
  BY <1>2, <1>3, AdmitFacts
<1>5. queuedTokens' = [m \in Models |-> queuedTokens[m] + SumVia(TokensOf, of, {g \in new : ModelOf[of[g]] = m})]
  BY <1>3, Zenon DEF SumVia
<1>6. ASSUME NEW m \in Models
      PROVE  SumVia(TokensOf, of, {g \in new : ModelOf[of[g]] = m}) = SumVia(TokensOf, itemKey', BornOf(m))
  <2>1. {g \in new : ModelOf[of[g]] = m} = BornOf(m)
    BY <1>2, <1>4 DEF BornOf
  <2>2. \A g \in BornOf(m) : TokensOf[of[g]] = TokensOf[itemKey'[g]]
    BY <1>2, <1>4 DEF BornOf
  <2>3. SumVia(TokensOf, of, BornOf(m)) = SumVia(TokensOf, itemKey', BornOf(m))
    BY <2>2, SumViaSame
  <2> QED
    BY <2>1, <2>3
<1> QED
  BY <1>5, <1>6

\* What is counted changes only by an admission and at the first step of a drop.
LEMMA TokensFrame ==
    ASSUME TypeOK, [Next]_vars
    PROVE  \/ \E r \in Requests : Admit(r)
           \/ \E g \in Gens : SubtractTokens(g)
           \/ queuedTokens' = queuedTokens /\ itemKey' = itemKey /\ \A m \in Models : Counted(m)' = Counted(m)
<1> DEFINE Same == queuedTokens' = queuedTokens /\ itemKey' = itemKey /\ \A g \in Gens :
                      phase'[g] \in InCount <=> phase[g] \in InCount
<1>0. ItemsOK
  BY DEF TypeOK
<1> USE DEF InCount, Queued, Running
<1>1. ASSUME Tick \/ UNCHANGED vars PROVE Same
  <2>1. queuedTokens' = queuedTokens /\ itemKey' = itemKey /\ phase' = phase
    BY <1>1 DEF Tick, vars, item, queue
  <2> QED
    BY <2>1
<1>2. ASSUME NEW r \in Requests,
             Lookup(r) \/ CheckDeadline(r) \/ Shed(r) \/ Sent(r) \/ Settle(r) \/ Timeout(r) \/ Abandon(r)
      PROVE  Same
  BY <1>2 DEF Lookup, CheckDeadline, Shed, Sent, Settle, Timeout, Abandon, item, queue
<1>3. ASSUME NEW r \in Requests, NEW g \in Gens, Send(r, g) \/ Poll(r, g) PROVE Same
  <2>1. CASE Poll(r, g)
    BY <2>1 DEF Poll, item, queue
  <2>2. CASE Send(r, g)
    <3>1. /\ phase[g] = "held" /\ itemKey' = itemKey /\ queuedTokens' = queuedTokens
          /\ \E p \in {"queued", "dropping"} : phase' = [phase EXCEPT ![g] = p]
      BY <2>2 DEF Send, queue
    <3> QED
      BY <1>0, <3>1 DEF ItemsOK
  <2> QED
    BY <1>3, <2>1, <2>2
<1>4. ASSUME NEW g \in Gens, RemoveEntry(g) \/ DropSender(g) \/ ReleasePermit(g) PROVE Same
  BY <1>0, <1>4 DEF RemoveEntry, DropSender, ReleasePermit, ItemsOK, queue
<1>5. ASSUME NEW m \in Models, NothingLive(m) \/ StopBatcher(m) \/ CloseReceiver(m) PROVE Same
  BY <1>5 DEF NothingLive, StopBatcher, CloseReceiver, item, queue
<1>6. ASSUME NEW m \in Models, Collect(m) PROVE Same
  BY <1>0, <1>6 DEF Collect, In, ItemsOf, ItemsOK, queue
<1>7. ASSUME NEW m \in Models, NEW g \in Gens, Judge(m, g) \/ Discard(m, g) PROVE Same
  BY <1>0, <1>7 DEF Judge, Discard, In, ItemsOf, ItemsOK, queue
<1>8. ASSUME NEW m \in Models, NEW w \in Workers, Dispatch(m, w) PROVE Same
  <2>1. PICK batch \in SUBSET In(m, "kept") :
          phase' = [h \in Gens |-> IF h \in batch THEN "running" ELSE phase[h]]
    BY <1>8 DEF Dispatch
  <2>2. queuedTokens' = queuedTokens /\ itemKey' = itemKey
    BY <1>8 DEF Dispatch, queue
  <2> QED
    BY <2>1, <2>2 DEF In, ItemsOf
<1>9. ASSUME NEW w \in Workers, RunBatch(w) \/ EndBatch(w) PROVE Same
  BY <1>9 DEF RunBatch, EndBatch, item, queue
<1>10. ASSUME NEW w \in Workers, NEW g \in Gens, PutL1(w, g) \/ Finish(w, g) PROVE Same
  BY <1>0, <1>10 DEF PutL1, Finish, ItemsOK, queue
<1> HIDE DEF Same
<1>11. \/ \E r \in Requests : Admit(r)
       \/ \E g \in Gens : SubtractTokens(g)
       \/ Same
  BY <1>1, <1>2, <1>3, <1>4, <1>5, <1>6, <1>7, <1>8, <1>9, <1>10 DEF Next, RunJobs, Drop, Batcher, Worker
<1>12. Same => \A m \in Models : Counted(m)' = Counted(m)
  BY DEF Same, Counted, ItemsOf, Item
<1> QED
  BY <1>11, <1>12 DEF Same

\* Every step adds to a counter what it adds to the items counted by it.
LEMMA TokensStep == TypeOK /\ TokensInv /\ [Next]_vars => TokensInv'
<1> SUFFICES ASSUME TypeOK, TokensInv, [Next]_vars PROVE TokensInv'
  OBVIOUS
<1>0. ItemsOK /\ queuedTokens \in [Models -> Nat]
  BY DEF TypeOK, TokensInv
<1>1. CASE queuedTokens' = queuedTokens /\ itemKey' = itemKey /\ \A m \in Models : Counted(m)' = Counted(m)
  BY <1>1 DEF TokensInv, TokenSum
<1>2. ASSUME NEW r \in Requests, Admit(r) PROVE TokensInv'
  <2>1. /\ queuedTokens' = [m \in Models |-> queuedTokens'[m]]
        /\ \A m \in Models : queuedTokens'[m] = queuedTokens[m] + SumVia(TokensOf, itemKey', BornOf(m))
    BY <1>0, <1>2, AdmitAddsTokens
  <2>2. /\ \A g \in Born : g \in Gens /\ phase[g] = "unborn" /\ phase'[g] = "held" /\ itemKey'[g] \in Fresh(r)
        /\ \A g \in Gens \ Born : phase'[g] = phase[g] /\ itemKey'[g] = itemKey[g]
    BY <1>2, AdmitFacts
  <2>3. Fresh(r) \subseteq Keys
    BY DEF Fresh, TypeOK, RequestsOK
  <2>4. IsFiniteSet(Gens)
    BY FS_Interval, BoundsAssumption DEF BoundsAssumption, Gens
  <2>5. ASSUME NEW m \in Models
        PROVE  /\ Counted(m)' = Counted(m) \cup BornOf(m)
               /\ SumVia(TokensOf, itemKey', Counted(m) \cup BornOf(m))
                    = queuedTokens[m] + SumVia(TokensOf, itemKey', BornOf(m))
               /\ SumVia(TokensOf, itemKey', BornOf(m)) \in Nat
    <3>1. Counted(m)' = Counted(m) \cup BornOf(m)
      BY <2>2 DEF Counted, ItemsOf, Item, BornOf, InCount, Queued
    <3>2. Counted(m) \cap BornOf(m) = {}
      BY <2>2 DEF Counted, ItemsOf, Item, BornOf
    <3>3. IsFiniteSet(Counted(m)) /\ Counted(m) \subseteq Gens
      BY CountedFacts
    <3>4. IsFiniteSet(BornOf(m))
      <4>1. BornOf(m) \subseteq Gens
        BY <2>2 DEF BornOf
      <4> QED
        BY <2>4, <4>1, FS_Subset
    <3>5. \A g \in Counted(m) : itemKey'[g] = itemKey[g]
      BY <2>2, <3>3 DEF Counted, ItemsOf, Item
    <3>6. \A g \in Counted(m) \cup BornOf(m) : TokensOf[itemKey'[g]] \in Nat
      <4>1. \A g \in Counted(m) : TokensOf[itemKey'[g]] \in Nat
        BY <3>5, CountedFacts
      <4>2. \A g \in BornOf(m) : TokensOf[itemKey'[g]] \in Nat
        BY <2>2, <2>3, RequestsAssumption DEF BornOf, RequestsAssumption
      <4> QED
        BY <4>1, <4>2
    <3>7. SumVia(TokensOf, itemKey', Counted(m) \cup BornOf(m))
            = SumVia(TokensOf, itemKey', Counted(m)) + SumVia(TokensOf, itemKey', BornOf(m))
      BY <3>2, <3>3, <3>4, <3>6, SumViaAdd
    <3>8. SumVia(TokensOf, itemKey', Counted(m)) = SumVia(TokensOf, itemKey, Counted(m))
      BY <3>5, SumViaSame
    <3>9. queuedTokens[m] = SumVia(TokensOf, itemKey, Counted(m))
      BY DEF TokensInv, TokenSum
    <3>10. SumVia(TokensOf, itemKey', BornOf(m)) \in Nat
      BY <3>4, <3>6, SumViaFacts
    <3> QED
      BY <3>1, <3>7, <3>8, <3>9, <3>10
  <2>6. \A m \in Models : queuedTokens'[m] \in Nat
    <3> SUFFICES ASSUME NEW m \in Models PROVE queuedTokens'[m] \in Nat
      OBVIOUS
    <3>1. SumVia(TokensOf, itemKey', BornOf(m)) \in Nat
      BY <2>5
    <3>2. queuedTokens'[m] = queuedTokens[m] + SumVia(TokensOf, itemKey', BornOf(m))
      BY <2>1
    <3>3. queuedTokens[m] \in Nat
      BY <1>0
    <3> QED
      BY <3>1, <3>2, <3>3
  <2>7. queuedTokens' \in [Models -> Nat]
    BY <2>1, <2>6
  <2>8. \A m \in Models : TokenSum(m)' = SumVia(TokensOf, itemKey', Counted(m) \cup BornOf(m))
    BY <2>5 DEF TokenSum
  <2> QED
    BY <2>1, <2>5, <2>7, <2>8 DEF TokensInv
<1>3. ASSUME NEW g \in Gens, SubtractTokens(g) PROVE TokensInv'
  <2> DEFINE k == itemKey[g]
             n == ModelOf[k]
  <2>1. /\ phase[g] = "dropping" /\ phase' = [phase EXCEPT ![g] = "subtracted"] /\ itemKey' = itemKey
        /\ queuedTokens' = [queuedTokens EXCEPT ![n] = queuedTokens[n] - TokensOf[k]]
    BY <1>3 DEF SubtractTokens
  <2>2. k \in Keys /\ n \in Models /\ TokensOf[k] \in Nat
    BY <1>0, <2>1, RequestsAssumption, ModelsAssumption DEF ItemsOK, RequestsAssumption, ModelsAssumption
  <2>3. g \in Counted(n)
    BY <2>1 DEF Counted, ItemsOf, Item, InCount
  <2>4. \A m \in Models : Counted(m)' = IF m = n THEN Counted(m) \ {g} ELSE Counted(m)
    BY <1>0, <2>1 DEF Counted, ItemsOf, Item, ItemsOK, InCount, Queued, Running
  <2> HIDE DEF k, n
  <2>5. /\ SumVia(TokensOf, itemKey, Counted(n)) = TokensOf[k] + SumVia(TokensOf, itemKey, Counted(n) \ {g})
        /\ SumVia(TokensOf, itemKey, Counted(n) \ {g}) \in Nat
    <3>1. IsFiniteSet(Counted(n)) /\ \A h \in Counted(n) : TokensOf[itemKey[h]] \in Nat
      BY <2>2, CountedFacts
    <3>2. SumVia(TokensOf, itemKey, Counted(n))
            = TokensOf[itemKey[g]] + SumVia(TokensOf, itemKey, Counted(n) \ {g})
      BY <2>3, <3>1, TokensWithout
    <3>3. IsFiniteSet(Counted(n) \ {g}) /\ \A h \in Counted(n) \ {g} : TokensOf[itemKey[h]] \in Nat
      BY <3>1, FS_Subset
    <3>4. SumVia(TokensOf, itemKey, Counted(n) \ {g}) \in Nat
      BY <3>3, SumViaFacts
    <3> QED
      BY <3>2, <3>4 DEF k
  <2>7. queuedTokens[n] = SumVia(TokensOf, itemKey, Counted(n))
    BY <2>2 DEF TokensInv, TokenSum
  <2>8. queuedTokens'[n] = SumVia(TokensOf, itemKey, Counted(n) \ {g})
    <3>1. queuedTokens'[n] = queuedTokens[n] - TokensOf[k]
      BY <1>0, <2>1, <2>2
    <3> QED
      BY <2>2, <2>5, <2>7, <3>1
  <2>9. queuedTokens' \in [Models -> Nat]
    <3>1. queuedTokens[n] - TokensOf[k] \in Nat
      BY <2>2, <2>5, <2>7
    <3> QED
      BY <1>0, <2>1, <3>1
  <2>10. ASSUME NEW m \in Models PROVE queuedTokens'[m] = TokenSum(m)'
    <3>1. CASE m = n
      <4>1. Counted(m)' = Counted(n) \ {g}
        BY <2>4, <3>1, Zenon
      <4> QED
        BY <2>1, <2>8, <3>1, <4>1 DEF TokenSum
    <3>2. CASE m # n
      <4>1. Counted(m)' = Counted(m) /\ queuedTokens'[m] = queuedTokens[m]
        BY <1>0, <2>1, <2>4, <3>2
      <4>2. queuedTokens[m] = TokenSum(m)
        BY DEF TokensInv
      <4> QED
        BY <2>1, <4>1, <4>2 DEF TokenSum
    <3> QED
      BY <3>1, <3>2
  <2> QED
    BY <2>9, <2>10 DEF TokensInv
<1> QED
  BY <1>1, <1>2, <1>3, TokensFrame

\* A model's queued_tokens are the lengths of its items alive that have not
\* begun to drop; in particular the counter never goes below 0.
THEOREM TokensCorrect == Spec => []TokensExact
<1>1. Init => TokensInv
  <2> SUFFICES ASSUME Init PROVE TokensInv
    OBVIOUS
  <2>1. \A m \in Models : Counted(m) = {}
    BY DEF Init, Counted, ItemsOf, Item
  <2>2. \A m \in Models : TokenSum(m) = 0
    <3> SUFFICES ASSUME NEW m \in Models PROVE TokenSum(m) = 0
      OBVIOUS
    <3>1. IsFiniteSet(Counted(m)) /\ Counted(m) = {} /\ \A g \in Counted(m) : TokensOf[itemKey[g]] \in Nat
      BY <2>1, FS_EmptySet
    <3> QED
      BY <3>1, SumViaFacts DEF TokenSum
  <2> QED
    BY <2>2 DEF Init, TokensInv
<1>2. TypeOK /\ TokensInv /\ [Next]_vars => TokensInv'
  BY TokensStep
<1> QED
  BY <1>1, <1>2, TokensInvExact, TypeCorrect, PTL DEF Spec
=============================================================================
