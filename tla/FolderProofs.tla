---------------------------- MODULE FolderProofs ----------------------------
(***************************************************************************)
(* What TLAPS proves of module ModelFolder, for every set of processes,    *)
(* files and contents and any number of kills and failures.                *)
(***************************************************************************)
EXTENDS ModelFolder, TLAPS

\* The file a pull is at.
AtFile(p) == Order[at[p]]

\* The folder holds, of the files listed so far, what the manifest lists.
DoneBefore(p) == \A i \in 1 .. at[p] - 1 : dest[Order[i]] = Remote[Order[i]]

\* At most one process pulls; the .part file it writes is what it has hashed;
\* the files it has passed are the remote ones.
PullInv ==
    /\ \A p, q \in Procs : Pulling(p) /\ Pulling(q) => p = q
    /\ \A p \in Procs :
        /\ pc[p] \in {"get", "write"} => at[p] \in DOMAIN Order
        /\ pc[p] = "write" => part[AtFile(p)] = got[p]
        /\ pc[p] \in {"ask", "pull", "get", "write", "commit", "place"} => DoneBefore(p)
        /\ pc[p] \in {"commit", "place"} => at[p] = Len(Order) + 1

\* The inductive invariant.
FolderInv == WholeFiles /\ PullInv

\* The files in their order, and their two contents, as the assumption gives them.
LEMMA OrderFacts ==
    /\ Order \in Seq(Files) /\ Len(Order) \in Nat /\ DOMAIN Order = 1 .. Len(Order)
    /\ \A i \in DOMAIN Order : Order[i] \in Files
    /\ \A f \in Files : \E i \in 1 .. Len(Order) : f = Order[i]
    /\ \A f \in Files : Remote[f] \in Seq(Blocks) /\ Remote[f] # Absent /\ Old[f] \in Seq(Blocks) /\ Old[f] # Absent
    /\ Core \subseteq Files /\ Weights \in Core /\ MaxFaults \in Nat
BY FolderAssumption DEF FolderAssumption, Files

Labels == {"idle", "fetch", "fetchAndAsk", "ask", "pull", "get", "write", "commit",
           "place", "after", "load", "open", "serving"}

\* A process goes to a label; a fault is counted up to its bound.
LEMMA GotoType ==
    ASSUME TypeOK, NEW p \in Procs, NEW label \in Labels, Goto(p, label)
    PROVE  pc' \in [Procs -> Labels]
BY DEF TypeOK, Goto, Labels

\* Faults are counted up to their bound.
LEMMA FaultType ==
    ASSUME TypeOK, Fault \/ UNCHANGED faults
    PROVE  faults' \in 0 .. MaxFaults
BY OrderFacts DEF TypeOK, Fault

\* Before anything runs the folder is one that an export left.
LEMMA FolderInit == Init => FolderInv
<1> SUFFICES ASSUME Init PROVE FolderInv
  OBVIOUS
<1>1. dest \in [Files -> Content] /\ \A f \in Files : dest[f] \in {Absent, Old[f], Remote[f]}
  BY OrderFacts DEF Init, Content
<1>2. part \in [Files -> Content]
  BY DEF Init, Content
<1>3. TypeOK
  BY <1>1, <1>2, OrderFacts DEF Init, TypeOK
<1>4. PullInv
  BY OrderFacts DEF Init, PullInv, Pulling
<1> QED
  BY <1>1, <1>3, <1>4 DEF FolderInv, WholeFiles

\* A chunk is a block.
LEMMA ChunkFacts ==
    ASSUME TypeOK, NEW p \in Procs, Write(p), at[p] \in DOMAIN Order
    PROVE  \E b \in Blocks : /\ got' = [got EXCEPT ![p] = Append(@, b)]
                             /\ part' = [part EXCEPT ![AtFile(p)] = Append(@, b)]
                             /\ faults' \in 0 .. MaxFaults
<1> DEFINE f == AtFile(p)
           n == Len(got[p]) + 1
<1>1. f \in Files
  BY OrderFacts DEF AtFile
<1>2. n <= Len(Remote[f]) /\ n \in Nat \ {0}
  BY DEF Write, AtFile, TypeOK
<1>3. Remote[f][n] \in Blocks
  BY <1>1, <1>2, OrderFacts
<1>4. PICK b \in {Remote[f][n], "junk"} :
        /\ got' = [got EXCEPT ![p] = Append(@, b)]
        /\ part' = [part EXCEPT ![f] = Append(@, b)]
        /\ Fault \/ UNCHANGED faults
  BY DEF Write, AtFile
<1>5. b \in Blocks
  BY <1>3 DEF Blocks
<1> QED
  BY <1>4, <1>5, FaultType

\* What a rename puts in place is the remote file.
LEMMA RenameFacts ==
    ASSUME TypeOK, PullInv, NEW p \in Procs, Rename(p)
    PROVE  /\ AtFile(p) \in Files /\ at[p] \in 1 .. Len(Order)
           /\ part[AtFile(p)] = Remote[AtFile(p)]
           /\ dest' = [dest EXCEPT ![AtFile(p)] = Remote[AtFile(p)]]
BY OrderFacts DEF Rename, Right, PullInv, AtFile

\* Only a rename changes a file under its own name.
LEMMA OnlyRename ==
    ASSUME [Next]_vars
    PROVE  dest' = dest \/ \E p \in Procs : Rename(p)
BY DEF Next, Step, Start, Fetch, Prompt, NextFile, Get, Write, Reject, WriteManifest,
       Commit, After, NetworkError, Kill,
       Load, Open, RemovePart, folder, vars

\* A step leaves every process and file within its type.
LEMMA TypeStep == TypeOK /\ PullInv /\ [Next]_vars => TypeOK'
<1> SUFFICES ASSUME TypeOK, PullInv, [Next]_vars PROVE TypeOK'
  OBVIOUS
<1>0. MaxFaults \in Nat /\ Len(Order) \in Nat
  BY OrderFacts
<1>1. CASE UNCHANGED vars
  BY <1>1 DEF vars, folder, pull, loaded, TypeOK
<1>2. ASSUME NEW p \in Procs, Start(p) PROVE TypeOK'
  <2>1. /\ \E label \in {"load", "idle", "fetch", "fetchAndAsk"} : Goto(p, label)
        /\ Fault \/ UNCHANGED faults
        /\ UNCHANGED <<folder, pull, loaded>>
    BY <1>2 DEF Start, Decide
  <2>2. pc' \in [Procs -> Labels] /\ faults' \in 0 .. MaxFaults
    BY <2>1, GotoType, FaultType DEF Labels
  <2> QED
    BY <2>1, <2>2 DEF folder, pull, loaded, TypeOK, Labels
<1>3. ASSUME NEW p \in Procs, Fetch(p) \/ Prompt(p) \/ After(p) PROVE TypeOK'
  <2>1. /\ \E label \in {"pull", "ask", "load", "idle"} : Goto(p, label)
        /\ Fault \/ UNCHANGED faults
        /\ UNCHANGED <<folder, got, loaded>>
        /\ at' = at \/ at' = [at EXCEPT ![p] = 1]
    BY <1>3 DEF Fetch, Prompt, After, pull
  <2>2. pc' \in [Procs -> Labels] /\ faults' \in 0 .. MaxFaults
    BY <2>1, GotoType, FaultType DEF Labels
  <2>3. at' \in [Procs -> 1 .. Len(Order) + 1]
    <3> DEFINE Places == 1 .. Len(Order) + 1
    <3>1. at \in [Procs -> Places]
      BY DEF TypeOK
    <3>2. 1 \in Places
      BY <1>0
    <3> HIDE DEF Places
    <3>3. at' \in [Procs -> Places]
      BY <2>1, <3>1, <3>2
    <3> QED
      BY <3>3 DEF Places
  <2>4. UNCHANGED <<dest, part, manifest, got, printed, session>>
    BY <2>1 DEF folder, loaded
  <2> QED
    BY <2>2, <2>3, <2>4 DEF TypeOK, Labels
<1>4. ASSUME NEW p \in Procs, NextFile(p) PROVE TypeOK'
  <2>1. UNCHANGED <<folder, got, loaded, faults>>
    BY <1>4 DEF NextFile
  <2>2. pc' \in [Procs -> Labels]
    <3>1. UNCHANGED pc \/ \E label \in {"commit", "get"} : Goto(p, label)
      BY <1>4 DEF NextFile
    <3> QED
      BY <3>1, GotoType DEF Labels, TypeOK
  <2>3. at' \in [Procs -> 1 .. Len(Order) + 1]
    <3>1. at[p] \in 1 .. Len(Order) + 1
      BY DEF TypeOK
    <3>2. UNCHANGED at \/ (at[p] + 1 \in 1 .. Len(Order) + 1 /\ at' = [at EXCEPT ![p] = at[p] + 1])
      BY <1>0, <1>4, <3>1 DEF NextFile
    <3> QED
      BY <3>2 DEF TypeOK
  <2> QED
    BY <2>1, <2>2, <2>3 DEF folder, loaded, TypeOK, Labels
<1>5. ASSUME NEW p \in Procs, Get(p) PROVE TypeOK'
  <2>1. <<>> \in Seq(Blocks) /\ <<>> \in Content
    BY DEF Content
  <2> QED
    BY <1>5, <2>1 DEF Get, Goto, loaded, TypeOK
<1>6. ASSUME NEW p \in Procs, Write(p) PROVE TypeOK'
  <2>1. pc[p] = "write" /\ at[p] \in DOMAIN Order
    BY <1>6 DEF Write, PullInv
  <2>2. part[AtFile(p)] = got[p] /\ AtFile(p) \in Files
    BY <2>1, OrderFacts DEF PullInv, AtFile
  <2>3. PICK b \in Blocks : /\ got' = [got EXCEPT ![p] = Append(@, b)]
                            /\ part' = [part EXCEPT ![AtFile(p)] = Append(@, b)]
                            /\ faults' \in 0 .. MaxFaults
    BY <1>6, <2>1, ChunkFacts
  <2>4. Append(got[p], b) \in Seq(Blocks)
    BY DEF TypeOK
  <2>5. got' \in [Procs -> Seq(Blocks)]
    BY <2>3, <2>4 DEF TypeOK
  <2>6. part' \in [Files -> Content]
    BY <2>2, <2>3, <2>4 DEF TypeOK, Content
  <2> QED
    BY <1>6, <2>3, <2>5, <2>6 DEF Write, loaded, TypeOK
<1>7. ASSUME NEW p \in Procs, Rename(p) PROVE TypeOK'
  <2>1. /\ AtFile(p) \in Files /\ at[p] \in 1 .. Len(Order)
        /\ dest' = [dest EXCEPT ![AtFile(p)] = Remote[AtFile(p)]]
    BY <1>7, RenameFacts
  <2>2. dest' \in [Files -> Content]
    BY <2>1, OrderFacts DEF TypeOK, Content
  <2>3. part' \in [Files -> Content]
    BY <1>7 DEF Rename, TypeOK, Content
  <2>4. at' \in [Procs -> 1 .. Len(Order) + 1]
    BY <1>0, <1>7, <2>1 DEF Rename, TypeOK
  <2> QED
    BY <1>7, <2>2, <2>3, <2>4 DEF Rename, Goto, loaded, TypeOK
<1>8. ASSUME NEW p \in Procs, Reject(p) \/ NetworkError(p) PROVE TypeOK'
  <2>1. part' \in [Files -> Content] /\ dest' = dest
    BY <1>8 DEF Reject, NetworkError, RemovePart, TypeOK, Content
  <2>2. /\ Goto(p, "idle") /\ (Fault \/ UNCHANGED faults)
        /\ UNCHANGED <<manifest, pull, loaded>>
    BY <1>8 DEF Reject, NetworkError
  <2>3. pc' \in [Procs -> Labels] /\ faults' \in 0 .. MaxFaults
    BY <2>2, GotoType, FaultType DEF Labels
  <2> QED
    BY <2>1, <2>2, <2>3 DEF pull, loaded, TypeOK, Labels
<1>9. ASSUME NEW p \in Procs, WriteManifest(p) \/ Commit(p) PROVE TypeOK'
  BY <1>9 DEF WriteManifest, Commit, Goto, folder, Before, pull, loaded, TypeOK
<1>10. ASSUME NEW p \in Procs, Kill(p) PROVE TypeOK'
  <2>1. printed' \in [Servers -> {None} \cup [Core -> Content]] /\ session' \in [Servers -> {None} \cup Content]
    BY <1>10 DEF Kill, TypeOK
  <2> QED
    BY <1>0, <1>10, <2>1 DEF Kill, Goto, Fault, folder, pull, TypeOK
<1>11. ASSUME NEW s \in Servers, Load(s) \/ Open(s) PROVE TypeOK'
  <2>1. s \in Procs
    BY DEF Procs
  <2>2. [f \in Core |-> dest[f]] \in [Core -> Content] /\ dest[Weights] \in Content
    BY OrderFacts DEF TypeOK
  <2> QED
    BY <1>11, <2>1, <2>2 DEF Load, Open, Goto, folder, pull, TypeOK
<1> QED
  BY <1>1, <1>2, <1>3, <1>4, <1>5, <1>6, <1>7, <1>8, <1>9, <1>10, <1>11 DEF Next, Step

\* A rename puts the remote file in place of whatever was there.
LEMMA WholeStep == FolderInv /\ [Next]_vars => WholeFiles'
<1> SUFFICES ASSUME TypeOK, PullInv, [Next]_vars, \A f \in Files : dest[f] \in {Absent, Old[f], Remote[f]}
             PROVE  WholeFiles'
  BY DEF FolderInv, WholeFiles
<1>1. TypeOK'
  BY TypeStep
<1>2. ASSUME NEW p \in Procs, Rename(p) PROVE \A f \in Files : dest'[f] \in {Absent, Old[f], Remote[f]}
  BY <1>2, RenameFacts DEF TypeOK
<1> QED
  BY <1>1, <1>2, OnlyRename DEF WholeFiles

Acts(p) ==
    \/ Start(p) \/ Step(p) \/ NetworkError(p) \/ Kill(p)
    \/ p \in Servers /\ (Load(p) \/ Open(p))

\* A process moves by its own steps, and while it pulls nobody else touches the
\* folder.
LEMMA Locality ==
    ASSUME TypeOK, PullInv, [Next]_vars, NEW q \in Procs
    PROVE  \/ Acts(q)
           \/ /\ pc'[q] = pc[q] /\ at'[q] = at[q] /\ got'[q] = got[q]
              /\ Pulling(q) => UNCHANGED folder
<1> DEFINE Still == /\ pc'[q] = pc[q] /\ at'[q] = at[q] /\ got'[q] = got[q]
                    /\ Pulling(q) => UNCHANGED folder
<1>1. ASSUME NEW p \in Procs, Start(p) \/ Step(p) \/ NetworkError(p) \/ Kill(p), p # q PROVE Still
  <2>1. pc'[q] = pc[q] /\ at'[q] = at[q] /\ got'[q] = got[q]
    BY <1>1 DEF TypeOK, Goto, pull, Start, Step, Fetch, Prompt, NextFile, Get, Write, Rename, Reject,
         WriteManifest, Commit, After,
            NetworkError, Kill
  <2>2. UNCHANGED folder \/ Pulling(p)
    BY <1>1 DEF Pulling, folder, RemovePart, Start, Step, Fetch, Prompt, NextFile, Get, Write, Rename, Reject,
            WriteManifest, Commit, After, NetworkError, Kill
  <2>3. Pulling(p) => ~ Pulling(q)
    BY <1>1 DEF PullInv
  <2> QED
    BY <2>1, <2>2, <2>3
<1>2. ASSUME NEW s \in Servers, Load(s) \/ Open(s), s # q PROVE Still
  BY <1>2 DEF TypeOK, Goto, folder, pull, Load, Open, Procs
<1>3. UNCHANGED vars => Still
  BY DEF vars, pull
<1> QED
  BY <1>1, <1>2, <1>3 DEF Next, Acts

\* Only start begins to pull, and only when nobody does.
LEMMA PullBegins ==
    ASSUME TypeOK, NEW p \in Procs, Acts(p), Pulling(p)'
    PROVE  Pulling(p) \/ \A q \in Procs : ~ Pulling(q)
<1>1. CASE Start(p)
  <2>1. pc'[p] \in {"load", "idle"} \/ Alone
    BY <1>1 DEF Start, Goto, Decide, TypeOK
  <2> QED
    BY <2>1 DEF Alone, Pulling
<1>2. CASE Load(p) \/ Open(p) \/ Kill(p) \/ NetworkError(p)
  BY <1>2 DEF TypeOK, Goto, Pulling, Load, Open, Kill, NetworkError
<1>3. CASE Step(p)
  BY <1>3 DEF Pulling, Step, Fetch, Prompt, NextFile, Get, Write, Rename, Reject, WriteManifest, Commit, After
<1> QED
  BY <1>1, <1>2, <1>3 DEF Acts

\* Two processes never pull at once.
LEMMA OnePulls == TypeOK /\ PullInv /\ [Next]_vars => \A p, q \in Procs : Pulling(p)' /\ Pulling(q)' => p = q
<1> SUFFICES ASSUME TypeOK, PullInv, [Next]_vars, NEW p \in Procs, NEW q \in Procs,
                    Pulling(p)', Pulling(q)', p # q
             PROVE  FALSE
  OBVIOUS
<1>1. ~ (Pulling(p) /\ Pulling(q))
  BY DEF PullInv
<1>2. Acts(p) => Pulling(p) \/ \A o \in Procs : ~ Pulling(o)
  BY PullBegins
<1>3. Acts(q) => Pulling(q) \/ \A o \in Procs : ~ Pulling(o)
  BY PullBegins
<1>4. /\ Acts(p) \/ pc'[p] = pc[p]
      /\ Acts(q) \/ pc'[q] = pc[q]
  BY Locality
<1>5. ~ Acts(p) => Pulling(p)
  BY <1>4 DEF Pulling
<1>6. ~ Acts(q) => Pulling(q)
  BY <1>4 DEF Pulling
<1>7. Acts(p) /\ Acts(q) => pc'[p] = pc[p] \/ pc'[q] = pc[q]
  BY DEF Acts, Goto, TypeOK, Start, Step, Fetch, Prompt, NextFile, Get, Write, Rename, Reject,
         WriteManifest, Commit, After,
         NetworkError, Kill, Load, Open
<1> QED
  BY <1>1, <1>2, <1>3, <1>5, <1>6, <1>7 DEF Pulling

\* What PullInv says of one process.
Tracks(p) ==
    /\ pc[p] \in {"get", "write"} => at[p] \in DOMAIN Order
    /\ pc[p] = "write" => part[AtFile(p)] = got[p]
    /\ pc[p] \in {"ask", "pull", "get", "write", "commit", "place"} => DoneBefore(p)
    /\ pc[p] \in {"commit", "place"} => at[p] = Len(Order) + 1

\* A pull's own progress stays true, whoever takes the step.
LEMMA TracksStep ==
    ASSUME TypeOK, PullInv, [Next]_vars, NEW p \in Procs
    PROVE  Tracks(p)'
<1>0. Tracks(p)
  BY DEF PullInv, Tracks
<1>a. at[p] \in 1 .. Len(Order) + 1 /\ Len(Order) \in Nat /\ DOMAIN Order = 1 .. Len(Order)
  BY OrderFacts DEF TypeOK
<1>b. at'[p] = at[p] /\ UNCHANGED dest => DoneBefore(p)' = DoneBefore(p)
  BY DEF DoneBefore
<1>c. pc'[p] \notin {"ask", "pull", "get", "write", "commit", "place"} => Tracks(p)'
  BY DEF Tracks
<1>1. CASE ~ Acts(p)
  <2>1. pc'[p] = pc[p] /\ at'[p] = at[p] /\ got'[p] = got[p] /\ (Pulling(p) => UNCHANGED folder)
    BY <1>1, Locality
  <2>2. pc[p] \in {"ask", "pull", "get", "write", "commit", "place"} => Pulling(p)
    BY DEF Pulling
  <2>3. CASE Pulling(p)
    BY <1>0, <1>b, <2>1, <2>3 DEF Tracks, AtFile, folder
  <2>4. CASE ~ Pulling(p)
    BY <1>c, <2>1, <2>2, <2>4
  <2> QED
    BY <2>3, <2>4
<1>2. CASE Start(p) \/ Reject(p) \/ NetworkError(p) \/ Kill(p) \/ Commit(p) \/ After(p) \/ Load(p) \/ Open(p)
  <2>1. pc'[p] \notin {"ask", "pull", "get", "write", "commit", "place"}
    BY <1>2 DEF TypeOK, Goto, Start, Decide, Reject, NetworkError, Kill, WriteManifest, Commit, After, Load, Open
  <2> QED
    BY <1>c, <2>1
<1>3. CASE Fetch(p)
  <2>1. at'[p] = 1 /\ pc'[p] \in {"pull", "ask"}
    BY <1>3 DEF Fetch, Goto, TypeOK
  <2> QED
    BY <2>1 DEF Tracks, DoneBefore
<1>4. CASE Prompt(p)
  <2>1. pc[p] = "ask" /\ at'[p] = at[p] /\ UNCHANGED dest /\ pc'[p] \in {"pull", "idle"}
    BY <1>4 DEF Prompt, Goto, TypeOK, folder, pull
  <2> QED
    BY <1>0, <1>b, <2>1 DEF Tracks
<1>5. CASE NextFile(p)
  <2>0. pc[p] = "pull" /\ DoneBefore(p) /\ dest' = dest
    BY <1>0, <1>5 DEF NextFile, Tracks, folder
  <2>1. CASE at[p] > Len(Order)
    <3>1. pc'[p] = "commit" /\ at'[p] = at[p] /\ at[p] = Len(Order) + 1
      BY <1>5, <1>a, <2>1 DEF NextFile, Goto, TypeOK
    <3> QED
      BY <1>b, <2>0, <3>1 DEF Tracks
  <2>2. CASE at[p] <= Len(Order) /\ Kept(Order[at[p]])
    <3>1. pc'[p] = "pull" /\ at'[p] = at[p] + 1
      BY <1>5, <1>a, <2>0, <2>2 DEF NextFile, TypeOK
    <3>2. dest[Order[at[p]]] = Remote[Order[at[p]]]
      BY <2>2 DEF Kept, Fine
    <3>3. DoneBefore(p)'
      BY <1>a, <2>0, <3>1, <3>2 DEF DoneBefore
    <3> QED
      BY <3>1, <3>3 DEF Tracks
  <2>3. CASE at[p] <= Len(Order) /\ ~ Kept(Order[at[p]])
    <3>1. pc'[p] = "get" /\ at'[p] = at[p]
      BY <1>5, <1>a, <2>3 DEF NextFile, Goto, TypeOK
    <3> QED
      BY <1>a, <1>b, <2>0, <2>3, <3>1 DEF Tracks
  <2> QED
    BY <1>a, <2>1, <2>2, <2>3
<1>6. CASE Get(p)
  <2>1. pc[p] = "get" /\ pc'[p] = "write" /\ at'[p] = at[p] /\ dest' = dest /\ got'[p] = <<>>
    BY <1>6 DEF Get, Goto, TypeOK
  <2>2. AtFile(p) \in Files
    BY <1>0, <2>1, OrderFacts DEF Tracks, AtFile
  <2>3. part'[AtFile(p)] = <<>> /\ AtFile(p)' = AtFile(p)
    BY <1>6, <2>1, <2>2 DEF Get, AtFile, TypeOK
  <2> QED
    BY <1>0, <1>b, <2>1, <2>3 DEF Tracks
<1>7. CASE Write(p)
  <2>1. pc[p] = "write" /\ pc' = pc /\ at' = at /\ dest' = dest
    BY <1>7 DEF Write
  <2>2. AtFile(p) \in Files /\ AtFile(p)' = AtFile(p)
    BY <1>0, <2>1, OrderFacts DEF Tracks, AtFile
  <2>3. PICK b \in Blocks : /\ got' = [got EXCEPT ![p] = Append(@, b)]
                            /\ part' = [part EXCEPT ![AtFile(p)] = Append(@, b)]
    BY <1>0, <1>7, <2>1, ChunkFacts DEF Tracks
  <2>4. part'[AtFile(p)] = got'[p]
    BY <1>0, <2>1, <2>2, <2>3 DEF Tracks, TypeOK
  <2> QED
    BY <1>0, <1>b, <2>1, <2>2, <2>4 DEF Tracks
<1>8. CASE Rename(p)
  <2>1. /\ AtFile(p) \in Files /\ at[p] \in 1 .. Len(Order)
        /\ dest' = [dest EXCEPT ![AtFile(p)] = Remote[AtFile(p)]]
    BY <1>8, RenameFacts
  <2>2. pc[p] = "write" /\ pc'[p] = "pull" /\ at'[p] = at[p] + 1
    BY <1>8 DEF Rename, Goto, TypeOK
  <2>3. DoneBefore(p)
    BY <1>0, <2>2 DEF Tracks
  <2>4. ASSUME NEW i \in 1 .. at[p] PROVE dest'[Order[i]] = Remote[Order[i]]
    <3>1. Order[i] \in Files
      BY <2>1, OrderFacts
    <3>2. CASE Order[i] = AtFile(p)
      BY <2>1, <3>1, <3>2 DEF TypeOK
    <3>3. CASE Order[i] # AtFile(p)
      <4>1. i \in 1 .. at[p] - 1
        BY <1>a, <3>3 DEF AtFile
      <4> QED
        BY <2>1, <2>3, <3>1, <3>3, <4>1 DEF DoneBefore, TypeOK
    <3> QED
      BY <3>2, <3>3
  <2>5. DoneBefore(p)'
    BY <1>a, <2>2, <2>4 DEF DoneBefore
  <2> QED
    BY <2>2, <2>5 DEF Tracks
<1>9. CASE WriteManifest(p)
  <2>1. pc[p] = "commit" /\ pc'[p] = "place" /\ at'[p] = at[p] /\ dest' = dest
    BY <1>9 DEF WriteManifest, Goto, TypeOK, folder, pull
  <2> QED
    BY <1>0, <1>b, <2>1 DEF Tracks
<1> QED
  BY <1>1, <1>2, <1>3, <1>4, <1>5, <1>6, <1>7, <1>8, <1>9 DEF Acts, Step

\* The inductive step: the three lemmas together.
LEMMA FolderStep == FolderInv /\ [Next]_vars => FolderInv'
<1> SUFFICES ASSUME FolderInv, [Next]_vars PROVE FolderInv'
  OBVIOUS
<1>1. TypeOK /\ PullInv
  BY DEF FolderInv, WholeFiles
<1>2. WholeFiles'
  BY WholeStep
<1>3. \A p, q \in Procs : Pulling(p)' /\ Pulling(q)' => p = q
  BY <1>1, OnePulls
<1>4. \A p \in Procs : Tracks(p)'
  BY <1>1, TracksStep
<1>5. PullInv'
  BY <1>3, <1>4 DEF PullInv, Tracks
<1> QED
  BY <1>2, <1>5 DEF FolderInv

\* The inductive invariant holds.
THEOREM FolderInvariant == Spec => []FolderInv
BY FolderInit, FolderStep, PTL DEF Spec

\* Whatever is killed, fails or is refused, a file under its own name is one an
\* export left or the remote one (download's .part and rename).
THEOREM WholeFilesThm == Spec => []WholeFiles
<1>1. FolderInv => WholeFiles
  BY DEF FolderInv
<1> QED
  BY <1>1, FolderInvariant, PTL

\* manifest.json is put in place last: by then every file is what it lists.
THEOREM ManifestLastThm == Spec => ManifestLast
<1>1. ASSUME FolderInv, [Next]_vars, NEW p \in Procs, pc[p] = "place", pc'[p] = "after"
      PROVE  manifest' = Remote /\ \A f \in Files : dest'[f] = Remote[f]
  <2>0. TypeOK /\ PullInv
    BY <1>1 DEF FolderInv, WholeFiles
  <2>1. Acts(p)
    BY <1>1, <2>0, Locality
  <2>2. Commit(p)
    BY <1>1, <2>0, <2>1 DEF Acts, TypeOK, Goto, Start, Step, Fetch, Prompt, NextFile, Get, Write, Rename, Reject,
            WriteManifest, After, NetworkError, Kill, Load, Open
  <2>3. at[p] = Len(Order) + 1 /\ DoneBefore(p)
    BY <1>1, <2>0 DEF PullInv
  <2>4. \A f \in Files : dest[f] = Remote[f]
    BY <2>3, OrderFacts DEF DoneBefore
  <2> QED
    BY <2>2, <2>4 DEF Commit
<1>2. FolderInv /\ [Next]_vars =>
        [\A p \in Procs : pc[p] = "place" /\ pc'[p] = "after" =>
           manifest' = Remote /\ \A f \in Files : dest'[f] = Remote[f]]_vars
  BY <1>1
<1> QED
  BY <1>2, FolderInvariant, PTL DEF ManifestLast, Spec

\* No kill, failure or pull takes a file from the folder, and none that is the
\* remote one is replaced by anything else.
THEOREM FilesStayThm == Spec => FilesStay
<1>1. ASSUME FolderInv, [Next]_vars, NEW f \in Files
      PROVE  (dest[f] # Absent => dest'[f] # Absent) /\ (dest[f] = Remote[f] => dest'[f] = Remote[f])
  <2>0. TypeOK /\ PullInv
    BY <1>1 DEF FolderInv, WholeFiles
  <2>1. ASSUME NEW p \in Procs, Rename(p)
        PROVE  (dest[f] # Absent => dest'[f] # Absent) /\ (dest[f] = Remote[f] => dest'[f] = Remote[f])
    BY <2>0, <2>1, RenameFacts, OrderFacts DEF TypeOK
  <2> QED
    BY <1>1, <2>1, OnlyRename
<1>2. FolderInv /\ [Next]_vars =>
        [\A f \in Files : /\ dest[f] # Absent => dest'[f] # Absent
                          /\ dest[f] = Remote[f] => dest'[f] = Remote[f]]_vars
  BY <1>1
<1> QED
  BY <1>2, FolderInvariant, PTL DEF FilesStay, Spec
=============================================================================
