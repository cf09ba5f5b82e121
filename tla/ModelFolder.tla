----------------------------- MODULE ModelFolder -----------------------------
(***************************************************************************)
(* src/download.rs and the commands of src/main.rs that use it: a model    *)
(* folder on disk, "models pull" and "serve" working on it, each of which  *)
(* may be killed between any two file operations, and the weights that a   *)
(* server loads from it.                                                   *)
(*                                                                         *)
(* A file is the sequence of its blocks, so that its size is its length; a *)
(* manifest maps a file name to the content whose size and sha256 it lists.*)
(* A checksum is taken to determine the content.                           *)
(*                                                                         *)
(* A definition marked "Variant" is used by no action: it is a mistake the *)
(* definition below it could be, kept to show which property notices.      *)
(***************************************************************************)
EXTENDS Integers, FiniteSets, Sequences

CONSTANTS
    Servers,      \* processes that run "serve"
    Pullers,      \* processes that run "models pull"
    Order,        \* the remote manifest's file names, in the order of its BTreeMap
    Core,         \* LEGACY or MLX_LEGACY: the files the provider needs
    Weights,      \* the file that a worker's factory opens
    Remote,       \* what the download URL serves
    Old,          \* what an earlier export left
    MaxFaults,    \* bound: kills, transfers that fail, refusals
    Absent, None, Garbled

Procs == Servers \cup Pullers
Files == {Order[i] : i \in DOMAIN Order}
Blocks == {"old", "new", "junk"}

ASSUME FolderAssumption ==
    /\ Servers \cap Pullers = {}
    /\ Order \in Seq(Files) /\ Core \subseteq Files /\ Weights \in Core
    /\ Remote \in [Files -> Seq(Blocks)] /\ Old \in [Files -> Seq(Blocks)]
    /\ MaxFaults \in Nat
    /\ Absent \notin Seq(Blocks)

VARIABLES
    dest,      \* the files of the folder
    part,      \* their .part files
    manifest,  \* manifest.json: None, Garbled (it does not parse) or what it lists
    pc,
    at,        \* the file a pull is at
    got,       \* the blocks it has streamed and hashed
    printed,   \* a server's LoadedModel: the files its fingerprint was taken of
    session,   \* the weights that a worker of the server has open
    faults

folder == <<dest, part, manifest>>
pull   == <<at, got>>
loaded == <<printed, session>>
vars   == <<folder, pc, pull, loaded, faults>>

-----------------------------------------------------------------------------
\* Manifests an export or a download may have left: the old export's, the
\* remote's, one without a core file, one that does not parse.
Before == {None, Garbled, Old, Remote} \cup {[f \in Files \ {c} |-> Old[f]] : c \in Core}

Init ==
    /\ dest \in [Files -> {Absent}]
             \cup {[f \in Files |-> IF f \in gone THEN Absent ELSE Old[f]] : gone \in SUBSET Files}
    /\ part = [f \in Files |-> Absent]
    /\ manifest \in Before
    /\ pc = [p \in Procs |-> "idle"]
    /\ at = [p \in Procs |-> 1]
    /\ got = [p \in Procs |-> <<>>]
    /\ printed = [s \in Servers |-> None]
    /\ session = [s \in Servers |-> None]
    /\ faults = 0

-----------------------------------------------------------------------------
(* check.                                                                  *)

\* fault: the file has the listed size and, when hashed, the listed content.
Fine(f, entry, full) ==
    /\ dest[f] # Absent
    /\ Len(dest[f]) = Len(entry)
    /\ full => dest[f] = entry

\* check: without a manifest the core files must be there; with one, it must
\* list them, and every file it lists must be fine.
Usable(full) ==
    IF manifest = None THEN \A f \in Core : dest[f] # Absent
    ELSE /\ manifest # Garbled
         /\ Core \subseteq DOMAIN manifest
         /\ \A f \in DOMAIN manifest : Fine(f, manifest[f], full)

Full(p) == p \in Pullers      \* "models" hashes, "serve" compares sizes

-----------------------------------------------------------------------------
(* The commands.                                                           *)

Goto(p, label) == pc' = [pc EXCEPT ![p] = label]
Pulling(p)     == pc[p] \in {"fetch", "fetchAndAsk", "ask", "pull", "get", "write", "commit", "place", "after"}
Fault          == faults < MaxFaults /\ faults' = faults + 1

\* What decide makes of the --download-models flag and a terminal; every
\* model here has a download URL.
Decide(flag, tty) == IF flag THEN "fetch" ELSE IF tty THEN "fetchAndAsk" ELSE "idle"

\* Two processes do not pull into one folder at the same time.
Alone == \A q \in Procs : ~Pulling(q)

\* ensure_models, or the loop of "models pull": a usable folder is left as it
\* is.  A server checks it, and loads or is refused, also while a pull is at work.
Start(p) ==
    /\ pc[p] = "idle"
    /\ \/ /\ Usable(Full(p))
          /\ Goto(p, IF p \in Servers THEN "load" ELSE "idle")
          /\ UNCHANGED faults
       \/ /\ ~Usable(Full(p)) /\ p \in Pullers
          /\ Alone /\ Goto(p, "fetch")
          /\ UNCHANGED faults
       \/ /\ ~Usable(Full(p)) /\ p \in Servers
          /\ \E flag, tty \in BOOLEAN :
                /\ Goto(p, Decide(flag, tty))
                /\ IF flag \/ tty THEN Alone /\ UNCHANGED faults ELSE Fault
    /\ UNCHANGED <<folder, pull, loaded>>

\* Remote::fetch: the manifest is read and parsed.
Fetch(p) ==
    /\ pc[p] \in {"fetch", "fetchAndAsk"}
    /\ Goto(p, IF pc[p] = "fetch" THEN "pull" ELSE "ask")
    /\ at' = [at EXCEPT ![p] = 1]
    /\ UNCHANGED <<folder, got, loaded, faults>>

Prompt(p) ==
    /\ pc[p] = "ask"
    /\ \/ Goto(p, "pull") /\ UNCHANGED faults
       \/ Goto(p, "idle") /\ Fault
    /\ UNCHANGED <<folder, pull, loaded>>

\* Variant: a file of the right size is kept.
KeptBySize(f) == Fine(f, Remote[f], FALSE)

\* pull: a file that is there with the right content is kept.
Kept(f) == Fine(f, Remote[f], TRUE)

NextFile(p) ==
    /\ pc[p] = "pull"
    /\ IF at[p] > Len(Order) THEN Goto(p, "commit") /\ UNCHANGED at
       ELSE IF Kept(Order[at[p]]) THEN at' = [at EXCEPT ![p] = @ + 1] /\ UNCHANGED pc
       ELSE Goto(p, "get") /\ UNCHANGED at
    /\ UNCHANGED <<folder, got, loaded, faults>>

\* download: the response is there, the .part file is created or truncated.
Get(p) ==
    /\ pc[p] = "get"
    /\ part' = [part EXCEPT ![Order[at[p]]] = <<>>]
    /\ got' = [got EXCEPT ![p] = <<>>]
    /\ Goto(p, "write")
    /\ UNCHANGED <<dest, manifest, at, loaded, faults>>

\* A chunk arrives: what the manifest promises, or something else.
Write(p) ==
    LET f == Order[at[p]]
        n == Len(got[p]) + 1
    IN  /\ pc[p] = "write" /\ n <= Len(Remote[f])
        /\ \E b \in {Remote[f][n], "junk"} :
              /\ got' = [got EXCEPT ![p] = Append(@, b)]
              /\ part' = [part EXCEPT ![f] = Append(@, b)]
              /\ IF b = "junk" THEN Fault ELSE UNCHANGED faults
        /\ UNCHANGED <<dest, manifest, pc, at, loaded>>

\* Variant: only the size is compared.
RightSize(f, stream) == Len(stream) = Len(Remote[f])

Right(f, stream) == stream = Remote[f]

\* The stream has ended: synced, compared and moved into place.
Rename(p) ==
    LET f == Order[at[p]] IN
    /\ pc[p] = "write" /\ Right(f, got[p])
    /\ dest' = [dest EXCEPT ![f] = part[f]]
    /\ part' = [part EXCEPT ![f] = Absent]
    /\ at' = [at EXCEPT ![p] = @ + 1]
    /\ Goto(p, "pull")
    /\ UNCHANGED <<manifest, got, loaded, faults>>

\* Variant: what was there before is removed with the .part file.
RemoveBoth(f) == part' = [part EXCEPT ![f] = Absent] /\ dest' = [dest EXCEPT ![f] = Absent]

RemovePart(f) == part' = [part EXCEPT ![f] = Absent] /\ UNCHANGED dest

\* The stream is not what the manifest lists: the .part file is removed.
Reject(p) ==
    LET f == Order[at[p]] IN
    /\ pc[p] = "write" /\ Len(got[p]) = Len(Remote[f]) /\ ~Right(f, got[p])
    /\ RemovePart(f)
    /\ Goto(p, "idle")
    /\ UNCHANGED <<manifest, pull, loaded, faults>>

\* A request fails, stalls, is too long or too short.
NetworkError(p) ==
    /\ pc[p] \in {"fetch", "fetchAndAsk", "get", "write"}
    /\ IF pc[p] \in {"get", "write"} THEN RemovePart(Order[at[p]]) ELSE UNCHANGED <<part, dest>>
    /\ Goto(p, "idle")
    /\ Fault
    /\ UNCHANGED <<manifest, pull, loaded>>

\* The remote manifest is written to manifest.json.part, which nothing reads.
WriteManifest(p) ==
    /\ pc[p] = "commit"
    /\ Goto(p, "place")
    /\ UNCHANGED <<folder, pull, loaded, faults>>

\* Variant: a manifest that is there stays.
KeepManifest(p) ==
    /\ pc[p] = "place"
    /\ manifest' = IF manifest = None THEN Remote ELSE manifest
    /\ Goto(p, "after")
    /\ UNCHANGED <<dest, part, pull, loaded, faults>>

\* ... and renamed.
Commit(p) ==
    /\ pc[p] = "place"
    /\ manifest' = Remote
    /\ Goto(p, "after")
    /\ UNCHANGED <<dest, part, pull, loaded, faults>>

\* The check after a pull; "serve" goes on to load.
After(p) ==
    /\ pc[p] = "after"
    /\ Goto(p, IF p \in Servers /\ Usable(FALSE) THEN "load" ELSE "idle")
    /\ UNCHANGED <<folder, pull, loaded, faults>>

-----------------------------------------------------------------------------
(* The server.                                                             *)

\* LoadedModel::load: the fingerprint is taken of the files as they are.
Load(s) ==
    /\ pc[s] = "load"
    /\ printed' = [printed EXCEPT ![s] = [f \in Core |-> dest[f]]]
    /\ Goto(s, "open")
    /\ UNCHANGED <<folder, pull, session, faults>>

\* A worker's factory opens the weights, at start-up and again after a panic.
Open(s) ==
    /\ pc[s] = "open" \/ pc[s] = "serving"
    /\ session' = [session EXCEPT ![s] = dest[Weights]]
    /\ Goto(s, "serving")
    /\ UNCHANGED <<folder, pull, printed, faults>>

\* The process is killed, whatever it is at.
Kill(p) ==
    /\ pc[p] # "idle"
    /\ Goto(p, "idle")
    /\ printed' = [s \in Servers |-> IF s = p THEN None ELSE printed[s]]
    /\ session' = [s \in Servers |-> IF s = p THEN None ELSE session[s]]
    /\ Fault
    /\ UNCHANGED <<folder, pull>>

-----------------------------------------------------------------------------
Step(p) ==
    \/ Fetch(p) \/ Prompt(p) \/ NextFile(p) \/ Get(p) \/ Write(p) \/ Rename(p) \/ Reject(p)
    \/ WriteManifest(p) \/ Commit(p) \/ After(p)

Next ==
    \/ \E p \in Procs : Start(p) \/ Step(p) \/ NetworkError(p) \/ Kill(p)
    \/ \E s \in Servers : Load(s) \/ Open(s)

Spec == Init /\ [][Next]_vars

\* A process that is not killed goes on, and the supervisor of a server starts
\* it again when it ends (strongly: a pull that comes first does not keep it
\* from starting for ever).  Nothing makes anybody run "models pull".
Fairness ==
    /\ \A p \in Procs : WF_vars(Step(p))
    /\ \A s \in Servers : SF_vars(Start(s)) /\ WF_vars(Load(s)) /\ WF_vars(pc[s] = "open" /\ Open(s))

FairSpec == Spec /\ Fairness

-----------------------------------------------------------------------------
(* Correctness.                                                            *)

Content == {Absent} \cup Seq(Blocks)

TypeOK ==
    /\ dest \in [Files -> Content] /\ part \in [Files -> Content]
    /\ manifest \in Before
    /\ pc \in [Procs -> {"idle", "fetch", "fetchAndAsk", "ask", "pull", "get", "write", "commit",
                         "place", "after", "load", "open", "serving"}]
    /\ at \in [Procs -> 1 .. Len(Order) + 1]
    /\ got \in [Procs -> Seq(Blocks)]
    /\ printed \in [Servers -> {None} \cup [Core -> Content]]
    /\ session \in [Servers -> {None} \cup Content]
    /\ faults \in 0 .. MaxFaults

\* Every variable has its type and, whatever is killed or fails, a file under its
\* own name is one that an export left or the remote one, never a torn or
\* rejected download.
WholeFiles == TypeOK /\ \A f \in Files : dest[f] \in {Absent, Old[f], Remote[f]}

\* "then writes manifest.json last": when a pull has put the manifest in place,
\* every file is already what it lists, hashed, whatever earlier pulls left.
ManifestLast ==
    [][\A p \in Procs : pc[p] = "place" /\ pc'[p] = "after" =>
           manifest' = Remote /\ \A f \in Files : dest'[f] = Remote[f]]_vars

\* No failure, kill or later pull takes from the folder a file that it has.
FilesStay ==
    [][\A f \in Files : /\ dest[f] # Absent => dest'[f] # Absent
                        /\ dest[f] = Remote[f] => dest'[f] = Remote[f]]_vars

\* What a killed pull leaves never wedges the folder: however it was and
\* wherever pulls were interrupted, a server that is started again serves.
ServesInTheEnd == <>[](\A s \in Servers : pc[s] = "serving")

\* The fingerprint (of the cache keys and the model name in answers) is "over
\* the weights actually served".
FingerprintIsServed ==
    \A s \in Servers : pc[s] = "serving" => session[s] = printed[s][Weights]
=============================================================================
