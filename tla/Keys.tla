-------------------------------- MODULE Keys --------------------------------
(***************************************************************************)
(* src/auth.rs with the validation of src/config.rs: the API keys, a rate  *)
(* limiter for each, and the reload that SIGHUP asks for while requests    *)
(* are being served.                                                       *)
(*                                                                         *)
(* A configuration is a record: limits, the models' max_pending, and the   *)
(* keys with their rate and burst (a key that is not in DOMAIN c.keys does *)
(* not exist).  The server runs with the limits of Boot; a reload reads a  *)
(* whole configuration and takes only its keys.                            *)
(*                                                                         *)
(* A definition marked "Variant" is used by no action: it is a mistake the *)
(* definition below it could be, kept to show which property notices.      *)
(***************************************************************************)
EXTENDS Integers

CONSTANTS
    Boot,        \* the configuration the server was started with
    Files,       \* the configurations the file may hold at a reload
    MaxReloads   \* bound: reloads

\* Config::validate and Knobs::validate, of what the models read.
Valid(c) ==
    /\ DOMAIN c.pending # {} /\ c.maxBatch >= 1 /\ c.maxQuestions >= 1
    /\ \A m \in DOMAIN c.pending : c.maxBatch * c.maxQuestions <= c.pending[m]
    /\ \A k \in DOMAIN c.keys : c.keys[k].rps >= 1 /\ c.keys[k].burst >= c.maxBatch
    /\ c.redisTimeout >= 1

\* rps, burst and max_batch_states are unsigned.
ASSUME KeysAssumption ==
    /\ Valid(Boot) /\ MaxReloads \in Nat
    /\ \A c \in Files \cup {Boot} :
        /\ c.maxBatch \in Nat
        /\ \A k \in DOMAIN c.keys : c.keys[k].rps \in Nat /\ c.keys[k].burst \in Nat

VARIABLES
    keys,     \* the key map: the KeyCfg of each key's record
    cells,    \* what the record's limiter has left
    reloads,
    \* history: the ticks since a key got its configuration, and the cells
    \* granted to it since
    age, granted

keyVars == <<keys, cells, reloads, age, granted>>

\* Auth::new
KeysInit ==
    /\ keys = Boot.keys
    /\ cells = [k \in DOMAIN Boot.keys |-> Boot.keys[k].burst]
    /\ reloads = 0
    /\ age = [k \in DOMAIN keys |-> 0]
    /\ granted = [k \in DOMAIN keys |-> 0]

\* Variant: every record is new.
KeptNever(c, k) == FALSE

\* A key whose configuration is as before keeps its record.
Kept(c, k) == k \in DOMAIN keys /\ keys[k] = c.keys[k]

\* SIGHUP: a file that does not validate changes nothing.
Reload ==
    /\ reloads < MaxReloads
    /\ reloads' = reloads + 1
    /\ \E c \in {f \in Files : Valid(f)} :
        LET same(k) == k \in DOMAIN keys /\ keys[k] = c.keys[k] IN
        /\ keys' = c.keys
        /\ cells' = [k \in DOMAIN c.keys |-> IF Kept(c, k) THEN cells[k] ELSE c.keys[k].burst]
        /\ age' = [k \in DOMAIN c.keys |-> IF same(k) THEN age[k] ELSE 0]
        /\ granted' = [k \in DOMAIN c.keys |-> IF same(k) THEN granted[k] ELSE 0]

\* A tick of the clock: rps cells come back, up to the burst.
Refill ==
    /\ cells' = [k \in DOMAIN keys |->
                    IF cells[k] + keys[k].rps > keys[k].burst THEN keys[k].burst
                    ELSE cells[k] + keys[k].rps]
    /\ age' = [k \in DOMAIN keys |-> age[k] + 1]
    /\ UNCHANGED <<keys, reloads, granted>>

\* KeyRecord::check takes n cells or none; more than the burst is never had.
Affords(k, n) == n <= cells[k]

Charge(k, n) ==
    /\ Affords(k, n)
    /\ cells' = [cells EXCEPT ![k] = @ - n]
    /\ granted' = [granted EXCEPT ![k] = @ + n]
    /\ UNCHANGED <<keys, reloads, age>>

-----------------------------------------------------------------------------
\* However often the file is reloaded, a key whose configuration stays is
\* granted no more than its burst and what its rate has added since.
BudgetKept ==
    \A k \in DOMAIN keys : granted[k] <= keys[k].burst + keys[k].rps * age[k]

\* "n > burst; startup validation prevents this" (KeyRecord::check): a full batch
\* that the server accepts is within the burst of every key it knows.
BurstCoversBatch == \A k \in DOMAIN keys : keys[k].burst >= Boot.maxBatch
=============================================================================
