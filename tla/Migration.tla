----------------------------- MODULE Migration -----------------------------
(***************************************************************************)
(* migrate-storage: the records of the file stores are copied to Postgres, *)
(* store after store, each by a look at the target and a write. A run of   *)
(* the tool may be cut off or time out anywhere, and is then run again.    *)
(***************************************************************************)
EXTENDS Integers, Sequences, FiniteSets

CONSTANTS
    Records,       \* records of the file stores
    Store,         \* Store[r]: the store r is in, one of Stores
    Discovered,    \* records of tenants that have an agent directory
    MaxMigrations  \* bound: runs of the tool

Stores == <<"agents", "runs", "memory", "kv", "events">>

ASSUME MigrationConstants ==
    /\ Store \in [Records -> {Stores[i] : i \in DOMAIN Stores}]
    /\ Discovered \subseteq Records /\ MaxMigrations \in Nat

VARIABLES
    target,      \* target[r]: how often Postgres holds r
    phase,       \* index in Stores of the store being copied; 0 when not running
    todo,        \* records of the store still to be looked at
    current,     \* set of at most one record: looked at, absent, to be written
    dryRun,
    errors,      \* whether MigrationResult.Errors is not empty
    migrations,  \* runs of the tool so far
    unseen,      \* history: records this run passed over without an error
    migrated     \* history: records covered by a run that ended with no error

migrationVars ==
    <<target, phase, todo, current, dryRun, errors, migrations, unseen, migrated>>

\* What a phase lists. Agents and runs are listed by discovered tenant, memory and KV
\* by directory; the events of a run are read from the file event log's memory, which
\* is empty in a process that has just started.
Listed(i) ==
    {r \in Records : /\ Store[r] = Stores[i]
                     /\ Store[r] \in {"agents", "runs"} => r \in Discovered
                     /\ Store[r] # "events"}

\* The service may have written some records to Postgres already.
MigrationInit ==
    /\ target \in [Records -> 0..1]
    /\ phase = 0 /\ todo = {} /\ current = {} /\ dryRun = FALSE /\ errors = FALSE
    /\ migrations = 0 /\ unseen = {} /\ migrated = {}

-----------------------------------------------------------------------------
StartMigration(dry) ==
    /\ phase = 0 /\ migrations < MaxMigrations
    /\ migrations' = migrations + 1
    /\ phase' = 1 /\ todo' = Listed(1) /\ dryRun' = dry /\ errors' = FALSE
    /\ unseen' = {}
    /\ UNCHANGED <<target, current, migrated>>

\* The walk over the memory and KV directories passes over a tenant's directory that
\* it cannot read, and reports nothing.
Unreadable(i) == IF Stores[i] \in {"memory", "kv"} THEN SUBSET Listed(i) ELSE {{}}

WriteUnseen(r) == IF dryRun THEN {} ELSE {r}

\* The record that is left to write after the look at the target: none when the target
\* has it, or in a dry run.
ToWrite(r) == IF target[r] > 0 \/ dryRun THEN {} ELSE {r}

CheckRecord(r) ==
    /\ phase > 0 /\ current = {} /\ r \in todo
    /\ todo' = todo \ {r}
    /\ \/ current' = ToWrite(r) /\ UNCHANGED errors
       \/ current' = {} /\ errors' = TRUE
    /\ UNCHANGED <<target, phase, dryRun, migrations, unseen, migrated>>

\* Create, Append and Set are one statement or one transaction; only Append adds to what
\* is there. When the answer is an error the write may have happened all the same.
WriteRecord(r) ==
    /\ r \in current
    /\ current' = {}
    /\ \/ /\ target' = [target EXCEPT ![r] = IF Store[r] = "memory" THEN @ + 1 ELSE 1]
          /\ errors' \in {errors, TRUE}
       \/ UNCHANGED target /\ errors' = TRUE
    /\ UNCHANGED <<phase, todo, dryRun, migrations, unseen, migrated>>

\* The next store; or a store that could not be listed, or the context's deadline,
\* which ends each loop with an error.
NextPhase ==
    /\ phase > 0 /\ current = {}
    /\ \/ todo = {} /\ UNCHANGED errors
       \/ errors' = TRUE
    /\ IF phase < Len(Stores)
       THEN /\ phase' = phase + 1
            /\ \E u \in Unreadable(phase + 1) :
                  todo' = Listed(phase + 1) \ u /\ unseen' = unseen \cup u
            /\ UNCHANGED migrated
       ELSE /\ phase' = 0 /\ todo' = {} /\ UNCHANGED unseen
            /\ migrated' = IF errors' \/ dryRun THEN migrated
                           ELSE migrated \cup ((UNION {Listed(i) : i \in DOMAIN Stores}) \ unseen)
    /\ UNCHANGED <<target, current, dryRun, migrations>>

\* The tool is killed.
MigrationCrash ==
    /\ phase > 0
    /\ phase' = 0 /\ todo' = {} /\ current' = {}
    /\ UNCHANGED <<target, dryRun, errors, migrations, unseen, migrated>>

-----------------------------------------------------------------------------
MigrationNext ==
    \/ \E dry \in BOOLEAN : StartMigration(dry)
    \/ \E r \in Records : CheckRecord(r) \/ WriteRecord(r)
    \/ NextPhase \/ MigrationCrash

MigrationSpec == MigrationInit /\ [][MigrationNext]_migrationVars

-----------------------------------------------------------------------------
(* Properties *)

\* Type invariant.
MigrationTypeOK ==
    /\ target \in [Records -> Nat] /\ phase \in 0..Len(Stores)
    /\ todo \subseteq Records /\ current \subseteq Records /\ Cardinality(current) <= 1
    /\ {dryRun, errors} \subseteq BOOLEAN /\ migrations \in 0..MaxMigrations
    /\ unseen \subseteq Records /\ migrated \subseteq Records

\* The migration can be repeated: however its runs were cut off, and whatever writes
\* failed or only seemed to, no record is in Postgres twice (an agent's conversation is
\* appended, not replaced), and once a run that writes has ended without errors, every
\* record it listed, in a directory it could read, is there.
MigrationIsExact ==
    /\ \A r \in Records : target[r] <= 1
    /\ \A r \in migrated : target[r] = 1
=============================================================================
