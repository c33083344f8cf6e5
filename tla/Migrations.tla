----------------------------- MODULE Migrations -----------------------------
(***************************************************************************)
(* Schema migrations: migration.Run, called by every replica that starts   *)
(* with migration.auto_up and by the cmd/migrate job, on one database      *)
(* that a replica of the release before this one may still write to.       *)
(*                                                                         *)
(* The migrations 000004 and 000005 give the two usage tables a column     *)
(* application_id and then require it.  The shape of a table is the number *)
(* of the last migration that changed it, and of its rows only matters     *)
(* whether some have an application_id and some do not.                    *)
(*                                                                         *)
(* golang-migrate is a library: it takes a lock of the database, refuses a *)
(* version that is marked dirty, and marks the version dirty while it runs *)
(* the file of a migration.                                                *)
(***************************************************************************)
EXTENDS Naturals

CONSTANTS
    Migrators,    \* processes that call migration.Run
    Replicas,     \* those of them that are replicas with auto_up
    Nobody,       \* no process
    CreateSchema, \* migration.create_schema
    MaxFaults     \* bound on crashes, failures and stops of processes

ASSUME MigrationsAssumption ==
    /\ Replicas \subseteq Migrators
    /\ Nobody \notin Migrators
    /\ CreateSchema \in BOOLEAN
    /\ MaxFaults \in Nat

Tables == {"keys", "facts"}  \* usage_ingestion_keys and usage_facts
Last == 5
Places == {"off", "schema", "creating", "lock", "read", "run", "done", "over"}

VARIABLES
    driver,     \* "postgres" (and Kingbase) or "mysql"
    schema,     \* whether the schema exists
    schemaLock, \* who holds the advisory lock of createSchema
    lock,       \* who holds the migration lock
    version,    \* the row of the migration table
    dirty,
    altered,    \* the tables the file that runs has changed
    shape,      \* the shape of each usage table
    rows,       \* whether it has rows with and without an application_id
    old,        \* whether a replica of the earlier release is writing
    at,         \* where each process is in migration.Run
    run,        \* the direction it was asked for, and the migrations it may apply
    found,      \* whether its CREATE SCHEMA found the schema
    faults

locks == <<schemaLock, lock>>
progress == <<version, dirty, altered>>
usage == <<shape, rows>>
world == <<driver, old>>
migrationVars == <<world, schema, locks, progress, usage, at, run, found, faults>>

Fault == faults < MaxFaults /\ faults' = faults + 1
-----------------------------------------------------------------------------
ForgetsKeys(v) == IF v \in {2, 5} THEN Tables ELSE IF v = 4 THEN {"facts"} ELSE {}

\* The usage tables that migration v creates or changes.
TablesOf(v) == IF v \in {2, 4, 5} THEN Tables ELSE {}

ShapeAt(v) == CASE v = 3 -> 2 [] v = 1 -> 0 [] OTHER -> v

\* While process p runs a file, the version is the one it leads to: the number
\* of the file, and the version before it.
Up(p) == run[p].up
File(p) == IF Up(p) THEN version ELSE version + 1
Origin(p) == IF Up(p) THEN version - 1 ELSE version + 1

\* What a table's rows become: 000002 creates the table and its down file drops
\* it, and the down file of 000004 drops the column.
RowsAfter(p, t) ==
    CASE File(p) = 2 -> {}
      [] File(p) = 4 /\ ~Up(p) /\ rows[t] # {} -> {"unscoped"}
      [] OTHER -> rows[t]

\* A statement needs the table in the shape before its migration, and 000005
\* fails while the table has rows without an application_id.
Expected(p, t) == shape[t] = ShapeAt(Origin(p))
Acceptable(p, t) == File(p) = 5 /\ Up(p) => "unscoped" \notin rows[t]

\* Up files change the key table first, down files the fact table.
First(p) == IF Up(p) THEN "keys" ELSE "facts"

\* The tables that are changed next: PostgreSQL runs the file as one
\* transaction, MySQL commits each ALTER TABLE by itself.
Batch(p) ==
    LET left == TablesOf(File(p)) \ altered IN
    IF driver = "mysql" /\ First(p) \in left THEN {First(p)} ELSE left
-----------------------------------------------------------------------------
\* An empty environment, or one of the earlier release with or without rows.
MigrationsInit ==
    /\ driver \in {"postgres", "mysql"}
    /\ schemaLock = Nobody /\ lock = Nobody
    /\ \/ /\ version = 0 /\ old = FALSE
          /\ schema \in {TRUE, driver = "mysql" \/ ~CreateSchema}
          /\ rows = [t \in Tables |-> {}]
       \/ /\ version = 3 /\ old \in BOOLEAN
          /\ schema = TRUE
          /\ \E kinds \in {{}, {"unscoped"}} : rows = [t \in Tables |-> kinds]
    /\ dirty = FALSE /\ altered = {}
    /\ shape = [t \in Tables |-> ShapeAt(version)]
    /\ at = [p \in Migrators |-> "off"]
    /\ run = [p \in Migrators |-> [up |-> TRUE, left |-> 0]]
    /\ found = [p \in Migrators |-> FALSE]
    /\ faults = 0

\* Locks belong to a database session and go with it.
Release(p) ==
    /\ lock' = IF lock = p THEN Nobody ELSE lock
    /\ schemaLock' = IF schemaLock = p THEN Nobody ELSE schemaLock

\* The process records that it is in place l.
Goto(p, l) == at' = [at EXCEPT ![p] = l]

StartAnyway(p) == Goto(p, IF p \in Replicas THEN "done" ELSE "over") /\ Release(p)

\* Run fails and the process with it: a replica is started again, the job is
\* over.
Exit(p) == Goto(p, IF p \in Replicas THEN "off" ELSE "over") /\ Release(p)

FirstPlace == IF CreateSchema /\ driver = "postgres" THEN "schema" ELSE "lock"

\* A replica starts and migrates up before anything else.
LaunchReplica(r) ==
    /\ r \in Replicas /\ at[r] = "off"
    /\ \A p \in Migrators \ Replicas : run[p].up \/ at[p] \in {"off", "over"}
    /\ Goto(r, FirstPlace)
    /\ run' = [run EXCEPT ![r] = [up |-> TRUE, left |-> Last]]
    /\ UNCHANGED <<world, schema, locks, progress, usage, found, faults>>

\* An operator runs the migrate command once: up, down, or a number of steps of
\* either.  With fewer files left than steps it applies those and exits with an
\* error, which nobody reads here.  Nobody migrates down under a running service.
LaunchJob(p) ==
    /\ p \notin Replicas /\ at[p] = "off"
    /\ \E up \in BOOLEAN, left \in 1..Last :
         /\ ~up => ~old /\ \A r \in Replicas : at[r] = "off"
         /\ run' = [run EXCEPT ![p] = [up |-> up, left |-> left]]
    /\ Goto(p, FirstPlace)
    /\ UNCHANGED <<world, schema, locks, progress, usage, found, faults>>

CreateUnlocked(p) ==
    /\ at[p] = "schema"
    /\ found' = [found EXCEPT ![p] = schema]
    /\ Goto(p, "creating")
    /\ UNCHANGED <<world, schema, locks, progress, usage, run, faults>>

\* createSchema: the advisory lock, CREATE SCHEMA IF NOT EXISTS, ...
LockAndCreate(p) ==
    /\ at[p] = "schema" /\ schemaLock = Nobody
    /\ schemaLock' = p
    /\ found' = [found EXCEPT ![p] = schema]
    /\ Goto(p, "creating")
    /\ UNCHANGED <<world, schema, lock, progress, usage, run, faults>>

\* ... and the commit, which fails if another process has created it meanwhile.
CommitSchema(p) ==
    /\ at[p] = "creating"
    /\ IF schema /\ ~found[p] THEN Exit(p) ELSE Goto(p, "lock") /\ Release(p)
    /\ schema' = TRUE
    /\ found' = [found EXCEPT ![p] = FALSE]
    /\ UNCHANGED <<world, progress, usage, run, faults>>

TakeLock(p) ==
    /\ at[p] = "lock" /\ lock = Nobody
    /\ lock' = p
    /\ Goto(p, "read")
    /\ UNCHANGED <<world, schema, schemaLock, progress, usage, run, found, faults>>

\* Another process held the lock for too long, or left the version dirty.
Refuse(p) ==
    /\ \/ at[p] = "lock" /\ lock # Nobody
       \/ at[p] = "read" /\ dirty
    /\ Exit(p)
    /\ UNCHANGED <<world, schema, progress, usage, run, found, faults>>

\* Nothing is left to apply, at once (ErrNoChange) or after some migrations.
Complete(p) == run[p].left = 0 \/ version = IF Up(p) THEN Last ELSE 0

NoChangeIsFailure(p) ==
    /\ at[p] = "read" /\ ~dirty /\ Complete(p)
    /\ IF run[p].left = Last THEN Exit(p)
       ELSE Goto(p, IF p \in Replicas THEN "done" ELSE "over") /\ Release(p)
    /\ run' = [run EXCEPT ![p].left = 0]
    /\ UNCHANGED <<world, schema, progress, usage, found, faults>>

Finish(p) ==
    /\ at[p] = "read" /\ ~dirty /\ Complete(p)
    /\ Goto(p, IF p \in Replicas THEN "done" ELSE "over") /\ Release(p)
    /\ run' = [run EXCEPT ![p].left = 0]
    /\ UNCHANGED <<world, schema, progress, usage, found, faults>>

MarkDirty(p) ==
    /\ at[p] = "read" /\ ~dirty /\ ~Complete(p)
    /\ version' = IF Up(p) THEN version + 1 ELSE version - 1
    /\ dirty' = TRUE /\ altered' = {}
    /\ Goto(p, "run")
    /\ UNCHANGED <<world, schema, locks, usage, run, found, faults>>

Alter(p) ==
    LET batch == Batch(p) IN
    /\ at[p] = "run" /\ batch # {}
    /\ \A t \in batch : Expected(p, t) /\ Acceptable(p, t)
    /\ altered' = altered \cup batch
    /\ shape' = [t \in Tables |-> IF t \in batch THEN ShapeAt(version) ELSE shape[t]]
    /\ rows' = [t \in Tables |-> IF t \in batch THEN RowsAfter(p, t) ELSE rows[t]]
    /\ UNCHANGED <<world, schema, locks, version, dirty, at, run, found, faults>>

\* A statement fails; the version stays dirty.
AlterFails(p) ==
    /\ at[p] = "run"
    /\ \E t \in Batch(p) : ~Expected(p, t) \/ ~Acceptable(p, t)
    /\ Exit(p)
    /\ UNCHANGED <<world, schema, progress, usage, run, found, faults>>

ClearDirty(p) ==
    /\ at[p] = "run" /\ altered = TablesOf(File(p))
    /\ dirty' = FALSE /\ altered' = {}
    /\ run' = [run EXCEPT ![p].left = @ - 1]
    /\ Goto(p, "read")
    /\ UNCHANGED <<world, schema, locks, version, usage, found, faults>>

\* The process dies, wherever it is.
Crash(p) ==
    /\ at[p] \notin {"off", "over"}
    /\ Fault
    /\ Exit(p)
    /\ UNCHANGED <<world, schema, progress, usage, run, found>>
-----------------------------------------------------------------------------
\* The rows change, and nothing else.
Write(new) ==
    /\ rows' = new
    /\ UNCHANGED <<world, schema, locks, progress, shape, at, run, found, faults>>

\* The earlier release records usage in both tables, without an application.
OldWrite ==
    /\ old
    /\ \A t \in Tables : shape[t] \in {2, 4}
    /\ Write([t \in Tables |-> rows[t] \cup {"unscoped"}])

\* This release names the application in each row.
NewWrite(r) ==
    /\ r \in Replicas /\ at[r] = "done"
    /\ \A t \in Tables : shape[t] \in {4, 5}
    /\ Write([t \in Tables |-> rows[t] \cup {"scoped"}])

\* The operator stops the earlier release, ...
StopOld ==
    /\ old
    /\ old' = FALSE
    /\ UNCHANGED <<driver, schema, locks, progress, usage, at, run, found, faults>>

\* ... and fills in the missing applications of a table.
Backfill(t) ==
    /\ shape[t] = 4 /\ "unscoped" \in rows[t]
    /\ Write([rows EXCEPT ![t] = {"scoped"}])

RunStep(p) ==
    \/ LockAndCreate(p) \/ CommitSchema(p) \/ TakeLock(p) \/ Refuse(p)
    \/ Finish(p) \/ MarkDirty(p) \/ Alter(p) \/ AlterFails(p) \/ ClearDirty(p)

Outside == OldWrite \/ StopOld \/ (\E t \in Tables : Backfill(t))

-----------------------------------------------------------------------------
\* The values the variables of the database and of migration.Run have.
MigrationsTypeOK ==
    /\ driver \in {"postgres", "mysql"} /\ schema \in BOOLEAN
    /\ schemaLock \in Migrators \cup {Nobody} /\ lock \in Migrators \cup {Nobody}
    /\ version \in 0..Last /\ dirty \in BOOLEAN /\ altered \in SUBSET Tables
    /\ shape \in [Tables -> {0, 2, 4, 5}]
    /\ rows \in [Tables -> SUBSET {"scoped", "unscoped"}]
    /\ old \in BOOLEAN
    /\ at \in [Migrators -> Places]
    /\ run \in [Migrators -> [up : BOOLEAN, left : Nat]]
    /\ found \in [Migrators -> BOOLEAN]
    /\ faults \in 0..MaxFaults

\* The version that is recorded as clean is the version both tables are in,
\* whoever migrated, crashed or waited in between, and on PostgreSQL no crash
\* leaves the two tables in different versions (migration.go:49-56).
VersionTellsSchema ==
    /\ ~dirty => \A t \in Tables : shape[t] = ShapeAt(version)
    /\ driver = "postgres" => shape["keys"] = shape["facts"]

\* README.md:116, "Concurrent replicas are serialized by the migration lock":
\* what a process is about to create or alter, another one has not done before
\* it or at the same time, neither the schema (migration.go:140-145) nor a step
\* of a migration (migration.go:49-56).
NobodyCollides ==
    \A p \in Migrators :
        /\ at[p] = "creating" => schema = found[p]
        /\ at[p] = "run" => \A t \in Batch(p) : Expected(p, t)

\* A replica that has come past its startup migration never meets a usage row
\* without an application, which ClaimUsage could not scan (repository.go:114),
\* although the earlier release may have been writing such rows until 000005.
ServesScopedRows ==
    \A r \in Replicas : at[r] = "done" =>
        \A t \in Tables : shape[t] = Last /\ "unscoped" \notin rows[t]
=============================================================================
