---------------------------- MODULE WorkspaceLoad ----------------------------
(***************************************************************************)
(* How the database of one workspace comes to be: Workspaces.get, which    *)
(* holds no lock, migrates it, seeds the demo memories, and lets Toolbox   *)
(* create the built-in capabilities, each in a transaction of its own.     *)
(* Several first requests may do so at once, and a load may die or the     *)
(* process stop between any two transactions.                              *)
(*                                                                         *)
(* What is read from files (documents) and what is kept in memory (the     *)
(* dense indexes) is in DeclaredDocuments and MemoryRecall.                *)
(***************************************************************************)
EXTENDS Naturals, Sequences

CONSTANTS
    Loaders,        \* request threads
    Seeds,          \* the memories of the seed file; each has an id of its own
    Builtins        \* INITIAL_CAPABILITIES: the stable ids, in order

ASSUME BuiltinsAssumption ==
    /\ Builtins \in Seq(STRING) /\ Builtins # <<>>
    /\ \A m, n \in DOMAIN Builtins : Builtins[m] = Builtins[n] => m = n
ASSUME SeedsAssumption == Seeds # {}

VARIABLES
    dialect,        \* of the database
    tables,         \* whose tables exist: "base", "architecture"
    recorded,       \* app_migrations
    memories,       \* the rows of memories
    versions,       \* stable id -> how many versions capabilities has
    serving,        \* the process has the workspace in items
    at,             \* what each load does next
    created,        \* how many built-ins each load has created
    noted,          \* what each load has read: of app_migrations, or a version
    overlapped,     \* history: a load began while another was under way
    interrupted     \* history: a load ended while it created the built-ins

loadVars == <<dialect, tables, recorded, memories, versions, serving, at, created, noted,
              overlapped, interrupted>>

Stable == {Builtins[n] : n \in DOMAIN Builtins}
\* The tables of each version: BASE_APP_MIGRATION_VERSION and what follows it.
TablesOf == [v \in {4, 5} |-> IF v = 4 THEN "base" ELSE "architecture"]

LoadTypeOK ==
    /\ dialect \in {"sqlite", "postgres"}
    /\ tables \subseteq {"base", "architecture"}
    /\ recorded \subseteq {4, 5}
    /\ memories \subseteq Seeds
    /\ versions \in [Stable -> Nat]
    /\ serving \in BOOLEAN /\ overlapped \in BOOLEAN /\ interrupted \in BOOLEAN
    /\ at \in [Loaders -> {"idle", "tables", "migrate", "upgrade", "count", "seed", "check",
                           "create", "insert", "publish"}]
    /\ created \in [Loaders -> 0..Len(Builtins)]
    /\ noted \in [Loaders -> Nat]

\* A new database, or one that an earlier release has left at version 4.
LoadInit ==
    /\ dialect \in {"sqlite", "postgres"}
    /\ \/ tables = {} /\ recorded = {} /\ memories = {} /\ versions = [b \in Stable |-> 0]
       \/ tables = {"base"} /\ recorded = {4} /\ memories = Seeds
          /\ versions = [b \in Stable |-> 1]
    /\ serving = FALSE
    /\ at = [c \in Loaders |-> "idle"]
    /\ created = [c \in Loaders |-> 0]
    /\ noted = [c \in Loaders |-> 0]
    /\ overlapped = FALSE /\ interrupted = FALSE

\* Nothing is loaded in this behaviour.
LoadIdle == LoadInit /\ dialect = "sqlite" /\ tables = {}

-----------------------------------------------------------------------------

Proceeds(c, step) == at' = [at EXCEPT ![c] = step]
Reads(c, value) == noted' = [noted EXCEPT ![c] = value]

\* A request finds the workspace missing from items, and begins to load it.
Get(c) ==
    /\ ~serving /\ at[c] = "idle"
    /\ Proceeds(c, IF dialect = "sqlite" THEN "tables" ELSE "migrate")
    /\ overlapped' = (overlapped \/ \E d \in Loaders : at[d] # "idle")
    /\ UNCHANGED <<dialect, tables, recorded, memories, versions, serving, created, noted,
                   interrupted>>

\* SQLite: executescript commits the transaction that migrate has begun, and
\* each CREATE TABLE IF NOT EXISTS takes effect by itself.
CreateTables(c) ==
    /\ at[c] = "tables"
    /\ tables' = tables \union {TablesOf[4]}
    /\ Proceeds(c, "upgrade")
    /\ UNCHANGED <<dialect, recorded, memories, versions, serving, created, noted, overlapped,
                   interrupted>>

\* SQLite: the rest is one transaction, which holds the lock from its first
\* INSERT OR IGNORE on.
Upgrade(c) ==
    /\ at[c] = "upgrade" /\ dialect = "sqlite"
    /\ recorded' = {4, 5}
    /\ tables' = tables \union {TablesOf[v] : v \in {5} \ recorded}
    /\ Proceeds(c, "count")
    /\ UNCHANGED <<dialect, memories, versions, serving, created, noted, overlapped,
                   interrupted>>

\* Postgres: all of it is one transaction, which reads what is committed ...
ReadMigrations(c) ==
    /\ at[c] = "migrate"
    /\ Reads(c, IF 5 \in recorded THEN 5 ELSE 0)
    /\ Proceeds(c, "upgrade")
    /\ UNCHANGED <<dialect, tables, recorded, memories, versions, serving, created, overlapped,
                   interrupted>>

\* ... and cannot create or record what another one has committed since.
CommitMigrations(c) ==
    /\ at[c] = "upgrade" /\ dialect = "postgres"
    /\ noted[c] = 5 \/ 5 \notin recorded
    /\ recorded' = {4, 5}
    /\ tables' = tables \union {TablesOf[v] : v \in {4, 5}}
    /\ Reads(c, 0)
    /\ Proceeds(c, "count")
    /\ UNCHANGED <<dialect, memories, versions, serving, created, overlapped, interrupted>>

CountMemories(c) ==
    /\ at[c] = "count"
    /\ Proceeds(c, IF memories = {} THEN "seed" ELSE "check")
    /\ UNCHANGED <<dialect, tables, recorded, memories, versions, serving, created, noted,
                   overlapped, interrupted>>

\* Mutation: every memory is inserted in a transaction of its own.
SeedInTurn(c) ==
    /\ at[c] = "seed"
    /\ \E m \in Seeds \ memories :
           /\ memories' = memories \union {m}
           /\ Proceeds(c, IF memories' = Seeds THEN "check" ELSE "seed")
    /\ UNCHANGED <<dialect, tables, recorded, versions, serving, created, noted, overlapped,
                   interrupted>>

\* One transaction; the ids of the file are taken if another load was faster.
Seed(c) ==
    /\ at[c] = "seed" /\ memories \intersect Seeds = {}
    /\ memories' = memories \union Seeds
    /\ Proceeds(c, "check")
    /\ UNCHANGED <<dialect, tables, recorded, versions, serving, created, noted, overlapped,
                   interrupted>>

\* Mutation: the built-ins are created whatever is there.
CheckNothing(c) ==
    /\ at[c] = "check"
    /\ Proceeds(c, "create")
    /\ UNCHANGED <<dialect, tables, recorded, memories, versions, serving, created, noted,
                   overlapped, interrupted>>

\* Toolbox.seed: any capability at all is enough.
CheckCapabilities(c) ==
    /\ at[c] = "check"
    /\ Proceeds(c, IF \E b \in Stable : versions[b] > 0 THEN "publish" ELSE "create")
    /\ UNCHANGED <<dialect, tables, recorded, memories, versions, serving, created, noted,
                   overlapped, interrupted>>

-----------------------------------------------------------------------------
(* create_capability of each built-in *)

NextBuiltin(c) == Builtins[created[c] + 1]

Creates(c) ==
    /\ versions' = [versions EXCEPT ![NextBuiltin(c)] = @ + 1]
    /\ created' = [created EXCEPT ![c] = @ + 1]
    /\ Proceeds(c, IF created[c] + 1 = Len(Builtins) THEN "publish" ELSE "create")
    /\ UNCHANGED <<dialect, tables, recorded, memories, serving, overlapped, interrupted>>

\* SQLite: the transaction excludes all others.
CreateBuiltin(c) ==
    /\ at[c] = "create" /\ dialect = "sqlite"
    /\ Creates(c)
    /\ UNCHANGED noted

\* Postgres: it reads the last version ...
ReadVersion(c) ==
    /\ at[c] = "create" /\ dialect = "postgres"
    /\ Reads(c, versions[NextBuiltin(c)])
    /\ Proceeds(c, "insert")
    /\ UNCHANGED <<dialect, tables, recorded, memories, versions, serving, created, overlapped,
                   interrupted>>

\* ... and inserts the next one, unless another load has done so.
InsertVersion(c) ==
    /\ at[c] = "insert"
    /\ versions[NextBuiltin(c)] = noted[c]
    /\ Creates(c)
    /\ Reads(c, 0)

\* The workspace is ready; the last load to end replaces what others made.
Publish(c) ==
    /\ at[c] = "publish"
    /\ serving' = TRUE
    /\ Proceeds(c, "idle")
    /\ created' = [created EXCEPT ![c] = 0]
    /\ UNCHANGED <<dialect, tables, recorded, memories, versions, noted, overlapped, interrupted>>

-----------------------------------------------------------------------------
(* Failures *)

Creating(c) == at[c] \in {"create", "insert"}

\* A statement raises, by a conflict or a lock that is not released in time:
\* its transaction is rolled back, and the request is answered with an error.
LoadDies(c) ==
    /\ at[c] # "idle"
    /\ interrupted' = (interrupted \/ Creating(c))
    /\ Proceeds(c, "idle")
    /\ created' = [created EXCEPT ![c] = 0]
    /\ Reads(c, 0)
    /\ UNCHANGED <<dialect, tables, recorded, memories, versions, serving, overlapped>>

\* The process stops, and another one is started on the same database.
ProcessStops ==
    /\ serving \/ \E c \in Loaders : at[c] # "idle"
    /\ serving' = FALSE
    /\ interrupted' = (interrupted \/ \E c \in Loaders : Creating(c))
    /\ at' = [c \in Loaders |-> "idle"]
    /\ created' = [c \in Loaders |-> 0]
    /\ noted' = [c \in Loaders |-> 0]
    /\ UNCHANGED <<dialect, tables, recorded, memories, versions, overlapped>>

LoadNext ==
    \/ \E c \in Loaders :
           \/ Get(c) \/ CreateTables(c) \/ Upgrade(c) \/ ReadMigrations(c) \/ CommitMigrations(c)
           \/ CountMemories(c) \/ Seed(c) \/ CheckCapabilities(c)
           \/ CreateBuiltin(c) \/ ReadVersion(c) \/ InsertVersion(c)
           \/ Publish(c) \/ LoadDies(c)
    \/ ProcessStops

-----------------------------------------------------------------------------
(* Properties *)

\* However many loads overlap, die or are cut off: a recorded version has its
\* tables, the demo memories are all there or none is, and a workspace that is
\* served has been migrated and seeded (db.py: migrate, seed; app.py:
\* Workspaces.get).
SeedsWhole ==
    /\ \A v \in recorded : TablesOf[v] \in tables
    /\ memories \in {{}, Seeds}
    /\ serving => recorded = {4, 5} /\ memories = Seeds

\* Loads that never overlap create no built-in twice, restarts included, and
\* in the order of INITIAL_CAPABILITIES; if none of them ended half-way, a
\* workspace that is served has all of them.  What one that did leaves out is
\* never made up for: the next load finds a capability and skips the rest
\* (toolbox.py: seed, create_capability).
LoneLoadSeedsOnce ==
    ~overlapped =>
        /\ \A b \in Stable : versions[b] <= 1
        /\ \A m, n \in DOMAIN Builtins : m < n => versions[Builtins[n]] <= versions[Builtins[m]]
        /\ serving /\ ~interrupted => \A b \in Stable : versions[b] = 1
=============================================================================
