------------------------------ MODULE Startup -------------------------------
(***************************************************************************)
(* Database::open from the file lock to the triggers, by several processes *)
(* on one file:                                                            *)
(*                                                                         *)
(*  - DatabaseLock::try_acquire (db/lock.rs): the path is normalised, then *)
(*    the lock file of the normalised path is locked;                      *)
(*  - run_migrations (db/migrations): legacy schema renamed, bootstrap     *)
(*    journalled, both journals reconciled with their sources, one         *)
(*    transaction per pending migration;                                   *)
(*  - ensure_triggers_initialized (db/init.rs).                            *)
(*                                                                         *)
(* Every process runs one release of the consumer, with its own migrations *)
(* and trigger version, so that upgrades, downgrades and forks meet on the *)
(* file. Each step is one transaction or one file operation; a process may *)
(* fail, be killed or close its handle after any of them. A migration is   *)
(* its SQL, and its digest is the SQL itself. The consumer's bootstrap     *)
(* hook, the clock and the stamping of rows come between migrations and    *)
(* the end of open; HlcClock has them.                                     *)
(***************************************************************************)
EXTENDS Naturals, Sequences, FiniteSets

CONSTANTS
    Procs,
    Names,     \* migration names
    Contents,  \* SQL of consumer migrations
    Tables,    \* CRDT tables
    Creates,   \* the tables that a migration's SQL creates
    Release,   \* list, sql and trigger version each process ships
    Paths,     \* names in the directory: the database's and symbolic links
    Link,      \* what each name links to, itself when it is no link
    Spelling   \* the name each process opens

\* The end of a chain of links.
Resolved[x \in Paths, hops \in 0..Cardinality(Paths)] ==
    IF hops = 0 \/ Link[x] = x THEN x ELSE Resolved[Link[x], hops - 1]

Target(x) == Resolved[x, Cardinality(Paths)]

ASSUME StartupConstants ==
    /\ Creates \in [Contents -> SUBSET Tables]
    /\ IsFiniteSet(Paths)
    /\ Link \in [Paths -> Paths]
    /\ Spelling \in [Procs -> Paths]
    \* No loop of links, which is an error, and one database file.
    /\ \E f \in Paths : Link[f] = f /\ \A p \in Procs : Target(Spelling[p]) = f
    /\ \A p \in Procs :
        /\ Release[p].list \in Seq(Names)
        /\ Release[p].sql \in [Names -> Contents]
        /\ Release[p].version \in Nat \ {0}

VARIABLES
    exists,    \* the database file has been created
    locks,     \* who holds the lock file of each normalised path
    pc,        \* where each process is in open
    path,      \* the normalised path it computed
    next,      \* position in its list of migrations
    schema,    \* the bookkeeping tables in the file
    digest,    \* the bootstrap's digest in the crate journal
    journal,   \* the consumer journal, as <<name, SQL>>
    tables,    \* CRDT tables in the file
    triggers,  \* trigger version of each table, 0 for none
    version,   \* the stored trigger_version, 0 for none
    refused    \* history: some open was refused over the bookkeeping schema

process == <<pc, path, next>>
file == <<schema, digest, journal, tables, triggers, version>>
vars == <<exists, locks, process, file, refused>>

TypeOK ==
    /\ exists \in BOOLEAN
    /\ locks \in [Paths -> SUBSET Procs]
    /\ pc \in [Procs -> {"closed", "lock", "connect", "legacy", "record", "crate",
                         "reconcile", "migrate", "triggers", "open"}]
    /\ path \in [Procs -> Paths]
    /\ next \in [Procs -> Nat]
    /\ \A p \in Procs : next[p] \in 1..(Len(Release[p].list) + 1)
    /\ schema \in {"none", "legacy", "partial", "current"}
    /\ digest \in {"none", "released", "current", "foreign"}
    /\ journal \subseteq Names \X Contents
    /\ tables \subseteq Tables
    /\ triggers \in [Tables -> Nat]
    /\ version \in Nat
    /\ refused \in BOOLEAN

\* A new file; one that v0.1.0 wrote, with and without its journal entry; one
\* of an unreleased build; and one with a part of the bookkeeping tables.
Init ==
    /\ \E found \in {<<"none", "none">>, <<"legacy", "released">>,
            <<"legacy", "none">>, <<"current", "foreign">>, <<"partial", "none">>} :
        schema = found[1] /\ digest = found[2]
    /\ exists = (schema # "none")
    /\ locks = [x \in Paths |-> {}]
    /\ pc = [p \in Procs |-> "closed"]
    /\ path = Spelling
    /\ next = [p \in Procs |-> 1]
    /\ journal = {} /\ tables = {}
    /\ triggers = [t \in Tables |-> 0] /\ version = 0
    /\ refused = FALSE

-----------------------------------------------------------------------------
(* The lock.                                                               *)

\* Fault: a dangling link is not followed.
NormalizedDangling(p) == IF exists THEN Target(Spelling[p]) ELSE Spelling[p]

\* normalize_database_path: canonicalize follows the links when the file exists;
\* otherwise read_link does, one by one.
Normalized(p) == Target(Spelling[p])

Normalize(p) ==
    /\ pc[p] = "closed"
    /\ path' = [path EXCEPT ![p] = Normalized(p)]
    /\ pc' = [pc EXCEPT ![p] = "lock"]
    /\ UNCHANGED <<exists, locks, next, file, refused>>

\* The handle, or all that open held, is dropped: the lock file is released and
\* the locals are gone.
Released(p) ==
    /\ pc' = [pc EXCEPT ![p] = "closed"]
    /\ locks' = [x \in Paths |-> locks[x] \ {p}]
    /\ path' = [path EXCEPT ![p] = Spelling[p]]
    /\ next' = [next EXCEPT ![p] = 1]
    /\ UNCHANGED exists

\* try_lock_exclusive, which does not wait.
Lock(p) ==
    /\ pc[p] = "lock"
    /\ IF locks[path[p]] = {}
       THEN /\ locks' = [locks EXCEPT ![path[p]] = {p}]
            /\ pc' = [pc EXCEPT ![p] = "connect"]
            /\ UNCHANGED <<exists, path, next>>
       ELSE Released(p)
    /\ UNCHANGED <<file, refused>>

\* open_and_init_db.
Connect(p) ==
    /\ pc[p] = "connect"
    /\ exists' = TRUE
    /\ pc' = [pc EXCEPT ![p] = "legacy"]
    /\ UNCHANGED <<locks, path, next, file, refused>>

\* The handle is closed, a statement fails, or the process is killed.
Stop(p) ==
    /\ pc[p] # "closed"
    /\ Released(p)
    /\ UNCHANGED <<file, refused>>

-----------------------------------------------------------------------------
(* The crate's own bookkeeping schema.                                     *)

\* migrate_legacy_table_names and migrate_legacy_metadata_columns.
Renamed == IF schema = "legacy" THEN "current" ELSE schema

\* prepare_legacy_schema, one transaction.
PrepareLegacy(p) ==
    /\ pc[p] = "legacy" /\ schema # "partial"
    /\ schema' = Renamed
    /\ pc' = [pc EXCEPT ![p] = IF schema' = "current" THEN "record" ELSE "crate"]
    /\ UNCHANGED <<exists, locks, path, next, digest, journal, tables, triggers, version, refused>>

\* Fault: only v0.1.0's digest is converted, a missing one is not added.
RecordLegacyBootstrapConverts(p) ==
    /\ pc[p] = "record"
    /\ digest' = IF digest = "released" THEN "current" ELSE digest
    /\ pc' = [pc EXCEPT ![p] = "crate"]
    /\ UNCHANGED <<exists, locks, path, next>>
    /\ UNCHANGED <<schema, journal, tables, triggers, version, refused>>

\* record_legacy_bootstrap, a transaction of its own.
RecordLegacyBootstrap(p) ==
    /\ pc[p] = "record"
    /\ digest' = IF digest \in {"none", "released"} THEN "current" ELSE digest
    /\ pc' = [pc EXCEPT ![p] = "crate"]
    /\ UNCHANGED <<exists, locks, path, next>>
    /\ UNCHANGED <<schema, journal, tables, triggers, version, refused>>

\* The crate journal is in order, or empty with no table in the way.
CrateReady == digest = "current" \/ (digest = "none" /\ schema = "none")

\* reconcile_and_apply on the crate journal.
ApplyCrate(p) ==
    /\ pc[p] = "crate" /\ CrateReady
    /\ schema' = "current" /\ digest' = "current"
    /\ pc' = [pc EXCEPT ![p] = "reconcile"]
    /\ UNCHANGED <<exists, locks, path, next, journal, tables, triggers, version, refused>>

\* A partial schema, a drifted digest, or a CREATE TABLE of a table that is
\* already there ends open.
RefuseCrate(p) ==
    /\ \/ pc[p] = "legacy" /\ schema = "partial"
       \/ pc[p] = "crate" /\ ~CrateReady
    /\ Released(p)
    /\ refused' = TRUE
    /\ UNCHANGED file

-----------------------------------------------------------------------------
(* The consumer's migrations.                                              *)

Sql(p, n) == Release[p].sql[n]
Listed(p) == {Release[p].list[i] : i \in DOMAIN Release[p].list}

\* Fault: a journalled migration that the source does not list is passed over.
MatchesKnown(p) == \A j \in journal : j[1] \in Listed(p) => j[2] = Sql(p, j[1])

\* The first loop of reconcile_and_apply: every journalled name is listed, with
\* the SQL that was applied.
Matches(p) == \A j \in journal : j[1] \in Listed(p) /\ j[2] = Sql(p, j[1])

Reconcile(p) ==
    /\ pc[p] = "reconcile"
    /\ Matches(p)
    /\ pc' = [pc EXCEPT ![p] = "migrate"]
    /\ next' = [next EXCEPT ![p] = 1]
    /\ UNCHANGED <<exists, locks, path, file, refused>>

\* MigrationMissingFromSource or MigrationContentDrift.
Reject(p) ==
    /\ pc[p] = "reconcile" /\ ~Matches(p)
    /\ Released(p)
    /\ UNCHANGED <<file, refused>>

Current(p) == Release[p].list[next[p]]
Pending(p) == pc[p] = "migrate" /\ next[p] <= Len(Release[p].list)
Journalled(n) == \E j \in journal : j[1] = n
Applied(p) == <<Current(p), Sql(p, Current(p))>> \in journal

\* execute_statements fails on a CREATE TABLE of a table that exists.
Clashes(p) == Creates[Sql(p, Current(p))] \cap tables # {}

\* Fault: the loop does not move on.
SkipMigrationForever(p) ==
    /\ Pending(p) /\ Applied(p)
    /\ UNCHANGED vars

\* Fault: the loop moves on twice.
SkipMigrationTwice(p) ==
    /\ Pending(p) /\ Applied(p)
    /\ next' = [next EXCEPT ![p] = @ + 2]
    /\ UNCHANGED <<exists, locks, pc, path, file, refused>>

\* A migration that is in the journal already.
SkipMigration(p) ==
    /\ Pending(p) /\ Applied(p)
    /\ next' = [next EXCEPT ![p] = @ + 1]
    /\ UNCHANGED <<exists, locks, pc, path, file, refused>>

\* Fault: the journal entry is written in a transaction of its own, first.
ApplySingleMigrationJournalFirst(p) ==
    /\ Pending(p) /\ ~Journalled(Current(p)) /\ ~Clashes(p)
    /\ journal' = journal \cup {<<Current(p), Sql(p, Current(p))>>}
    /\ UNCHANGED tables
    /\ UNCHANGED <<exists, locks, process, schema, digest, triggers, version, refused>>

\* apply_single_migration: statements and journal entry in one transaction.
ApplySingleMigration(p) ==
    /\ Pending(p) /\ ~Journalled(Current(p)) /\ ~Clashes(p)
    /\ tables' = tables \cup Creates[Sql(p, Current(p))]
    /\ journal' = journal \cup {<<Current(p), Sql(p, Current(p))>>}
    /\ next' = [next EXCEPT ![p] = @ + 1]
    /\ UNCHANGED <<exists, locks, pc, path, schema, digest, triggers, version, refused>>

\* The SQL fails, as on a table that exists; or the journal holds another
\* digest. The transaction rolls back and open ends.
MigrationFails(p) ==
    /\ Pending(p)
    /\ IF Journalled(Current(p)) THEN ~Applied(p) ELSE Clashes(p)
    /\ Released(p)
    /\ UNCHANGED <<file, refused>>

Migrated(p) ==
    /\ pc[p] = "migrate" /\ ~Pending(p)
    /\ pc' = [pc EXCEPT ![p] = "triggers"]
    /\ UNCHANGED <<exists, locks, path, next, file, refused>>

-----------------------------------------------------------------------------
\* Fault: triggers that exist are kept.
SetUpKeeps(v) ==
    [t \in Tables |-> IF t \in tables /\ triggers[t] = 0 THEN v ELSE triggers[t]]

\* setup_triggers_for_table on every CRDT table: older ones are dropped first.
SetUp(v) == [t \in Tables |-> IF t \in tables THEN v ELSE triggers[t]]

\* ensure_triggers_initialized: only a newer version sets triggers up.
EnsureTriggersInitialized(p) ==
    /\ pc[p] = "triggers"
    /\ IF version >= Release[p].version
       THEN UNCHANGED <<triggers, version>>
       ELSE /\ triggers' = SetUp(Release[p].version)
            /\ version' = Release[p].version
    /\ pc' = [pc EXCEPT ![p] = "open"]
    /\ UNCHANGED <<exists, locks, path, next, schema, digest, journal, tables, refused>>

\* The steps of an open that is under way.
Open(p) ==
    \/ Lock(p) \/ Connect(p)
    \/ PrepareLegacy(p) \/ RecordLegacyBootstrap(p) \/ ApplyCrate(p) \/ RefuseCrate(p)
    \/ Reconcile(p) \/ Reject(p)
    \/ SkipMigration(p) \/ ApplySingleMigration(p) \/ MigrationFails(p) \/ Migrated(p)
    \/ EnsureTriggersInitialized(p)

Next == \E p \in Procs : Normalize(p) \/ Open(p) \/ Stop(p)

\* A thread inside open goes on; nobody has to start or to stop one.
Spec == Init /\ [][Next]_vars /\ \A p \in Procs : WF_vars(Open(p))

-----------------------------------------------------------------------------
(* Properties                                                              *)

\* "A symlink could bypass the exclusivity this module is meant to enforce":
\* at most one process is past the lock, under whichever spelling of the path
\* and though the file came into being between the two opens.
ExclusiveOpen ==
    \A p, q \in Procs :
        pc[p] \notin {"closed", "lock"} /\ pc[q] \notin {"closed", "lock"} => p = q

\* "A partial failure never leaves the DB half-migrated": the CRDT tables are
\* those of the journalled migrations, at whichever step a process died.
NeverHalfMigrated == tables = UNION {Creates[j[2]] : j \in journal}

\* "The engine never re-runs a migration whose content differs from what was
\* applied": an open database holds the migrations of its release, each with
\* the SQL that release ships, and no others.
OpenMatchesSource ==
    \A p \in Procs : pc[p] = "open" => journal = {<<n, Sql(p, n)>> : n \in Listed(p)}

\* A file of v0.1.0, journalled or not, and a new one always come through the
\* bootstrap, also when an earlier open died between renaming the tables and
\* journalling them. Only foreign or partial schemas are refused.
RefusedForCause == refused => schema = "partial" \/ digest = "foreign"

\* An open database has no triggers older than its release asked for, after
\* any sequence of upgrades and downgrades.
TriggersNotOutdated ==
    \A p \in Procs : pc[p] = "open" =>
        \A t \in tables : triggers[t] = 0 \/ triggers[t] >= Release[p].version

\* Every open that starts ends: with an open database or an error.
OpenEnds == \A p \in Procs : pc[p] = "lock" ~> pc[p] \in {"open", "closed"}
=============================================================================
