--------------------------- MODULE Startup_proofs ---------------------------
(***************************************************************************)
(* Proofs about Startup for any number of processes, releases, migrations, *)
(* links and tables: the invariant Inv is inductive, and the safety        *)
(* properties of the startup run follow from it. The lock comes first:     *)
(* what an open knows about the file stays true because nobody else is     *)
(* past the lock.                                                          *)
(***************************************************************************)
EXTENDS Startup, TLAPS

\* Past the lock a process holds the lock file of the one database, whichever
\* name it opened.
LockInv ==
    \A p \in Procs :
        /\ pc[p] # "closed" => path[p] = Target(Spelling[p])
        /\ pc[p] \notin {"closed", "lock"} => locks[path[p]] = {p}

\* The two transactions of the legacy conversion, and what an open between them
\* may find. Only a foreign or partial schema is refused.
BootInv ==
    /\ \A p \in Procs :
        /\ pc[p] = "record" => schema = "current"
        /\ pc[p] = "crate" => \/ digest \in {"current", "foreign"}
                              \/ digest = "none" /\ schema = "none"
    /\ schema \in {"none", "partial"} => digest = "none"
    /\ RefusedForCause

\* A migrating process has seen a journal that matches its source, and every
\* migration before its position is in it.
Done(p) == {Release[p].list[i] : i \in 1..(next[p] - 1)}
JournalInv ==
    \A p \in Procs :
        /\ pc[p] = "migrate" => /\ Matches(p)
                                /\ \A n \in Done(p) : <<n, Sql(p, n)>> \in journal
        /\ pc[p] \in {"triggers", "open"} => journal = {<<n, Sql(p, n)>> : n \in Listed(p)}

\* All triggers are of the stored version, which covers every open release.
TriggerInv ==
    /\ \A t \in Tables : triggers[t] \in {0, version}
    /\ \A t \in Tables \ tables : triggers[t] = 0
    /\ \A p \in Procs : pc[p] = "open" => version >= Release[p].version

Inv ==
    /\ TypeOK /\ LockInv /\ NeverHalfMigrated
    /\ BootInv /\ JournalInv /\ TriggerInv

\* A step belongs to one process p and leaves the locals of the others alone.
LEMMA OneProcess ==
    ASSUME TypeOK, NEW p \in Procs, Normalize(p) \/ Open(p) \/ Stop(p)
    PROVE  \A q \in Procs \ {p} :
             pc'[q] = pc[q] /\ path'[q] = path[q] /\ next'[q] = next[q]
  BY DEF TypeOK, Normalize, Open, Stop, Released, Lock, Connect, PrepareLegacy,
     RecordLegacyBootstrap, ApplyCrate, RefuseCrate, Reconcile, Reject, SkipMigration,
     ApplySingleMigration, MigrationFails, Migrated, EnsureTriggersInitialized

\* All names that are opened end at one file.
LEMMA OneFile == \E f \in Paths : \A p \in Procs : Target(Spelling[p]) = f
  BY StartupConstants

-----------------------------------------------------------------------------
(* Types                                                                   *)

LEMMA InitType == Init => TypeOK
  <1> SUFFICES ASSUME Init PROVE TypeOK
    OBVIOUS
  <1>1. \A p \in Procs : Len(Release[p].list) \in Nat
    BY StartupConstants
  <1>2. \A p \in Procs : next[p] \in 1..(Len(Release[p].list) + 1)
    BY <1>1 DEF Init
  <1>3. schema \in {"none", "legacy", "partial", "current"}
        /\ digest \in {"none", "released", "current", "foreign"}
    BY DEF Init
  <1>4. exists \in BOOLEAN /\ refused \in BOOLEAN
    BY DEF Init
  <1>5. path \in [Procs -> Paths]
    BY StartupConstants DEF Init
  <1> QED
    BY <1>2, <1>3, <1>4, <1>5 DEF Init, TypeOK

\* Releasing keeps the types of what a process holds.
LEMMA ReleasedType ==
    ASSUME TypeOK, NEW p \in Procs, Released(p), UNCHANGED file, refused' \in BOOLEAN
    PROVE  TypeOK'
  <1>1. \A q \in Procs : Len(Release[q].list) \in Nat
    BY StartupConstants
  <1>2. \A q \in Procs : next'[q] \in 1..(Len(Release[q].list) + 1)
    BY <1>1 DEF TypeOK, Released
  <1>3. path' \in [Procs -> Paths]
    BY StartupConstants DEF TypeOK, Released
  <1>4. locks' \in [Paths -> SUBSET Procs]
    BY DEF TypeOK, Released
  <1> QED
    BY <1>2, <1>3, <1>4 DEF TypeOK, Released, file

\* The migration at a pending position is one of the release's.
LEMMA PendingIsListed ==
    ASSUME TypeOK, NEW p \in Procs, Pending(p)
    PROVE  /\ next[p] \in 1..Len(Release[p].list)
           /\ Current(p) \in Names /\ Current(p) \in Listed(p)
           /\ Sql(p, Current(p)) \in Contents
           /\ Creates[Sql(p, Current(p))] \subseteq Tables
  <1>1. Release[p].list \in Seq(Names) /\ Release[p].sql \in [Names -> Contents]
    BY StartupConstants
  <1>2. next[p] \in 1..Len(Release[p].list)
    BY <1>1 DEF TypeOK, Pending
  <1>3. Current(p) \in Names /\ Current(p) \in Listed(p)
    BY <1>1, <1>2 DEF Current, Listed
  <1>4. Sql(p, Current(p)) \in Contents
    BY <1>1, <1>3 DEF Sql
  <1> QED
    BY <1>2, <1>3, <1>4, StartupConstants

LEMMA StepType ==
    ASSUME TypeOK, NEW p \in Procs, Normalize(p) \/ Open(p) \/ Stop(p)
    PROVE  TypeOK'
  <1>0. \A q \in Procs : Len(Release[q].list) \in Nat
    BY StartupConstants
  <1>1. CASE Normalize(p)
    <2>1. Normalized(p) \in Paths
      BY OneFile DEF Normalized
    <2> QED
      BY <1>1, <2>1 DEF TypeOK, Normalize, file
  <1>2. CASE Lock(p)
    <2>1. CASE locks[path[p]] = {}
      <3>1. /\ locks' = [locks EXCEPT ![path[p]] = {p}]
            /\ pc' = [pc EXCEPT ![p] = "connect"]
            /\ UNCHANGED <<exists, path, next, file, refused>>
        BY <1>2, <2>1 DEF Lock
      <3>2. locks' \in [Paths -> SUBSET Procs]
        BY <3>1 DEF TypeOK
      <3> QED
        BY <3>1, <3>2 DEF TypeOK, file
    <2>2. CASE locks[path[p]] # {}
      <3>1. Released(p) /\ UNCHANGED file /\ refused' \in BOOLEAN
        BY <1>2, <2>2 DEF Lock, TypeOK
      <3> QED
        BY <3>1, ReleasedType
    <2> QED
      BY <2>1, <2>2
  <1>3. CASE Connect(p)
    BY <1>3 DEF TypeOK, Connect, file
  <1>4. CASE PrepareLegacy(p) \/ RecordLegacyBootstrap(p) \/ ApplyCrate(p)
    BY <1>4 DEF TypeOK, PrepareLegacy, Renamed, RecordLegacyBootstrap, ApplyCrate
  <1>5. CASE RefuseCrate(p) \/ Reject(p) \/ MigrationFails(p) \/ Stop(p)
    <2>1. Released(p) /\ UNCHANGED file /\ refused' \in BOOLEAN
      BY <1>5 DEF RefuseCrate, Reject, MigrationFails, Stop, TypeOK
    <2> QED
      BY <2>1, ReleasedType
  <1>6. CASE Migrated(p)
    BY <1>6 DEF TypeOK, Migrated, file
  <1>10. CASE Reconcile(p)
    <2>1. /\ pc' = [pc EXCEPT ![p] = "migrate"]
          /\ next' = [next EXCEPT ![p] = 1]
          /\ UNCHANGED <<exists, locks, path, file, refused>>
      BY <1>10 DEF Reconcile
    <2>2. \A q \in Procs : next'[q] \in 1..(Len(Release[q].list) + 1)
      BY <1>0, <2>1 DEF TypeOK
    <2> QED
      BY <2>1, <2>2 DEF TypeOK, file
  <1>7. CASE SkipMigration(p)
    BY <1>0, <1>7, PendingIsListed DEF TypeOK, SkipMigration, file
  <1>8. CASE ApplySingleMigration(p)
    <2>1. /\ next[p] \in 1..Len(Release[p].list)
          /\ Creates[Sql(p, Current(p))] \subseteq Tables
          /\ <<Current(p), Sql(p, Current(p))>> \in Names \X Contents
      BY <1>8, PendingIsListed DEF ApplySingleMigration
    <2> HIDE DEF Current, Sql
    <2> QED
      BY <1>0, <1>8, <2>1 DEF TypeOK, ApplySingleMigration
  <1>9. CASE EnsureTriggersInitialized(p)
    <2>1. Release[p].version \in Nat
      BY StartupConstants
    <2> QED
      BY <1>9, <2>1 DEF TypeOK, EnsureTriggersInitialized, SetUp
  <1> QED
    BY <1>1, <1>2, <1>3, <1>4, <1>5, <1>6, <1>7, <1>8, <1>9, <1>10 DEF Open

-----------------------------------------------------------------------------
(* The lock                                                                *)

LEMMA StepLock ==
    ASSUME TypeOK, LockInv, NEW p \in Procs, Normalize(p) \/ Open(p) \/ Stop(p)
    PROVE  LockInv'
  <1> SUFFICES ASSUME NEW q \in Procs
               PROVE  /\ pc'[q] # "closed" => path'[q] = Target(Spelling[q])
                      /\ pc'[q] \notin {"closed", "lock"} => locks'[path'[q]] = {q}
    BY DEF LockInv
  <1>0. path[q] \in Paths /\ path[p] \in Paths
    BY DEF TypeOK
  <1>1. CASE Normalize(p)
    BY <1>1 DEF TypeOK, LockInv, Normalize, Normalized
  <1>2. CASE Released(p)
    BY <1>0, <1>2 DEF TypeOK, LockInv, Released
  <1>3. CASE Lock(p) /\ locks[path[p]] = {}
    <2>1. path[p] = Target(Spelling[p])
      BY <1>3 DEF LockInv, Lock
    <2>2. CASE q = p
      BY <1>0, <1>3, <2>1, <2>2 DEF TypeOK, Lock
    <2>3. CASE q # p
      <3>1. pc'[q] = pc[q] /\ path'[q] = path[q]
        BY <1>3, <2>3 DEF TypeOK, Lock
      <3>2. pc[q] \notin {"closed", "lock"} => path[q] = path[p]
        BY <2>1, OneFile DEF LockInv
      <3>3. pc[q] \in {"closed", "lock"}
        BY <1>3, <3>2 DEF LockInv
      <3> QED
        BY <3>1, <3>3 DEF LockInv
    <2> QED
      BY <2>2, <2>3
  <1>4. CASE /\ UNCHANGED <<locks, path>>
             /\ pc[p] \notin {"closed", "lock"}
             /\ pc'[p] # pc[p] => pc' = [pc EXCEPT ![p] = pc'[p]]
             /\ pc'[p] = pc[p] => pc' = pc
    BY <1>0, <1>4 DEF TypeOK, LockInv
  <1> QED
    <2>1. CASE Lock(p)
      BY <1>2, <1>3, <2>1 DEF Lock
    <2>2. CASE RefuseCrate(p) \/ Reject(p) \/ MigrationFails(p) \/ Stop(p)
      BY <1>2, <2>2 DEF RefuseCrate, Reject, MigrationFails, Stop
    <2>3. CASE \/ Connect(p) \/ PrepareLegacy(p) \/ RecordLegacyBootstrap(p) \/ ApplyCrate(p)
               \/ Reconcile(p) \/ SkipMigration(p) \/ ApplySingleMigration(p)
               \/ Migrated(p) \/ EnsureTriggersInitialized(p)
      BY <1>4, <2>3 DEF TypeOK, Connect, PrepareLegacy, RecordLegacyBootstrap, ApplyCrate,
         Reconcile, SkipMigration, ApplySingleMigration, Migrated,
         EnsureTriggersInitialized, Pending
    <2> QED
      BY <1>1, <2>1, <2>2, <2>3 DEF Open

\* Two processes past the lock are one.
LEMMA LockExcludes == LockInv => ExclusiveOpen
  BY OneFile DEF LockInv, ExclusiveOpen

-----------------------------------------------------------------------------
(* The bookkeeping schema                                                  *)

LEMMA StepBoot ==
    ASSUME TypeOK, BootInv, NEW p \in Procs, Normalize(p) \/ Open(p) \/ Stop(p)
    PROVE  BootInv'
  <1> USE DEF BootInv, RefusedForCause, TypeOK
  <1>1. CASE /\ UNCHANGED <<schema, digest, refused>>
             /\ \A q \in Procs : pc'[q] = pc[q] \/ pc'[q] \notin {"record", "crate"}
    BY <1>1
  <1>2. CASE PrepareLegacy(p)
    BY <1>2 DEF PrepareLegacy, Renamed
  <1>3. CASE RecordLegacyBootstrap(p)
    BY <1>3 DEF RecordLegacyBootstrap
  <1>4. CASE ApplyCrate(p)
    BY <1>4 DEF ApplyCrate, CrateReady
  <1>5. CASE RefuseCrate(p)
    BY <1>5 DEF RefuseCrate, CrateReady, Released, file
  <1>6. CASE Normalize(p) \/ Lock(p) \/ Stop(p)
    BY <1>1, <1>6 DEF Normalize, Lock, Released, Stop, file
  <1>7. CASE \/ Connect(p) \/ Reconcile(p) \/ Reject(p) \/ SkipMigration(p)
             \/ ApplySingleMigration(p) \/ MigrationFails(p)
             \/ Migrated(p) \/ EnsureTriggersInitialized(p)
    BY <1>1, <1>7 DEF Released, file, Connect, Reconcile, Reject,
       SkipMigration, ApplySingleMigration, MigrationFails, Migrated,
       EnsureTriggersInitialized
  <1> QED
    BY <1>2, <1>3, <1>4, <1>5, <1>6, <1>7 DEF Open

-----------------------------------------------------------------------------
(* Tables and journal                                                      *)

\* Only a migration changes tables and journal.
LEMMA OnlyMigrations ==
    ASSUME NEW p \in Procs, Normalize(p) \/ Open(p) \/ Stop(p),
           ~ApplySingleMigration(p)
    PROVE  UNCHANGED <<tables, journal>>
  BY DEF Normalize, Open, Stop, Released, Lock, Connect, PrepareLegacy, file,
     RecordLegacyBootstrap, ApplyCrate, RefuseCrate, Reconcile, Reject, SkipMigration,
     MigrationFails, Migrated, EnsureTriggersInitialized

LEMMA StepTables ==
    ASSUME NeverHalfMigrated, NEW p \in Procs, Normalize(p) \/ Open(p) \/ Stop(p)
    PROVE  NeverHalfMigrated'
  <1>1. CASE ApplySingleMigration(p)
    <2> DEFINE entry == <<Current(p), Sql(p, Current(p))>>
    <2>1. /\ tables' = tables \cup Creates[entry[2]]
          /\ journal' = journal \cup {entry}
      BY <1>1 DEF ApplySingleMigration
    <2> HIDE DEF entry
    <2> QED
      BY <2>1 DEF NeverHalfMigrated
  <1>2. CASE ~ApplySingleMigration(p)
    BY <1>2, OnlyMigrations DEF NeverHalfMigrated
  <1> QED
    BY <1>1, <1>2

\* The journal of a process that has passed its last migration.
LEMMA AllDone ==
    ASSUME TypeOK, NEW p \in Procs, Migrated(p), Matches(p),
           \A n \in Done(p) : <<n, Sql(p, n)>> \in journal
    PROVE  journal = {<<n, Sql(p, n)>> : n \in Listed(p)}
  <1>1. Release[p].list \in Seq(Names)
    BY StartupConstants
  <1>2. next[p] = Len(Release[p].list) + 1
    BY <1>1 DEF TypeOK, Migrated, Pending
  <1>3. Done(p) = Listed(p)
    BY <1>1, <1>2 DEF Done, Listed
  <1>4. \A j \in journal : j = <<j[1], j[2]>>
    BY DEF TypeOK
  <1>5. ASSUME NEW j \in journal PROVE j \in {<<n, Sql(p, n)>> : n \in Listed(p)}
    BY <1>4 DEF Matches
  <1> QED
    BY <1>3, <1>5

LEMMA StepJournal ==
    ASSUME TypeOK, LockInv, JournalInv,
           NEW p \in Procs, Normalize(p) \/ Open(p) \/ Stop(p)
    PROVE  JournalInv'
  <1> SUFFICES ASSUME NEW q \in Procs
               PROVE  /\ pc'[q] = "migrate" =>
                           /\ Matches(q)'
                           /\ \A n \in Done(q)' : <<n, Sql(q, n)>> \in journal'
                      /\ pc'[q] \in {"triggers", "open"} =>
                           journal' = {<<n, Sql(q, n)>> : n \in Listed(q)}
    BY DEF JournalInv, Sql, Listed
  <1>1. CASE q # p
    <2>1. pc'[q] = pc[q] /\ next'[q] = next[q]
      BY <1>1, OneProcess
    <2>2. CASE UNCHANGED journal
      BY <2>1, <2>2 DEF JournalInv, Matches, Done, Sql, Listed
    <2>3. CASE ApplySingleMigration(p)
      <3>1. pc[p] = "migrate"
        BY <2>3 DEF ApplySingleMigration, Pending
      <3>2. pc[q] \in {"closed", "lock"}
        BY <1>1, <3>1, LockExcludes DEF ExclusiveOpen
      <3> QED
        BY <2>1, <3>2
    <2> QED
      BY <2>2, <2>3, OnlyMigrations
  <1>2. CASE q = p
    <2>1. CASE Reconcile(p)
      <3>1. Done(p)' = {}
        BY <2>1 DEF Reconcile, Done, TypeOK
      <3>2. Matches(p)'
        BY <2>1 DEF Reconcile, Matches, file, Sql, Listed
      <3>3. pc'[p] = "migrate"
        BY <2>1 DEF Reconcile, TypeOK
      <3> QED
        BY <1>2, <3>1, <3>2, <3>3
    <2>2. CASE SkipMigration(p) \/ ApplySingleMigration(p)
      <3>1. /\ pc[p] = "migrate" /\ pc'[p] = "migrate"
            /\ next'[p] = next[p] + 1 /\ next[p] \in Nat /\ next[p] >= 1
        BY <2>2, PendingIsListed DEF SkipMigration, ApplySingleMigration, Pending, TypeOK
      <3>2. /\ journal' = journal \cup {<<Current(p), Sql(p, Current(p))>>}
            /\ Current(p) \in Listed(p)
        BY <2>2, PendingIsListed DEF SkipMigration, ApplySingleMigration, Applied, file
      <3>3. Done(p)' = Done(p) \cup {Current(p)}
        BY <3>1 DEF Done, Current
      <3>4. Matches(p)'
        BY <3>1, <3>2 DEF JournalInv, Matches, Sql, Listed
      <3> QED
        BY <1>2, <3>1, <3>2, <3>3, <3>4 DEF JournalInv
    <2>3. CASE Migrated(p)
      <3>1. pc[p] = "migrate" /\ pc'[p] = "triggers" /\ journal' = journal
        BY <2>3 DEF Migrated, TypeOK, file
      <3> QED
        BY <1>2, <2>3, <3>1, AllDone DEF JournalInv
    <2>4. CASE EnsureTriggersInitialized(p)
      BY <1>2, <2>4 DEF JournalInv, EnsureTriggersInitialized, TypeOK
    <2>5. CASE \/ Normalize(p) \/ Lock(p) \/ Connect(p) \/ PrepareLegacy(p)
               \/ RecordLegacyBootstrap(p) \/ ApplyCrate(p) \/ RefuseCrate(p)
               \/ Reject(p) \/ MigrationFails(p) \/ Stop(p)
      <3>1. pc'[p] \notin {"migrate", "triggers", "open"}
        BY <2>5 DEF TypeOK, Released, Normalize, Lock, Connect, PrepareLegacy,
           RecordLegacyBootstrap, ApplyCrate, RefuseCrate, Reject, MigrationFails, Stop
      <3> QED
        BY <1>2, <3>1
    <2> QED
      BY <2>1, <2>2, <2>3, <2>4, <2>5 DEF Open
  <1> QED
    BY <1>1, <1>2

-----------------------------------------------------------------------------
(* Triggers                                                                *)

LEMMA StepTriggers ==
    ASSUME TypeOK, TriggerInv, NEW p \in Procs, Normalize(p) \/ Open(p) \/ Stop(p)
    PROVE  TriggerInv'
  <1>0. \A q \in Procs : Release[q].version \in Nat
    BY StartupConstants
  <1>1. CASE EnsureTriggersInitialized(p)
    <2>1. pc' = [pc EXCEPT ![p] = "open"] /\ tables' = tables
      BY <1>1 DEF EnsureTriggersInitialized
    <2>2. CASE version >= Release[p].version
      BY <1>0, <1>1, <2>1, <2>2 DEF EnsureTriggersInitialized, TriggerInv, TypeOK
    <2>3. CASE ~(version >= Release[p].version)
      <3>1. triggers' = SetUp(Release[p].version) /\ version' = Release[p].version
        BY <1>1, <2>3 DEF EnsureTriggersInitialized
      <3>2. version' > version /\ version \in Nat /\ version' \in Nat
        BY <1>0, <2>3, <3>1 DEF TypeOK
      <3> QED
        BY <1>0, <2>1, <3>1, <3>2 DEF SetUp, TriggerInv, TypeOK
    <2> QED
      BY <2>2, <2>3
  <1>2. CASE ~EnsureTriggersInitialized(p)
    <2>1. UNCHANGED <<triggers, version>>
      BY <1>2 DEF Normalize, Open, Stop, Released, Lock, Connect, PrepareLegacy, file,
         RecordLegacyBootstrap, ApplyCrate, RefuseCrate, Reconcile, Reject,
         SkipMigration, ApplySingleMigration, MigrationFails, Migrated
    <2>2. tables \subseteq tables'
      BY OnlyMigrations DEF ApplySingleMigration
    <2>3. \A q \in Procs : pc'[q] = "open" => pc[q] = "open"
      <3>1. pc'[p] = "open" => pc[p] = "open"
        BY <1>2 DEF TypeOK, Normalize, Open, Stop, Released, Lock, Connect, PrepareLegacy,
           RecordLegacyBootstrap, ApplyCrate, RefuseCrate, Reconcile, Reject,
           SkipMigration, ApplySingleMigration, MigrationFails, Migrated
      <3> QED
        BY <3>1, OneProcess
    <2> QED
      BY <2>1, <2>2, <2>3 DEF TriggerInv
  <1> QED
    BY <1>1, <1>2

-----------------------------------------------------------------------------
(* The theorems                                                            *)

LEMMA InitInv == Init => Inv
  <1> SUFFICES ASSUME Init PROVE Inv
    OBVIOUS
  <1>1. LockInv /\ JournalInv
    BY DEF Init, LockInv, JournalInv
  <1>2. NeverHalfMigrated
    BY DEF Init, NeverHalfMigrated
  <1>3. BootInv
    BY DEF Init, BootInv, RefusedForCause
  <1>4. TriggerInv
    BY DEF Init, TriggerInv
  <1> QED
    BY <1>1, <1>2, <1>3, <1>4, InitType DEF Inv

LEMMA StutterInv == Inv /\ UNCHANGED vars => Inv'
  <1> SUFFICES ASSUME Inv, UNCHANGED vars PROVE Inv'
    OBVIOUS
  <1>1. TypeOK'
    BY DEF Inv, TypeOK, vars, process, file
  <1>2. LockInv' /\ BootInv'
    BY DEF Inv, LockInv, BootInv, RefusedForCause, vars, process, file
  <1>3. NeverHalfMigrated'
    BY DEF Inv, NeverHalfMigrated, vars, file
  <1>4. JournalInv'
    BY DEF Inv, JournalInv, Matches, Done, vars, process, file
  <1>5. TriggerInv'
    BY DEF Inv, TriggerInv, vars, process, file
  <1> QED
    BY <1>1, <1>2, <1>3, <1>4, <1>5 DEF Inv

LEMMA StepInv == Inv /\ [Next]_vars => Inv'
  <1> SUFFICES ASSUME Inv, Next PROVE Inv'
    BY StutterInv
  <1>1. PICK p \in Procs : Normalize(p) \/ Open(p) \/ Stop(p)
    BY DEF Next
  <1> HIDE DEF Normalize, Open, Stop
  <1> QED
    BY <1>1, StepType, StepLock, StepTables, StepBoot, StepJournal, StepTriggers DEF Inv

\* Inv is an invariant of every behaviour of open.
THEOREM Invariance == Spec => []Inv
  BY InitInv, StepInv, PTL DEF Spec

\* Every step of Database::open, failed, killed or not, keeps the types.
THEOREM TypeCorrect == Spec => []TypeOK
  <1>1. Inv => TypeOK
    BY DEF Inv
  <1> QED
    BY <1>1, Invariance, PTL

\* DatabaseLock::try_acquire admits one process at a time, whichever links the
\* processes open and whether or not the file exists yet.
THEOREM OneOpener == Spec => []ExclusiveOpen
  <1>1. Inv => ExclusiveOpen
    BY LockExcludes DEF Inv
  <1> QED
    BY <1>1, Invariance, PTL

\* apply_single_migration never parts schema and journal.
THEOREM WholeMigrations == Spec => []NeverHalfMigrated
  <1>1. Inv => NeverHalfMigrated
    BY DEF Inv
  <1> QED
    BY <1>1, Invariance, PTL

\* An open database holds exactly its release's migrations, for any releases that
\* upgrade, downgrade and fork on the file.
THEOREM OpensItsRelease == Spec => []OpenMatchesSource
  <1>1. Inv => OpenMatchesSource
    BY DEF Inv, JournalInv, OpenMatchesSource
  <1> QED
    BY <1>1, Invariance, PTL

\* The bootstrap refuses foreign and partial schemas only, wherever an earlier
\* open died.
THEOREM RefusalHasCause == Spec => []RefusedForCause
  <1>1. Inv => RefusedForCause
    BY DEF Inv, BootInv
  <1> QED
    BY <1>1, Invariance, PTL

\* ensure_triggers_initialized leaves no trigger older than the release asks for.
THEOREM TriggersUpToDate == Spec => []TriggersNotOutdated
  <1>1. Inv => TriggersNotOutdated
    <2> SUFFICES ASSUME Inv, NEW p \in Procs, pc[p] = "open", NEW t \in tables
                 PROVE  triggers[t] = 0 \/ triggers[t] >= Release[p].version
      BY DEF TriggersNotOutdated
    <2> QED
      BY DEF Inv, TypeOK, TriggerInv
  <1> QED
    BY <1>1, Invariance, PTL
=============================================================================
