------------------------------- MODULE Write --------------------------------
(***************************************************************************)
(* Calls on one Database handle: write, write_guarded_with (schema and     *)
(* local mode), read and read_guarded (database/write.rs, guard.rs,        *)
(* schema.rs), install_crdt (install.rs) and the stamping of a reopen      *)
(* (stamp.rs), with the change observer (db/connection_context.rs).        *)
(*                                                                         *)
(* A call holds the connection lock, so calls do not overlap; what is hard *)
(* is failure between the steps of one statement. The caller's closure is  *)
(* any sequence of Statements that may go on after an error. SQLite        *)
(* (external) may fail a statement alone, or roll the transaction back     *)
(* inside a failing statement: from then on the connection autocommits.    *)
(*                                                                         *)
(* A database holds tables with their CRDT columns, triggers and rows, the *)
(* dirty marks, the delete log, the trigger gate and the persisted HLC. A  *)
(* row is its row HLC and its column HLCs; of values, a statement tells    *)
(* whether it leaves them as they were. One table is a foreign-key child   *)
(* (ON DELETE CASCADE) of another, key by key. The                         *)
(* authorizer, the progress callback and the value limit of a guard are    *)
(* installed and removed together and are one setting here, and doing so   *)
(* does not fail.                                                          *)
(***************************************************************************)
EXTENDS Integers, FiniteSets, FiniteSetsExt

CONSTANTS
    Names,          \* table names
    NoSync,         \* the names that end in _no_sync
    Child,          \* the table with a foreign key
    Keys, Cols,     \* primary keys; data columns
    NoSyncCols,     \* the columns that end in _no_sync
    FirstDb,        \* the database before the first call
    Statements,     \* what a closure may run
    MaxBytes,       \* max_transaction_bytes
    MaxStatements,  \* bound: statements over all calls
    MaxCalls        \* bound: calls

None == [none |-> TRUE]
DeletedRows == "haex_deleted_rows"
MaxHlc == FirstDb.hlc + MaxStatements + MaxCalls

\* History: given, the HLC of the last stamped write that gave the column a new value,
\* and the table's name then.
Given == [hlc : 0..MaxHlc, as : Names]
Row == [hlc : 0..MaxHlc, cols : [Cols -> 0..MaxHlc], given : [Cols -> Given \cup {None}]]
Trigger == [of : Names, cols : SUBSET Cols]
\* History: loose, an unguarded write changed the schema (of the table or of the
\* one its rows were copied from).
Table == [crdt : BOOLEAN, cols : SUBSET Cols, trig : SUBSET Trigger,
          rows : [Keys -> Row \cup {None}], loose : BOOLEAN]
Database == [tab : [Names -> Table \cup {None}], ref : Names,
             dirty : SUBSET (Names \cup {DeletedRows}), log : SUBSET (Names \X Keys),
             gate : BOOLEAN, hlc : 0..MaxHlc]

Ops == {"query", "insert", "upsert", "update", "delete", "create", "add", "remove",
        "rename", "drop", "copy"}
\* A statement on a table. upsert is INSERT ... ON CONFLICT DO UPDATE; other is
\* RENAME's new name or the source of a copy; same, that an existing row has the value
\* it writes; hlc is the literal the transformer writes into it, 0 for none.
Statement == [op : Ops, table : Names, other : Names, key : Keys, col : Cols,
              same : BOOLEAN, bytes : Nat, hlc : Nat]

ASSUME WriteConstants ==
    /\ NoSync \subseteq Names /\ Child \in Names /\ NoSyncCols \subseteq Cols
    /\ \A s \in Statements : s \in Statement /\ s.hlc = 0
    /\ FirstDb \in Database /\ FirstDb.gate
    /\ MaxBytes \in Nat /\ MaxStatements \in Nat /\ MaxCalls \in Nat

VARIABLES
    disk,      \* the committed database
    work,      \* as the connection sees it
    savepoint, \* work at SAVEPOINT haex_crdt_schema_change, or None
    auto,      \* SQLite is in autocommit mode: no transaction is open
    conn,      \* authorizer, PRAGMA query_only, PRAGMA foreign_keys
    call,      \* the call under way, or the last one
    pc,        \* where it is
    stmt,      \* the statement being run, with the HLC in its text
    bytes,     \* written_bytes, up to the first value over the limit
    aborted,   \* CrdtTransaction::aborted is Some
    changed,   \* ConnectionContext::changed_tables
    txHlc,     \* the transaction's HLC once a write has claimed it, or 0
    clock,     \* the HLC service's last time
    steps, calls,  \* against the bounds
    base,      \* history: disk when the call began
    before,    \* history: work before the last statement
    failed,    \* history: the last statement returned an error
    did,       \* history: <<op, table, other>> of this call's statements that ran
    unnoted,   \* history: SQLite rolled back once without aborted being set
    reported,  \* history: tables this call gave to the observer
    result     \* history: "ok" (or so far), "err", "uncommitted" (COMMIT itself failed), "crash"

sqlite == <<disk, work, savepoint, auto, changed, txHlc, reported>>
handle == <<bytes, aborted, clock>>
history == <<base, before, failed, did, unnoted, result>>
vars == <<sqlite, conn, call, pc, stmt, handle, steps, calls, history>>

AtRest == [auth |-> "none", queryOnly |-> FALSE, fk |-> TRUE]
NoCall == [guard |-> FALSE, schema |-> FALSE, local |-> FALSE, wasFk |-> TRUE]

\* The state's types. (CrdtTransaction, ReadOnlyConnection, ConnectionContext)
TypeOK ==
    /\ disk \in Database /\ work \in Database /\ base \in Database /\ before \in Database
    /\ savepoint \in Database \cup {None}
    /\ auto \in BOOLEAN /\ aborted \in BOOLEAN
    /\ failed \in BOOLEAN /\ unnoted \in BOOLEAN
    /\ conn \in [auth : {"none", "readonly", "guard", "both"},
                 queryOnly : BOOLEAN, fk : BOOLEAN]
    /\ call \in [guard : BOOLEAN, schema : BOOLEAN, local : BOOLEAN, wasFk : BOOLEAN]
    /\ pc \in {"idle", "closure", "prepared", "running", "ran", "read", "reading",
              "closed"}
    /\ stmt \in Statement \cup {None}
    /\ bytes \in 0..(MaxBytes + 1)
    /\ changed \subseteq Names \cup {DeletedRows}
    /\ reported \subseteq Names \cup {DeletedRows}
    /\ txHlc \in 0..MaxHlc /\ clock \in 0..MaxHlc
    /\ steps \in 0..MaxStatements /\ calls \in 0..MaxCalls
    /\ did \subseteq Ops \X Names \X Names
    /\ result \in {"ok", "err", "uncommitted", "crash"}

-----------------------------------------------------------------------------
(* What a statement does to the database (SQLite and the CRDT triggers).   *)

Synced(t) == t \notin NoSync
Exists(db, t) == db.tab[t] # None
IsCrdt(db, t) == Exists(db, t) /\ db.tab[t].crdt
RowKeys(db, t) == IF Exists(db, t) THEN {k \in Keys : db.tab[t].rows[k] # None} ELSE {}
Orphans(db) == RowKeys(db, Child) \ RowKeys(db, db.ref)
NoRows == [k \in Keys |-> None]
NoHlcs == [c \in Cols |-> 0]
\* cols_to_track of a table with the columns cs.
Shipped(cs) == cs \ NoSyncCols
\* History after a write to the columns cs of table t that is stamped h.
Gives(old, t, cs, h) ==
    [c \in Cols |-> IF h # 0 /\ c \in cs THEN [hlc |-> h, as |-> t] ELSE old[c]]

\* The triggers that fire, given the gate row of haex_crdt_configs_no_sync.
Firing(db, t) == IF db.gate THEN db.tab[t].trig ELSE {}
Tracked(db, t) == UNION {g.cols : g \in Firing(db, t)}
MarkDirty(db, names) == [db EXCEPT !.dirty = @ \cup names]

\* z_dirty_<table>_insert: column HLCs for all tracked columns, then the mark.
InsertRow(db, t, k, h) ==
    LET hlcs == [c \in Cols |-> IF h # 0 /\ c \in Tracked(db, t) THEN h ELSE 0]
        given == Gives([c \in Cols |-> None], t, db.tab[t].cols, h)
    IN  MarkDirty([db EXCEPT !.tab[t].rows[k] = [hlc |-> h, cols |-> hlcs, given |-> given]],
                  IF h # 0 THEN {g.of : g \in Firing(db, t)} ELSE {})

\* Fault: NEW <> OLD instead of NEW IS NOT OLD misses the value that replaces NULL.
UpdateMissesNull(db, t, k, c, same, h) ==
    LET old == db.tab[t].rows[k]
        new == IF h # 0 THEN h ELSE old.hlc
        on == IF same \/ new = 0 \/ old.cols[c] = 0
              THEN {} ELSE {g \in Firing(db, t) : c \in g.cols}
        hlcs == IF on # {} THEN [old.cols EXCEPT ![c] = new] ELSE old.cols
        given == Gives(old.given, t, IF same THEN {} ELSE {c}, h)
    IN  MarkDirty([db EXCEPT !.tab[t].rows[k] = [hlc |-> new, cols |-> hlcs, given |-> given]],
                  {g.of : g \in on})

\* An UPDATE of one column moves the row's HLC. z_dirty_<table>_update gives the column
\* its HLC and the table its mark if the column is tracked and NEW IS NOT OLD.
UpdateRow(db, t, k, c, same, h) ==
    LET old == db.tab[t].rows[k]
        new == IF h # 0 THEN h ELSE old.hlc
        on == IF same \/ new = 0 THEN {} ELSE {g \in Firing(db, t) : c \in g.cols}
        hlcs == IF on # {} THEN [old.cols EXCEPT ![c] = new] ELSE old.cols
        given == Gives(old.given, t, IF same THEN {} ELSE {c}, h)
    IN  MarkDirty([db EXCEPT !.tab[t].rows[k] = [hlc |-> new, cols |-> hlcs, given |-> given]],
                  {g.of : g \in on})

\* On a conflict the transformer's own assignments stamp the row and the column, whatever
\* the column and its value. json_set leaves a NULL map, of a row no trigger saw, NULL.
UpsertRow(db, t, k, c, same, h) ==
    IF k \notin RowKeys(db, t) THEN InsertRow(db, t, k, h)
    ELSE LET u == UpdateRow(db, t, k, c, same, h)
         IN  IF h # 0 /\ db.tab[t].rows[k].cols # NoHlcs
             THEN [u EXCEPT !.tab[t].rows[k].cols[c] = h] ELSE u

\* Fault: the trigger writes the log's own name where the table's belongs.
LogsOwnName(db, t, ks) ==
    LET on == Firing(db, t) IN
    MarkDirty([db EXCEPT !.tab[t].rows = [k \in Keys |-> IF k \in ks THEN None ELSE @[k]],
                         !.log = @ \cup ({DeletedRows : g \in on} \X ks)],
              IF on # {} /\ ks # {} THEN {DeletedRows} ELSE {})

\* z_dirty_<table>_delete logs each row that goes and marks the delete log.
DeleteRows(db, t, ks) ==
    LET on == Firing(db, t) IN
    MarkDirty([db EXCEPT !.tab[t].rows = [k \in Keys |-> IF k \in ks THEN None ELSE @[k]],
                         !.log = @ \cup ({g.of : g \in on} \X ks)],
              IF on # {} /\ ks # {} THEN {DeletedRows} ELSE {})

\* The child rows that ON DELETE CASCADE takes along.
Cascaded(db, t, ks) ==
    IF conn.fk /\ t = db.ref THEN ks \cap RowKeys(db, Child) ELSE {}
Cascade(db, t, ks) ==
    IF Cascaded(db, t, ks) = {} THEN db ELSE DeleteRows(db, Child, Cascaded(db, t, ks))

\* RENAME TO keeps the table's triggers and moves the references to it.
RenameTable(db, t, u) ==
    [db EXCEPT !.tab = [n \in Names |-> IF n = u THEN db.tab[t]
                                        ELSE IF n = t THEN None ELSE db.tab[n]],
               !.ref = IF @ = t THEN u ELSE @]

\* INSERT INTO t (...) SELECT ... with the CRDT columns among them. With the gate on,
\* the insert trigger would make a new column map of the row's HLC.
CopyRows(db, t, u) ==
    LET from == db.tab[u]
        Mapped(row) == IF Firing(db, t) = {} THEN row
                       ELSE [row EXCEPT !.cols = [c \in Cols |->
                                IF c \in Tracked(db, t) THEN row.hlc ELSE 0]]
    IN  MarkDirty([db EXCEPT !.tab[t].rows = [k \in Keys |->
                                 IF k \in RowKeys(db, u) THEN Mapped(from.rows[k]) ELSE @[k]],
                             !.tab[t].loose = @ \/ from.loose],
                  IF RowKeys(db, u) # {} THEN {g.of : g \in Firing(db, t)} ELSE {})

\* Statements SQLite accepts; the others fail. A stamped write names the CRDT columns.
Runs(db, s) ==
    LET t == s.table IN
    CASE s.op = "query"  -> TRUE
      [] s.op = "insert" -> /\ Exists(db, t) /\ s.key \notin RowKeys(db, t)
                            /\ s.hlc # 0 => IsCrdt(db, t)
                            /\ conn.fk /\ t = Child => s.key \in RowKeys(db, db.ref)
      [] s.op = "upsert" -> /\ Exists(db, t) /\ s.col \in db.tab[t].cols
                            /\ s.hlc # 0 => IsCrdt(db, t)
                            /\ conn.fk /\ t = Child => s.key \in RowKeys(db, db.ref)
      [] s.op = "update" -> /\ s.key \in RowKeys(db, t) /\ s.col \in db.tab[t].cols
                            /\ s.hlc # 0 => IsCrdt(db, t)
      [] s.op = "delete" -> Exists(db, t)
      [] s.op = "create" -> ~Exists(db, t)
      [] s.op = "add"    -> Exists(db, t) /\ s.col \notin db.tab[t].cols
      [] s.op = "remove" -> /\ Exists(db, t) /\ s.col \in db.tab[t].cols
                            /\ \A g \in db.tab[t].trig : s.col \notin g.cols
      [] s.op = "rename" -> Exists(db, t) /\ ~Exists(db, s.other)
      [] s.op = "drop"   -> Exists(db, t)
      [] s.op = "copy"   -> /\ Exists(db, t) /\ Exists(db, s.other)
                            /\ RowKeys(db, t) \cap RowKeys(db, s.other) = {}

Unguarded == ~call.guard
SetCols(db, t, cs) == [db EXCEPT !.tab[t].cols = cs,
                                 !.tab[t].loose = @ \/ (db.tab[t].crdt /\ Unguarded)]

Effect(db, s) ==
    LET t == s.table IN
    CASE s.op = "query"  -> db
      [] s.op = "insert" -> InsertRow(db, t, s.key, s.hlc)
      [] s.op = "upsert" -> UpsertRow(db, t, s.key, s.col, s.same, s.hlc)
      [] s.op = "update" -> UpdateRow(db, t, s.key, s.col, s.same, s.hlc)
      [] s.op = "delete" -> LET ks == {s.key} \cap RowKeys(db, t)
                            IN  Cascade(DeleteRows(db, t, ks), t, ks)
      [] s.op = "create" -> [db EXCEPT !.tab[t] =
                               [crdt |-> s.hlc # 0, cols |-> {s.col}, trig |-> {}, rows |-> NoRows,
                                loose |-> s.hlc # 0 /\ Unguarded]]
      [] s.op = "add"    -> SetCols(db, t, db.tab[t].cols \cup {s.col})
      [] s.op = "remove" -> SetCols(db, t, db.tab[t].cols \ {s.col})
      [] s.op = "rename" -> RenameTable(SetCols(db, t, db.tab[t].cols), t, s.other)
      [] s.op = "drop"   -> [Cascade(db, t, RowKeys(db, t)) EXCEPT !.tab[t] = None]
      [] s.op = "copy"   -> CopyRows(db, t, s.other)

\* Tables whose rows the statement writes: what preupdate_hook passes to
\* record_change. DROP TABLE visits the rows of a referenced table only, without
\* its triggers.
Touched(db, s) ==
    LET t == s.table
        ks == IF s.op = "delete" THEN {s.key} \cap RowKeys(db, t)
              ELSE IF s.op = "drop" /\ conn.fk /\ t = db.ref THEN RowKeys(db, t) ELSE {}
        own == IF ks # {} THEN {t} ELSE {}
        children == IF Cascaded(db, t, ks) # {} THEN {Child} ELSE {}
        logged == {n \in children \cup (IF s.op = "delete" THEN own ELSE {}) : Firing(db, n) # {}}
    IN  CASE s.op \in {"insert", "upsert", "update"} -> {t}
          [] s.op \in {"delete", "drop"} ->
                own \cup children \cup (IF logged # {} THEN {DeletedRows} ELSE {})
          [] s.op = "copy" /\ RowKeys(db, s.other) # {} -> {t}
          [] OTHER -> {}

-----------------------------------------------------------------------------
(* SQLite transactions and the hooks on the connection.                    *)

Held == ~auto \/ savepoint # None

\* Fault: commit_hook publishes what the committing statement wrote, not the set.
PublishesLastOnly(db, ts, held) ==
    /\ work' = db
    /\ IF held
       THEN /\ changed' = changed \cup ts
            /\ UNCHANGED <<disk, reported>>
       ELSE /\ disk' = db
            /\ changed' = {}
            /\ reported' = reported \cup ts

\* The connection's database becomes db after ts were written. Unless a
\* transaction stays open the change is committed, and commit_hook publishes.
Settle(db, ts, held) ==
    /\ work' = db
    /\ IF held
       THEN /\ changed' = changed \cup ts
            /\ UNCHANGED <<disk, reported>>
       ELSE /\ disk' = db
            /\ changed' = {}
            /\ reported' = reported \cup changed \cup ts

\* ROLLBACK, by whoever: rollback_hook clears the HLC slot and the tables.
RolledBack ==
    /\ work' = disk /\ savepoint' = None /\ auto' = TRUE
    /\ changed' = {} /\ txHlc' = 0
    /\ UNCHANGED <<disk, reported>>

\* schema::rollback: ROLLBACK TO, then RELEASE.
RolledBackToSavepoint ==
    /\ Settle(savepoint, {}, ~auto)
    /\ savepoint' = None
    /\ UNCHANGED <<auto, txHlc>>

-----------------------------------------------------------------------------
(* Write calls.                                                            *)

Init ==
    /\ disk = FirstDb /\ work = FirstDb /\ base = FirstDb /\ before = FirstDb
    /\ savepoint = None /\ auto = TRUE
    /\ conn = AtRest /\ call = NoCall /\ pc = "idle" /\ stmt = None
    /\ bytes = 0 /\ aborted = FALSE /\ changed = {} /\ txHlc = 0 /\ clock = FirstDb.hlc
    /\ steps = 0 /\ calls = 0
    /\ failed = FALSE /\ did = {} /\ unnoted = FALSE /\ reported = {} /\ result = "ok"

\* Database::write and write_guarded_with up to the closure; in schema mode
\* with_fk_disabled comes before the transaction.
BeginWrite(guard, schema, local) ==
    /\ pc = "idle" /\ calls < MaxCalls
    /\ (schema \/ local) => guard
    /\ call' = [guard |-> guard, schema |-> schema, local |-> local, wasFk |-> conn.fk]
    /\ conn' = [conn EXCEPT !.fk = @ /\ ~schema]
    /\ pc' = "closure" /\ auto' = FALSE
    /\ calls' = calls + 1
    /\ bytes' = 0 /\ aborted' = FALSE
    /\ base' = disk /\ before' = disk /\ failed' = FALSE /\ did' = {} /\ reported' = {}
    /\ result' = "ok"
    /\ UNCHANGED <<disk, work, savepoint, changed, txHlc, stmt, clock, steps, unnoted>>

\* The closure runs its next statement (ensure_open).
NextStatement(s) ==
    /\ pc = "closure" /\ ~aborted
    /\ s \in Statements /\ steps < MaxStatements
    /\ steps' = steps + 1
    /\ UNCHANGED <<call, calls, aborted, base, did, result>>

\* charge. All counts over the limit are one here, to bound the model: the code
\* adds on, and refuses them alike.
Charged(s) == Min({bytes + s.bytes, MaxBytes + 1})

\* The error goes back to the closure, before anything was run.
Refused ==
    /\ failed' = TRUE /\ before' = work
    /\ UNCHANGED <<sqlite, conn, pc, stmt, clock, unnoted>>

\* The statement's guard window opens; run_guarded.
Start(s) ==
    /\ pc' = "running" /\ stmt' = s
    /\ conn' = [conn EXCEPT !.auth = IF call.guard THEN "guard" ELSE @]

\* schema::transforms_in_local_mode.
TransformsInLocalMode(s) ==
    /\ s.op # "create"
    /\ s.op \in {"insert", "upsert", "update"} => IsCrdt(work, s.table)
Transforms(s) == call.guard /\ call.local => TransformsInLocalMode(s)

\* schema::check_rename, of guarded writes only.
CrossesBoundary(s) == call.guard /\ s.op = "rename" /\ (Synced(s.table) # Synced(s.other))

\* SchemaChange::of what the transformer reported.
ChangesSchema(s) ==
    call.guard /\ s.hlc # 0 /\ s.op \in {"create", "add", "remove", "rename"}

\* A SELECT: not charged, not stamped.
Query(s) ==
    /\ NextStatement(s) /\ s.op = "query"
    /\ Start(s)
    /\ before' = work
    /\ UNCHANGED <<sqlite, bytes, clock, failed, unnoted>>

\* TransactionTooLarge, or a rename across the _no_sync boundary. The bytes
\* stay counted.
Refuse(s) ==
    /\ NextStatement(s) /\ s.op \notin {"query", "copy"}
    /\ bytes' = Charged(s)
    /\ bytes' > MaxBytes \/ CrossesBoundary(s)
    /\ Refused

\* prepare of a write: charge, then in local mode no more for a plain table.
PrepareLocal(s) ==
    /\ NextStatement(s) /\ s.op \notin {"query", "copy"}
    /\ bytes' = Charged(s) /\ bytes' <= MaxBytes /\ ~CrossesBoundary(s)
    /\ ~Transforms(s)
    /\ Start(s)
    /\ before' = work
    /\ UNCHANGED <<sqlite, clock, failed, unnoted>>

\* prepare of a write that transform_write stamps: the transaction's HLC is
\* drawn once and persisted with every statement.
PrepareStamped(s) ==
    LET h == IF txHlc = 0 THEN clock + 1 ELSE txHlc
        st == [s EXCEPT !.hlc = IF Synced(s.table) THEN h ELSE 0]
    IN
    /\ NextStatement(s) /\ s.op \notin {"query", "copy"}
    /\ bytes' = Charged(s) /\ bytes' <= MaxBytes /\ ~CrossesBoundary(s)
    /\ Transforms(s)
    /\ Settle([work EXCEPT !.hlc = h], {}, Held)
    /\ txHlc' = IF Held THEN h ELSE 0
    /\ clock' = Max({h, clock})
    /\ before' = work'
    /\ IF ChangesSchema(st) THEN pc' = "prepared" /\ stmt' = st /\ UNCHANGED conn
                            ELSE Start(st)
    /\ UNCHANGED <<savepoint, auto, failed, unnoted>>

\* SQLite rolls the transaction back while the crate persists the HLC. prepare
\* returns the error without note_rollback.
PersistFailsHard(s) ==
    /\ NextStatement(s) /\ s.op \notin {"query", "copy"}
    /\ bytes' = Charged(s) /\ bytes' <= MaxBytes /\ ~CrossesBoundary(s) /\ Transforms(s)
    /\ RolledBack
    /\ clock' = clock + (IF txHlc = 0 THEN 1 ELSE 0)
    /\ failed' = TRUE /\ before' = work' /\ unnoted' = TRUE
    /\ UNCHANGED <<conn, pc, stmt>>

\* schema::begin: the savepoint, then DROP TRIGGER for an ALTER of a synced table.
DropTriggers(db, t) == [db EXCEPT !.tab[t].trig = {g \in @ : g.of # t}]
\* Fault: the savepoint is opened after the triggers are dropped.
SavepointAfterDrop ==
    LET t == stmt.table
        dropped == IF stmt.op # "create" /\ IsCrdt(work, t)
                   THEN [work EXCEPT !.tab[t].trig = {g \in @ : g.of # t}] ELSE work
    IN
    /\ pc = "prepared"
    /\ savepoint' = dropped
    /\ Settle(dropped, {}, TRUE)
    /\ Start(stmt)
    /\ UNCHANGED <<auto, txHlc, call, handle, steps, calls, history>>

BeginSchemaChange ==
    LET t == stmt.table IN
    /\ pc = "prepared"
    /\ savepoint' = work
    /\ Settle(IF stmt.op # "create" /\ IsCrdt(work, t) THEN DropTriggers(work, t) ELSE work,
              {}, TRUE)
    /\ Start(stmt)
    /\ UNCHANGED <<auto, txHlc, call, handle, steps, calls, history>>

\* It fails, say for a temporary table of the same name: rolled back to the
\* savepoint. When SQLite rolls back more than that, nobody notes it.
BeginSchemaChangeFails ==
    /\ pc = "prepared"
    /\ \/ UNCHANGED <<sqlite, unnoted>>
       \/ RolledBack /\ unnoted' = TRUE
    /\ pc' = "closure" /\ stmt' = None /\ failed' = TRUE
    /\ UNCHANGED <<conn, call, handle, steps, calls, base, before, did, result>>

\* copy_rows_verbatim outside schema mode, between a synced table and another, or
\* over the limit.
MayCopy(s) == IsCrdt(work, s.table) = IsCrdt(work, s.other)
RefuseCopy(s) ==
    /\ NextStatement(s) /\ s.op = "copy"
    /\ IF call.schema /\ MayCopy(s) THEN bytes' = Charged(s) /\ bytes' > MaxBytes
                                    ELSE bytes' = bytes
    /\ Refused

\* Fault: the copy runs with the triggers on.
CopyWithTriggersOn(s) ==
    /\ NextStatement(s) /\ s.op = "copy" /\ call.schema /\ MayCopy(s)
    /\ bytes' = Charged(s) /\ bytes' <= MaxBytes
    /\ before' = work /\ savepoint' = work
    /\ Settle(work, {}, TRUE)
    /\ Start(s)
    /\ UNCHANGED <<auto, txHlc, clock, failed, unnoted>>

\* copy_rows_verbatim up to the copy: the savepoint and the gate switched off.
BeginCopy(s) ==
    /\ NextStatement(s) /\ s.op = "copy" /\ call.schema /\ MayCopy(s)
    /\ bytes' = Charged(s) /\ bytes' <= MaxBytes
    /\ before' = work /\ savepoint' = work
    /\ Settle([work EXCEPT !.gate = FALSE], {}, TRUE)
    /\ Start(s)
    /\ UNCHANGED <<auto, txHlc, clock, failed, unnoted>>

\* It fails, without note_rollback.
BeginCopyFails(s) ==
    /\ NextStatement(s) /\ s.op = "copy" /\ call.schema /\ MayCopy(s)
    /\ bytes' = Charged(s) /\ bytes' <= MaxBytes
    /\ \/ UNCHANGED <<sqlite, unnoted>>
       \/ RolledBack /\ unnoted' = TRUE
    /\ failed' = TRUE /\ before' = work'
    /\ UNCHANGED <<conn, pc, stmt, clock>>

InSavepoint == ChangesSchema(stmt) \/ stmt.op = "copy"

\* The window closes: uninstall puts the connection's own authorizer back.
Uninstalled == conn' = [conn EXCEPT !.auth = "none"]
ToClosure == pc' = "closure" /\ stmt' = None

\* The caller's statement runs.
Execute ==
    /\ pc = "running" /\ Runs(work, stmt)
    /\ Settle(Effect(work, stmt), Touched(work, stmt), Held)
    /\ txHlc' = IF Held THEN txHlc ELSE 0
    /\ did' = did \cup {<<stmt.op, stmt.table, stmt.other>>}
    /\ Uninstalled
    /\ IF InSavepoint THEN pc' = "ran" /\ UNCHANGED <<stmt, failed>>
                      ELSE ToClosure /\ failed' = FALSE
    /\ UNCHANGED <<savepoint, auto, call, handle, steps, calls, base, before, unnoted, result>>

\* It fails alone: denied by the authorizer, over the value limit, a constraint.
\* preupdate_hook may have seen rows that the failure takes back. finish, or run after
\* the rollback to the savepoint, notes a transaction that is gone.
ExecuteFails ==
    /\ pc = "running"
    /\ IF InSavepoint THEN RolledBackToSavepoint
       ELSE /\ \E ts \in {{}, IF Runs(work, stmt) THEN Touched(work, stmt) ELSE {}} :
                 Settle(work, IF Held THEN ts ELSE {}, Held)
            /\ UNCHANGED <<savepoint, auto, txHlc>>
    /\ aborted' = (auto /\ stmt.op # "copy")
    /\ Uninstalled /\ ToClosure /\ failed' = TRUE
    /\ UNCHANGED <<call, bytes, clock, steps, calls, base, before, did, unnoted, result>>

\* Fault: finish does not look at is_autocommit (no note_rollback).
RollbackNotNoted ==
    /\ pc = "running"
    /\ RolledBack
    /\ Uninstalled /\ ToClosure /\ failed' = TRUE
    /\ UNCHANGED <<aborted, call, bytes, clock, steps, calls, base, before, did, unnoted, result>>

\* SQLite rolls the whole transaction back in it; finish sees it (note_rollback).
ExecuteFailsHard ==
    /\ pc = "running"
    /\ RolledBack
    /\ aborted' = TRUE
    /\ Uninstalled /\ ToClosure /\ failed' = TRUE
    /\ UNCHANGED <<call, bytes, clock, steps, calls, base, before, did, unnoted, result>>

\* The progress callback interrupts it. SQLite rolls back the transaction of an
\* interrupted write, not of a SELECT; aborted is set either way.
Interrupt ==
    /\ pc = "running" /\ call.guard
    /\ \/ stmt.op # "query" /\ RolledBack
       \/ InSavepoint /\ RolledBackToSavepoint
       \/ ~InSavepoint /\ UNCHANGED sqlite
    /\ aborted' = TRUE
    /\ Uninstalled /\ ToClosure /\ failed' = TRUE
    /\ UNCHANGED <<call, bytes, clock, steps, calls, base, before, did, unnoted, result>>

\* Fault: the triggers are recreated under the old name.
OldName == stmt.table

\* schema::complete: triggers for the table under its (new) name, RELEASE.
NameAfter == IF stmt.op = "rename" THEN stmt.other ELSE stmt.table
SetupTriggers(db, t) ==
    [db EXCEPT !.tab[t].trig =
        {g \in @ : g.of # t} \cup {[of |-> t, cols |-> Shipped(db.tab[t].cols)]}]
CompleteSchemaChange ==
    /\ pc = "ran" /\ stmt.op # "copy"
    /\ Settle(IF IsCrdt(work, NameAfter) THEN SetupTriggers(work, NameAfter) ELSE work,
              {}, ~auto)
    /\ savepoint' = None /\ failed' = FALSE
    /\ ToClosure
    /\ UNCHANGED <<auto, txHlc, conn, call, handle, steps, calls, base, before, did, unnoted, result>>

\* complete fails (a table without a primary key): rollback, then note_rollback.
CompleteSchemaChangeFails ==
    /\ pc = "ran" /\ stmt.op # "copy"
    /\ \/ RolledBackToSavepoint
       \/ RolledBack
    /\ aborted' = auto'
    /\ ToClosure /\ failed' = TRUE
    /\ did' = did \ {<<stmt.op, stmt.table, stmt.other>>}
    /\ UNCHANGED <<conn, call, bytes, clock, steps, calls, base, before, unnoted, result>>

\* schema::end_verbatim_copy: the gate as it was, RELEASE.
EndCopy ==
    /\ pc = "ran" /\ stmt.op = "copy"
    /\ Settle([work EXCEPT !.gate = savepoint.gate], {}, ~auto)
    /\ savepoint' = None /\ failed' = FALSE
    /\ ToClosure
    /\ UNCHANGED <<auto, txHlc, conn, call, handle, steps, calls, base, before, did, unnoted, result>>

\* It fails: rollback, without note_rollback.
EndCopyFails ==
    /\ pc = "ran" /\ stmt.op = "copy"
    /\ \/ RolledBackToSavepoint /\ UNCHANGED unnoted
       \/ RolledBack /\ unnoted' = TRUE
    /\ ToClosure /\ failed' = TRUE
    /\ did' = did \ {<<stmt.op, stmt.table, stmt.other>>}
    /\ UNCHANGED <<conn, call, handle, steps, calls, base, before, result>>

\* Fault: the pragma is restored only when the call succeeds.
RestoreOnSuccessOnly(r) ==
    /\ result' = r
    /\ pc' = "idle" /\ stmt' = None
    /\ conn' = [conn EXCEPT !.fk = IF call.schema /\ r = "ok" THEN call.wasFk ELSE @,
                            !.auth = "none"]
    /\ bytes' = 0 /\ aborted' = FALSE /\ before' = disk' /\ failed' = FALSE
    /\ UNCHANGED <<clock, steps, calls, call, base, did, unnoted>>

\* The call returns r; with_fk_disabled restores the pragma, unwinding or not.
Return(r) ==
    /\ result' = r
    /\ pc' = "idle" /\ stmt' = None
    /\ conn' = [conn EXCEPT !.fk = IF call.schema THEN call.wasFk ELSE @, !.auth = "none"]
    /\ bytes' = 0 /\ aborted' = FALSE /\ before' = disk' /\ failed' = FALSE
    /\ UNCHANGED <<clock, steps, calls, call, base, did, unnoted>>

\* Fault: no foreign_key_check before COMMIT.
UncheckedCommit == ~aborted

MayCommit == ~aborted /\ (call.schema => Orphans(work) = {})

\* run_write after the closure returned Ok: ensure_open, foreign_key_check, COMMIT.
Commit ==
    /\ pc = "closure" /\ MayCommit /\ ~auto
    /\ Settle(work, {}, FALSE)
    /\ auto' = TRUE /\ txHlc' = 0 /\ UNCHANGED savepoint
    /\ Return("ok")

\* COMMIT fails after commit_hook ran; dropping the transaction rolls back.
CommitFails ==
    /\ pc = "closure" /\ MayCommit /\ ~auto
    /\ work' = disk /\ auto' = TRUE /\ changed' = {} /\ txHlc' = 0
    /\ reported' = reported \cup changed
    /\ UNCHANGED <<disk, savepoint>>
    /\ Return("uncommitted")

\* The closure returned Err or panicked, a check before COMMIT failed, or there is
\* no transaction left to commit. A panic in the caller's statement comes through
\* run_guarded, which uninstalls first.
Abandon ==
    /\ pc \in {"closure", "running"}
    /\ RolledBack
    /\ Return("err")

\* The process dies.
Crash ==
    /\ pc \notin {"idle", "closed"}
    /\ RolledBack
    /\ result' = IF pc \in {"read", "reading"} THEN result ELSE "crash"
    /\ pc' = "closed" /\ call' = NoCall /\ stmt' = None /\ conn' = AtRest
    /\ bytes' = 0 /\ aborted' = FALSE /\ before' = disk' /\ failed' = FALSE
    /\ clock' = disk.hlc
    /\ UNCHANGED <<steps, calls, base, did, unnoted>>

-----------------------------------------------------------------------------
(* Rows that have no HLC yet.                                              *)

Unstamped(db, t) == {k \in RowKeys(db, t) : db.tab[t].rows[k].hlc = 0}

\* Row HLC and column map of all such rows of the tables ts, but for the columns skip,
\* and the dirty marks.
StampRows(db, ts, skip, h) ==
    LET Stamp(t) ==
            LET cs == db.tab[t].cols \ skip
            IN  [hlc |-> h, cols |-> [c \in Cols |-> IF c \in cs THEN h ELSE 0],
                 given |-> Gives([c \in Cols |-> None], t, cs, h)]
        Stamped(t) == [k \in Keys |-> IF k \in Unstamped(db, t) THEN Stamp(t)
                                                              ELSE db.tab[t].rows[k]]
        tab == [t \in Names |-> IF t \in ts THEN [db.tab[t] EXCEPT !.rows = Stamped(t)]
                                            ELSE db.tab[t]]
    IN  MarkDirty([db EXCEPT !.tab = tab, !.hlc = h], ts)

\* stamp_unstamped_rows: one HLC for the whole pass, none when there is nothing to do.
StampUnstampedRows(db) ==
    LET pending == {t \in Names : IsCrdt(db, t) /\ Unstamped(db, t) # {}}
    IN  IF pending = {} THEN db ELSE StampRows(db, pending, NoSyncCols, db.hlc + 1)

\* Database::open after the crash.
Reopen ==
    /\ pc = "closed" /\ pc' = "idle"
    /\ disk' = StampUnstampedRows(disk) /\ work' = disk' /\ clock' = disk'.hlc
    /\ base' = disk' /\ before' = disk' /\ did' = {} /\ reported' = {}
    /\ UNCHANGED <<savepoint, auto, changed, txHlc, conn, call, stmt, bytes, aborted,
                   steps, calls, failed, unnoted, result>>

\* ensure_crdt_columns_and_triggers: triggers of the right names are kept as they are.
EnsureCrdt(db, t) ==
    LET on == [db EXCEPT !.tab[t].crdt = TRUE]
    IN  IF \E g \in on.tab[t].trig : g.of = t THEN on
        ELSE [on EXCEPT !.tab[t].trig = @ \cup {[of |-> t, cols |-> Shipped(db.tab[t].cols)]}]

\* A call of install_crdt, all of it one transaction. A table that carries the CRDT
\* columns gets its triggers and no backfill, if allow_reinstall is set. backfill stamps
\* _no_sync columns too.
InstallCrdt(t) ==
    LET on == EnsureCrdt(disk, t)
        fresh == ~IsCrdt(disk, t) /\ RowKeys(disk, t) # {}
    IN
    /\ pc = "idle" /\ calls < MaxCalls /\ Exists(disk, t)
    /\ calls' = calls + 1
    /\ disk' = IF fresh THEN StampRows(on, {t}, {}, clock + 1) ELSE on
    /\ clock' = IF fresh THEN clock + 1 ELSE clock
    /\ reported' = IF fresh THEN {t} ELSE {}
    /\ work' = disk' /\ base' = disk /\ before' = disk'
    /\ call' = NoCall /\ did' = {} /\ result' = "ok"
    /\ UNCHANGED <<savepoint, auto, changed, txHlc, conn, pc, stmt, bytes, aborted, steps,
                   failed, unnoted>>

\* It fails: CRDT columns without allow_reinstall, no such table, no primary key, a
\* signature that cannot be made. Dropping the transaction takes all back but the draw.
InstallCrdtFails ==
    /\ pc = "idle" /\ calls < MaxCalls
    /\ calls' = calls + 1
    /\ clock' \in {clock, clock + 1}
    /\ base' = disk /\ reported' = {}
    /\ call' = NoCall /\ did' = {} /\ result' = "err"
    /\ UNCHANGED <<disk, work, savepoint, auto, changed, txHlc, conn, pc, stmt, bytes, aborted,
                   steps, before, failed, unnoted>>

-----------------------------------------------------------------------------
(* Read calls.                                                             *)

\* run_read up to the closure: PRAGMA query_only, the read-only rule.
BeginRead(guard) ==
    /\ pc = "idle" /\ calls < MaxCalls
    /\ call' = [NoCall EXCEPT !.guard = guard]
    /\ conn' = [conn EXCEPT !.auth = "readonly", !.queryOnly = TRUE]
    /\ pc' = "read" /\ calls' = calls + 1
    /\ UNCHANGED <<sqlite, stmt, handle, steps, history>>

\* A statement of the closure; a guard narrows the read-only rule while it runs.
ReadStatement ==
    /\ pc = "read"
    /\ pc' = "reading"
    /\ conn' = [conn EXCEPT !.auth = IF call.guard THEN "both" ELSE @]
    /\ UNCHANGED <<sqlite, call, stmt, handle, steps, calls, history>>

\* It ends or fails; uninstall leaves the read-only rule.
ReadStatementEnds ==
    /\ pc = "reading"
    /\ pc' = "read"
    /\ conn' = [conn EXCEPT !.auth = "readonly"]
    /\ UNCHANGED <<sqlite, call, stmt, handle, steps, calls, history>>

\* The closure returns or panics.
EndRead ==
    /\ pc \in {"read", "reading"}
    /\ conn' = [conn EXCEPT !.auth = "none", !.queryOnly = FALSE]
    /\ pc' = "idle" /\ call' = NoCall
    /\ UNCHANGED <<sqlite, stmt, handle, steps, calls, history>>

Next ==
    \/ \E g, s, l \in BOOLEAN : BeginWrite(g, s, l)
    \/ \E s \in Statements :
          \/ Query(s) \/ Refuse(s) \/ PrepareLocal(s) \/ PrepareStamped(s)
          \/ PersistFailsHard(s) \/ RefuseCopy(s) \/ BeginCopy(s) \/ BeginCopyFails(s)
    \/ BeginSchemaChange \/ BeginSchemaChangeFails
    \/ Execute \/ ExecuteFails \/ ExecuteFailsHard \/ Interrupt
    \/ CompleteSchemaChange \/ CompleteSchemaChangeFails \/ EndCopy \/ EndCopyFails
    \/ Commit \/ CommitFails \/ Abandon \/ Crash \/ Reopen
    \/ \E t \in Names : InstallCrdt(t)
    \/ InstallCrdtFails
    \/ \E g \in BOOLEAN : BeginRead(g)
    \/ ReadStatement \/ ReadStatementEnds \/ EndRead

Spec == Init /\ [][Next]_vars

-----------------------------------------------------------------------------
(* Properties.                                                             *)

\* "On Err or a panic the transaction rolls back and nothing is written"
\* (write.rs): until the call returns Ok the file is as it was, whatever failed
\* on the way and whatever the closure did about it.
NothingWrittenOnErr ==
    /\ pc \notin {"read", "reading"}
    /\ pc \in {"idle", "closed"} => result # "ok"
    => disk = base

\* The same as far as the handle can know: unless SQLite rolled the transaction
\* back inside a statement of the crate that returns without note_rollback.
NothingWrittenOnNotedErr == ~unnoted => NothingWrittenOnErr

\* A statement that fails leaves schema, triggers, gate and rows as they were before
\* it, so the closure can go on (schema.rs: statement and upkeep share a savepoint).
FailedStatementUndone ==
    pc = "closure" /\ failed /\ ~auto => work = before

\* Every synced table with CRDT columns has exactly its own triggers, over exactly its
\* own columns that ship, after every guarded statement and in the file (schema.rs). Unguarded
\* DDL gets no triggers and is left out, and so is a _no_sync table that install_crdt
\* opted in: the transformer reports no change of it.
TableInStep(db, t) ==
    Exists(db, t) /\ ~db.tab[t].loose =>
        LET tb == db.tab[t]
        IN  tb.trig = IF tb.crdt THEN {[of |-> t, cols |-> Shipped(tb.cols)]} ELSE {}
InStep(db) == \A t \in Names \ NoSync : TableInStep(db, t)
TriggersInStep == InStep(disk) /\ (pc = "closure" => InStep(work))

\* A committed new value is there for peers to get: the column has the HLC of the write
\* that gave it or, after an upsert that changed nothing, a later one; the row's HLC, which
\* the scan looks at first, is not behind it; and the name the table had then is marked
\* dirty. No stamped write ran with the triggers or the gate off. (A write that leaves
\* the value as it was may move HLCs without a mark, and RENAME leaves the mark behind.)
PendingIsMarked ==
    \A t \in Names : Exists(disk, t) /\ ~disk.tab[t].loose =>
        \A k \in RowKeys(disk, t) : \A c \in Shipped(Cols) :
            LET row == disk.tab[t].rows[k]
                last == row.given[c]
            IN  last # None => /\ last.hlc <= row.cols[c] /\ row.cols[c] <= row.hlc
                               /\ last.as \in disk.dirty

\* A committed schema-mode call of DDL and verbatim copies has nothing for peers: no
\* row stamped anew, no delete marker, no dirty mark (write.rs, copy_rows_verbatim).
RowsOf(db) == {<<tk[2], db.tab[tk[1]].rows[tk[2]]>> :
                  tk \in {x \in Names \X Keys : x[2] \in RowKeys(db, x[1])}}
MigrationShipsNothing ==
    /\ pc = "idle" /\ result = "ok" /\ call.schema
    /\ \A d \in did : d[1] \notin {"insert", "upsert", "update", "delete"}
    => /\ RowsOf(disk) \subseteq RowsOf(base)
       /\ disk.log = base.log /\ disk.dirty = base.dirty

\* observe_committed_changes: the observer hears of every table whose rows a
\* committed call changed (DDL aside), and of nothing from a call that was rolled
\* back before COMMIT.
ReportCoversCommit ==
    pc = "idle" =>
        /\ result \in {"err", "crash"} /\ ~unnoted => reported = {}
        /\ result = "ok" =>
             /\ disk.log # base.log => DeletedRows \in reported
             /\ \A t \in Names :
                  /\ Exists(base, t) /\ Exists(disk, t)
                  /\ base.tab[t].rows # disk.tab[t].rows
                  /\ \A d \in did : d[1] \in {"create", "drop", "rename"} => t \notin {d[2], d[3]}
                  => t \in reported

\* Between calls nothing of a call is left: no guard, read-only rule or pragma, the
\* gate on, no transaction, no savepoint, no table or HLC for the next one.
RestoredAtRest ==
    pc = "idle" =>
        /\ conn = AtRest /\ disk.gate
        /\ auto /\ savepoint = None /\ changed = {} /\ txHlc = 0

\* Schema mode runs with foreign keys off and still commits no child row without
\* its parent (foreign_key_check).
NoOrphans == ~unnoted => Orphans(disk) = {}
=============================================================================
