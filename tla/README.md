# A TLA+ model of haex-crdt

haex-crdt is a Rust library that turns an SQLCipher database into a replica of
a column-level last-writer-wins store. An application opens a file through
`Database::open`, writes ordinary SQL, ships what `scan_table_for_local_changes`
returns to its peers over a transport of its own, and hands what it receives to
`apply_remote_changes`. This directory models those parts as state machines,
model-checks them with TLC on small instances, and proves the most important
results with TLAPS for every size.

## 1. The system

| Part | State it keeps | Operations | What makes it correct |
|---|---|---|---|
| HLC service (`crdt/hlc.rs`) | uhlc clock in memory, `hlc` row in the config table | draw, align with the stored value, persist, advance past remote, load on open | no HLC is used by two committed transactions; stamps pass what was heard |
| Connection context and hooks (`db/connection_context.rs`, `db/core/init.rs`) | `tx_hlc_slot`, `write_pending`, change observer | `current_hlc()`, commit, rollback and preupdate hooks | all rows of a transaction carry one HLC |
| Write transactions (`database/write.rs`, `db/core/execute`) | the open transaction, byte count, aborted flag | begin, statements, verbatim copy, commit, rollback | as above; nothing after an internal rollback autocommits |
| Transformer and triggers (`crdt/transformer`, `crdt/insert_transformer.rs`, `crdt/trigger`) | row HLC, column-HLC map, delete log, dirty tables | insert, update, delete on a CRDT table | row HLC at least as new as every column HLC |
| Outbound scanner (`crdt/scanner`) | none; the cursor is the consumer's | scan from a cursor, origin filter, pages under a byte budget | finds what lies beyond the cursor, ships only what was written, drains to the end |
| Apply engine (`crdt/apply`) | one transaction, pragma `foreign_keys`, trigger gate | preflight, group rows, ask the policy, compare columns, write, propagate deletes, commit, advance the clock | atomic, accounts for every change, order-insensitive, brings no deleted row back |
| Delete-log cleanup (`crdt/cleanup`) | delete log, the caller's anchor | prune under a retention policy | prunes only what the anchor covers and what is old enough |
| Lock, migrations, trigger initialisation (`db/lock.rs`, `db/migrations`, `db/init.rs`) | lock file, two journals, trigger version | the steps of `Database::open` | one opener; schema and journal agree; triggers match the release |
| Guarded writes and schema mode (`database/guard.rs`, `database/schema.rs`) | authorizer and progress callback of one statement, savepoint, trigger gate, pragma `foreign_keys` | statements under a guard, DDL with its trigger upkeep, verbatim copies of a table rebuild | a failed statement leaves nothing, triggers follow the schema, a rebuild ships nothing and orphans nobody |
| `install_crdt` and stamping (`database/install.rs`, `database/stamp.rs`) | CRDT columns, triggers and HLCs of rows that had none | install, re-install, stamp on open | such rows travel like any other |
| Signatures, SQL parsing, values, errors | none | pure functions | not modelled |

How they interact. One `Database` owns one connection behind a mutex, so the
threads of a process meet only between operations, except for a wall clock that
respects nobody and a process that may die anywhere. The closure of a write call
decides what happens after an error: it may go on, and then meets whatever the failed
statement left behind. Local statements reach the
clock through `tx_scoped_hlc`; triggers read the same value through
`current_hlc()` and the slot. The apply engine switches triggers and foreign keys
off around its transaction and moves the clock after the commit. Replicas meet
only through pages that the consumer's transport may lose, repeat and reorder.
Processes meet at the lock file.

What is hard here: state in memory and its persisted twin (the clock); a value
that outlives its transaction (the slot); a row HLC that steers scans and deletes
but never travels; deletes and inserts that overtake each other; one step of
several failing inside a batch; settings outside the transaction that must be
restored; a transaction that SQLite ends by itself under a closure that goes on; a
cursor that must not run ahead of what arrived; releases of a consumer that upgrade, downgrade and fork on one file.
`PROJECT.json` lists every hazard at its line with the properties that cover it.

## 2. Modules

    HlcClock   --- HlcClock_proofs        the clock and a transaction's HLC
    Sync       --- Sync_proofs, MCSync    replicas, scans, pages, deliveries
               ->  Drain  --- Drain_proofs,  pulling page by page with cursors
                              MCDrain
    Batches    ->  Merge                  what applying a batch promises
               ->  Apply  --- Apply_proofs,  how the engine does it; implements Merge
                              MCApply
    Write      --- Write_proofs,          write and read calls, schema mode, install_crdt
                   WriteData_proofs,
                   MCWrite
    Cleanup    --- Cleanup_proofs         pruning the delete log
    Startup    --- Startup_proofs,        Database::open by several processes
                   MCStartup

Definitions marked "Fault" (`DeleteMarked`, `CommitWithoutAnchor`) stand before the
definition they vary. They are plausible mistakes in that piece of code, and `Next`
uses none of them; replacing the definition by one of them makes TLC report the property
that `PROJECT.json` pairs with it.

**HlcClock.** `last` is uhlc's `last_time`, `persisted`/`hlcRow` the config row
outside and inside the transaction, `slot`/`pending` the connection context, `wall`
the system clock, which `Tick` and `StepBack` move. `BeginWrite`, `Statement`,
`StatementRefused`, `UnstampedWrite`, `ReadInTx`, `CommitWrite` and `RollbackWrite` are
`Database::write`; `StampRows` is the stamping pass of open and of `install_crdt`;
`ApplyCommits` and `AdvancePastRemote` are the two ends of a remote batch; `Probe`
is a read-only `SELECT current_hlc()`. HLCs are times, since one node draws.

**Sync.** `rows`, `log`, `clock` per replica and `wire`. `Insert`, `Update`,
`Delete` and `Replace` are local statements as the transformer and the triggers
leave them. `Publish` is one scan of one table, the data table or the delete log:
prefilter on the row HLC, the row-HLC fallback for columns without an HLC, the origin
filter. HLCs are numbers, as `compare_hlc_strings` orders them; the prefilter is SQL and
compares the strings (`TextAfter`), in which node ids of one time stand in another order
(`NodeText`). `Deliver` is one whole `apply_remote_changes`, on a page that ends at an HLC
boundary, and leaves the scan on the wire, so that pages come again; `Join` puts scans of
both tables, made at different times, into one batch; `Lose` takes a scan off the wire. A value is
named by the HLC of the transaction that wrote it, so a property can ask whether
a shipped change was ever made.

**Batches, Merge, Apply.** `Apply` opens `Deliver` up: `Preflight` (a rejected batch
changes nothing), `Begin`, one row group at a time (`SkipGroup`, `PrepareRow` with any
policy decision), one column at a time (`StageColumn`), `WriteNothing`, `WriteRow`,
`InsertConstraint`, then `PropagateDeletes`, `Commit`, `Advance`; `Abort` and `Crash`
anywhere. `Merge` is the promise: a batch lands in one step, as a set
computation over the accepted changes, or the database is as it was. What the policy has
accepted of the batch (`admitted`) and which inserts met a constraint (`refused`) are
answers the call collects from outside and are state of `Merge`; `Apply` has them in
`accepted` and `blocked`, and `MergesAtomically` is `Merge`'s specification under that mapping.
A row also holds, per column, the HLC of the change whose signature is stored; `Kept` are the columns whose
entry the policy leaves alone (`SignatureWrite::Keep`).

**Drain.** `Sync`'s local statements, `Scan` and `Deliver`, with `paginate_changes` under
its budget (`Paginate`) and a cursor per puller, source and table (`Pulls`): each table is
a scan call of its own under its own taking of the connection lock, with writes between
the calls. The loop around them is the consumer's and is modelled as the scanner's docs
describe it: ask for what lies beyond the cursor (`Answer`, one scan of one table), apply the page and resume at its newest HLC (`Receive`), go on while
`has_more`. `LoseAnswer` and `ReceiveUnsaved` (death between the apply and the saving of the
cursor) make it ask again; `LocalWrite` comes at any time.

**Write.** One call on a handle after another. `work` is the database as the connection
sees it, `disk` the committed one, `auto` SQLite's autocommit flag, `savepoint` that of a
schema change or copy, `conn` authorizer and pragmas, `changed` the observer's collection.
`BeginWrite` opens a call (plain, guarded, local mode, schema mode); the closure runs any
of `Statements` in any order and may go on after every error. A statement is prepared
(`Query`, `Refuse`, `PrepareLocal`, `PrepareStamped`), a schema change or copy opens its
savepoint (`BeginSchemaChange`, `BeginCopy`), the caller's SQL runs (`Execute`) or fails alone
(`ExecuteFails`), with the whole transaction (`ExecuteFailsHard`) or by the progress callback
(`Interrupt`), and the upkeep follows (`CompleteSchemaChange`, `EndCopy`). Each crate-owned
step has a failing twin. `Commit`, `CommitFails`, `Abandon`, `Crash` end the call; `Reopen`
stamps rows without an HLC; `InstallCrdt` is one call; `BeginRead` ... `EndRead` are the read
calls. A database is its tables with columns, triggers and rows, the dirty marks, the
delete log, the gate and the stored HLC. Of values a statement says only whether it leaves
them as they were (`same`): the update trigger stamps and marks a tracked column whose
value is new (`NEW IS NOT OLD`), while UPDATE always moves the row HLC and an upsert the
column's too; columns in `NoSyncCols` are not tracked. `given` is history: which stamped
write last gave a column a new value, and under which table name. What SQLite itself does (cascades, RENAME,
which statements are errors) is external and stated in `Runs`, `Cascade`, `RenameTable`.

**Cleanup.** `Start` computes cutoff and maximum from the persisted HLC,
`BeforePrune` is the caller's hook (it may move the persisted HLC), `Prune`, `Commit`,
`Rollback` at any step. HLC times are cast to signed integers as SQLite does it.

**Startup.** Several releases of a consumer open one file. A release is its list of
migrations, their SQL and its trigger version. Each action is one transaction or one
file operation of `Database::open`; `Stop` is a failure, a kill or a closed handle,
anywhere. Paths are names linked to names.

## 3. Runs

| Run | Bounds | Checks |
|---|---|---|
| `clock` | wall clock to 3, times to 6, drift 2, two times per clock reading | one HLC per transaction, none reissued, stamps pass what was heard, a refused advance needs a clock set back |
| `sync` | 2 replicas, 1 key, 2 columns, times to 3, 2 scans in flight, cursors and pages, both origin filters, replaces, node ids whose text order is not their order | `PrefilterHidesOnlyTies`, `NoZombie`, `ClockCovers`, `ColumnsNeverRegress` |
| `sync_agree` | the same, times to 4, whole scans, every update changes a tracked column | `Agreement`, `ShippedAsWritten` |
| `apply` | 2 keys, 1 delete, 2 columns, an unknown column and table, HLCs to 5 with the drift limit at 4, all batches of 1 or 2 changes and all of 3 in descending HLC order | `NoSilentDrop`, `SkipReasonsTrue`, `RestoredAtRest`, `NoZombie`, `MergesAtomically` |
| `drain` | 2 replicas, 1 key, 2 columns, times to 3, a cursor for each of the 2 tables, budget 3 where a column change counts 2, 1 fault | `CursorCovers`, `DrainEnds` |
| `write` | a parent, its child, the name a rebuild uses and a `_no_sync` table, 1 key, 3 columns of which 1 is `_no_sync`, 14 statements, 4 statements in 2 calls, a limit of 1 byte | `NothingWrittenOnNotedErr`, `FailedStatementUndone`, `TriggersInStep`, `PendingIsMarked`, `MigrationShipsNothing`, `ReportCoversCommit`, `RestoredAtRest`, `NoOrphans` |
| `cleanup` | 2 nodes, times to 3, signed maximum 2, windows of 0, 1, 2 days | `AnchorCovers`, `ReportCoversDelete` |
| `startup` | 5 releases, 3 names for the file, 5 initial files | `ExclusiveOpen`, `NeverHalfMigrated`, `OpenMatchesSource`, `RefusedForCause`, `TriggersNotOutdated`, `OpenEnds` |
| `clock_restart`, `sync_forged`, `cleanup_retention`, `write_abort` | as their passing siblings | one documented statement each that the code does not keep; see section 6 |

Why the bounds are enough. `clock`: a times limit of 6 leaves room for a remote HLC
at the drift limit, a restart, a set-back and two more transactions; the theorems
lift it. `sync`: a conflict needs two writers and two columns; the merge treats keys
apart, so one key shows all of it; three HLC times make insert, delete and
re-insert, a fourth an edit of each generation; the node ids are written like 9 and 10
(`LongerIdFirst`), so that the prefilter's order and the merge's part at every tie. `apply`: its batches hold the two
generations of a row around its delete, ties, duplicates and one change of every
kind the code turns down; batches of three are given newest first, the order the
engine has to turn round, since it sorts groups itself. `drain`: one
INSERT sets two columns and exceeds the budget alone, so a page has to break it; three
times leave room for a second transaction and for one of the puller's own. `write`: a
rebuild is create, copy, drop, rename, the four statements of one call, and each of them
can fail in each way; the second call shows what the first left behind; two statements
with a parameter cross the limit; among the edits are one of a `_no_sync` column and an
upsert of the value that is there. `bytes` stops at the first value over the limit, where
the code counts on: both refuse every further write. `cleanup`: the bound puts the
signed boundary (2038 in NTP64) inside the range; a day is 4 HLC units for 1 of
`compute_cutoff_hlc_num`, the real ratio being 4.29. `startup`: the releases are a
first one, one with a second table, one that edited an applied migration, one with
newer triggers and one whose migration fails; the initial files are a new one, one of
v0.1.0 with and without its journal entry, one of an unreleased build and one with a
part of the bookkeeping tables. Consumer tables of v0.1.0 files are left out: their
renaming is the same transaction.

`Agreement` is checked for what can agree: whole scans (a page may hold part of a
row, `sync_forged`), updates of tracked columns (an UPDATE of `_no_sync` columns alone moves
the row HLC, which decides deletes and does not travel), and no delete plus
re-insert of one key in one transaction, where the tie is documented to remove the
row at the peers. `ReportCoversDelete` and `AnchorCovers` compare time parts as the
code does; two entries of one time are told apart by nobody. `CursorCovers` is checked for
scans of a source's own changes (`origin_node`); with three replicas and `Filter = "any"` TLC
refutes it, because a relayed change reaches its relay with an HLC below the cursors of
those who pull from it. It speaks of a cursor per table: a consumer that puts the scans of
several tables into one page under one cursor can end it at a change made after the first
scan and jump over what was written to the first table before that. `PrefilterHidesOnlyTies`
admits what the code does at a tie (section 6) and nothing else. `PendingIsMarked` speaks of
writes that brought a new value. `TriggersInStep` and `PendingIsMarked` leave out tables whose schema
an unguarded write changed: it gives them CRDT columns and no triggers. `TriggersInStep`
speaks of synced tables; a `_no_sync` table that `install_crdt` opted in falls behind its
schema (section 6).

**Fairness.** `Startup` has weak fairness on the steps of an open that is under way, a
thread that runs straight-line code and never waits, the lock being a try-lock. Nobody
has to start or stop an open. `Drain` has weak fairness on the pulls together: while some pull has
something to ask or to apply, one of them goes on, which no step of the crate blocks. No
particular pull is promised a turn; each one's work is finite, so all come to it. Nobody has to write, and losses are bounded (`MaxFaults`), as no drain
ends over a transport that loses everything. The other modules have safety properties
only: when to write, scan and deliver is the consumer's choice.

## 4. Proofs

`HlcClock_proofs` proves, for every counter span, drift and bound, `TypeOK`,
`OneHlcPerTransaction`, `StampsPassHeard`, `AdvanceRefusedOnlyIfSetBack` and
`CommittedHlcsIncrease`. None is inductive. `Inv` adds what ties the pieces of state
together: `ControlInv` (a transaction only while the database is open and no advance
is owed), `ClockInv` (the persisted HLC covers every committed one, the clock covers
the persisted one, a value in the slot lies between), `PinInv` (once rows are
stamped, slot, config row and stamps are one value), `HeardInv` (clock and slot are
past what was heard, or will be when the owed advance runs, unless one was refused)
and `DriftInv` (what is owed is within the drift of the wall clock unless that was
set back). Each action has a lemma; `NewTimestampFresh`,
`UpdateCovers` and `MaskMonotone` carry the arithmetic.

`Sync_proofs` proves, for any number of replicas, keys, columns, HLCs and scans in
flight, `TypeOK`, `NoZombie`, `ClockCovers`, `PrefilterHidesOnlyTies` and
`ColumnsNeverRegress`. `Inv` is `TypeOK`, `RowDominates` (a row HLC is at least every
column HLC of the row), `NoZombie` (a row is newer than every logged delete of its
key) and `ClockCovers`. They need each other: a local write stays above the delete
log because the clock covers the log, and the prefilter hides no more than ties because
the row HLC dominates: a hidden change beyond the cursor has a time that is neither above
the row's nor below the cursor's. That holds for any `NodeText`. `InvIsLocal` reduces `Inv` to one replica and one row, `LocalStep`
treats all local statements at once, `MergeRow` and `DeliverRow` the delivery.

On top of `Inv` it proves `ShippedAsWritten` and `Agreement` for whole scans (`WholeScans`:
no pages, no origin filter), the second when every UPDATE changes a tracked column
(`TrackedOnly`); these are the conditions of the `sync_agree` run, and section 3 says how
both fail without them. `WholeInv`: a row that arrives whole stays whole, every column holds
what the transaction of its HLC wrote, and every batch on the wire carries all columns of
a row or none. `TightInv`: the row HLC is that of one of its columns, so although it does not
travel, two replicas whose full scans are equal have it in common, and deletes fall alike.

`Drain_proofs` proves, for any number of replicas, keys, columns and faults and any budget,
`DrainTypeOK` and, for scans of a source's own changes (`Filter = "own"`), `CursorCovers`.
`CoverInv` says of each pull that up to its cursor the puller has all that the source wrote
itself in that table, and up to the end of the page under way it has it or gets it with
that page (`CoveredBy`). Of one node's changes the text order is the order, so the prefilter
loses none of them. That survives every step of everybody else because of what a step may do
(`Moves`): clocks and logs grow, a column is given up only for a newer delete, and what a
replica says in its own name it said before or is newer than its clock was.

`Startup_proofs` proves, for any number of processes, releases, migrations, tables and
links, `TypeOK`, `ExclusiveOpen`, `NeverHalfMigrated`, `OpenMatchesSource`,
`RefusedForCause` and `TriggersNotOutdated`. `Inv` starts with `LockInv`: a process past
the lock holds the lock file of the one target of all links, hence is alone
(`LockExcludes`). What an open has learnt about the file then stays true until it ends:
`BootInv` (what the schema and its digest may be between the two transactions of the legacy
conversion), `JournalInv` (a migrating process has seen a matching journal, and all
migrations before its position are in it) and `TriggerInv` (all triggers are of the stored
version, which covers the release of whoever is open). `OneProcess` says that a step leaves
the locals of the others alone; each part of `Inv` has a lemma over all actions.

`Cleanup_proofs` proves, for every log, retention window and integer width, `TypeOK`,
`AnchorCovers` and `ReportCoversDelete`. `Inv` carries two facts from the start of the
transaction to its commit: `LogInv` (the DELETE removes what is prunable in the committed
log under the cutoff of the start, and the report is its maximum) and `AnchorInv` (the
transaction's anchor does not fall behind the committed one, and covers the report after
the hook). `AsIntegerMonotone` is all that the saturating cast has to satisfy.

`Write_proofs` proves, for any tables, statements, limits and number of calls,
`NothingWrittenOnNotedErr`, `FailedStatementUndone`, `RestoredAtRest` and `TypeOK`. `FileInv`
says why the file is safe: inside a write the transaction is open or `aborted` is set, and
once it is set no statement runs. `UndoInv` says where the state before a statement is kept
while the statement runs: in `work`, or in the savepoint once a schema change or copy has
opened one. `ConnInv`, `TxInv` and `GateInv` tie the settings, the savepoint and the gate to
`pc`; `EffectKeepsGate` shows that no caller's statement touches the gate. `ShapeInv` adds
what the kind of the statement under way says of call, savepoint, gate and foreign keys.
The types rest on `BoundInv`: every HLC is behind the clock, and the clock is no further than
the statements and calls that draw from it. Two sets of lemmas serve everything else: what a
statement leaves of a database (`EffectWrites`, `EffectDeletes`, `CreatePuts`, `EffectAlters`,
`EffectRenames`, `DropPuts`, `CopyCopies`, `StampStamps`), and `StepMoves`, by which every step
leaves the databases alone, rolls back, goes back to the savepoint, stores an HLC or is
one of the few actions that write.

`WriteData_proofs` proves the invariants about what the calls leave, each with an inductive
invariant over every database the connection has or could fall back to, since a failure may
make any of them the file:

- `TriggersInStep`, if it holds of all tables at the start. `TriggerInv`: outside a schema
  change every table is `Tidy`; inside one the savepoint is, and of the working database
  all but the table being altered, which has no trigger at all (`Bare`). A trigger of another
  table's name never appears because a guarded RENAME has dropped the old ones.
- `NoOrphans`, if the file has no orphans at the start and no statement renames a table to the
  child's name (the model ties the foreign key to that name, so a RENAME would put rows
  under it unchecked). `OrphanInv`: with foreign keys on every statement keeps
  children with their parents; with them off only the check before COMMIT does.
- `ReportCoversCommit`. `ReportInv`: a table whose rows differ from those at the start of the
  call is among `changed`, or a CREATE, DROP or RENAME of it that ran is on record
  (`Covered`). Of the savepoint it says so without the record of the statement that runs on
  it, since going back strikes that record.
- `MigrationShipsNothing`. `ShipInv`: while no DML has run, every row of the transaction and
  of its savepoint is a row of the file with its stamps, markers and marks the same
  (`Quiet`). It needs foreign keys off, so that DROP does not cascade, and the gate off
  during a copy, both from `ShapeInv`.
- `PendingIsMarked`, if at the start the triggers are in step, no row is ahead of the stored
  HLC and the history is empty. `MarkInv` says it of every database the connection may fall
  back to (`Sound`), and with it that no row HLC is above the stored HLC: a later stamp then
  never puts a row HLC behind one of its columns. `StampInv` ties the HLC in a statement's
  text to the one its transaction stored. It uses `TriggerInv`, as the trigger that stamps
  the column has to be there, and `GateInv`, as it has to be on; a copy carries the history of
  the rows it copies.

The instance of the `write` run satisfies the hypotheses of all of these.

`Apply_proofs` proves, for any rows, columns, batches and policies, all invariants of the
`apply` run: `TypeOK`, `NoSilentDrop`, `SkipReasonsTrue`, `RestoredAtRest` and `NoZombie`.
`AccountInv` partitions the batch into undecided, applied and skipped-once changes
(`SkipAccounts` treats all skips at once), with `GroupInv` keeping `todo`, `pending` and
`staged` apart. `ReasonInv` carries a winner for every superseded change: eviction hands the
role on to the newer change (`StageReason`), and rows of changes still to come are as they
were. `DeleteInv` compares rows with the log as it was before the batch (`WriteKeepsNewer`,
by `InsertShadowed`) and, after the propagation, with the log as it is
(`PropagationSweeps`; `ChangedIsInbound` is where the accounting is needed). That the
newest of the winners exists rests on preflight, which bounds them by `Limit`.

The second half of `Apply_proofs` proves that `Apply` implements `Merge` (`MergesAtomically`):
the policy's answers, constraints, the commit and the clock advance are `Merge`'s steps, every
other step is invisible. `MergeInv` is what makes the commit the right one: rows that are
done equal `MergedRows` of the accepted changes (`RowsInv`), the staged changes are the
winners among the columns compared so far, taken from the oldest on (`StageInv`), after the
propagation all rows are swept, which needs the skip list to say exactly which entries were
admitted (`RejectInv`), and `max_accepted_hlc` is the newest HLC that landed (`TopInv`).

Assumptions are the named `ASSUME`s of these modules, on the constants only, and the
hypotheses named above, which stand in the statements of the theorems.

Every invariant, the action property and the refinement that a passing run checks is a
theorem. `OpenEnds` and `DrainEnds` are only model-checked, as liveness under fairness is out
of the prover's reach; so is induction over data and anything about RECURSIVE operators,
which no module uses.

## 5. What is left out

- Values, SQL text, types and encodings: a value is the HLC that wrote it.
- Making and verifying column signatures, the policy's own logic and identifier
  checks: the policy is any choice, a rejected batch one that never starts.
- The consumer's bootstrap hook; row and column filters of a scan, which only make it
  return less; the rows a query returns.
- The ON CONFLICT forms the transformer rejects; a guard that cannot be installed or removed.
- COMMIT, ROLLBACK and SAVEPOINT as statements of the closure itself. The write path does not
  reject them, and a closure that ends its own transaction is on its own:
  `NothingWrittenOnNotedErr` is about the statements in `Ops`.
- HLC times of more than one width: as text they are compared digit by digit, and the
  decimal NTP64 grows from 19 to 20 digits in 2043. A table without a single shipped column,
  whose map is `{}` where the model has the empty map of a row no trigger saw.
- The merge of a v0.1.0 bookkeeping table into a current one that exists beside it;
  `apply_migrations` on an open handle, which repeats steps of open;
  `ensure_triggers_for_all_tables`, which open never calls. (Called by an older release it
  installs triggers of its own shape under the newer version a later release stored.)
- A statement the DDL transformer cannot parse, which a migration runs as it is.
- `db/core/value.rs`, `parsing.rs`, `extract.rs`, `prefix.rs`, the preimages, device id, error
  types and names: pure conversions and constants, no state and no protocol.

## 6. Where code and documentation part

1. `clock_restart`: the advance past remote HLCs is in memory only, so after a restart
   a local write may be stamped below a remote change already in the file, against
   `advance_past_remote`'s "all future local timestamps".
2. `sync_forged`: a row that arrived in part is shipped on with NULLs under the row
   HLC, as if its transaction had written them.
3. `cleanup_retention`: the retention window is counted in nanoseconds, HLC time in
   units of 2^-32 s, so entries go after a quarter of the days asked for.
4. `write_abort`: `note_rollback` follows the caller's statement only. When SQLite rolls the
   transaction back inside a statement of the crate (storing the HLC, a savepoint, the
   gate), the closure's next statement autocommits, and the call's error leaves it in the
   file, against "on `Err` ... nothing is written". `NothingWrittenOnNotedErr` is the part
   that holds.

Smaller ones have no run of their own and stand with their hazards. The scanner's prefilter
compares HLC strings in SQL (`scanner/mod.rs:306`), which `hlc.rs:320` and
`compare_treats_node_ids_numerically_not_lexically` (`hlc/tests.rs:143`) call wrong: a scan of
all origins can miss for good a change of the cursor's own time by another node, since the
next cursor is past it. One cursor over several tables that are scanned by separate calls
can jump over a change. A write that leaves values as they were moves the row HLC, and an
upsert the column HLC, without a dirty mark, and RENAME leaves the mark under the old name. A
read-only `current_hlc()` leaves its HLC to a transaction whose first row is written without a stamp
(harmless, the value is still fresh); an UPDATE of `_no_sync` columns alone moves the row
HLC; a table that a migration creates under an unchanged trigger version gets no triggers;
ALTER TABLE of a `_no_sync` table that `install_crdt` opted in leaves its triggers with the
columns they had, as the transformer goes by the name (`transformer/mod.rs:274`), against
"`ALTER TABLE` of a table with CRDT columns drops the table's triggers ... and recreates them
afterwards, so a new column is tracked" (`schema.rs:10`). TLC shows the last one as a
violation of `TriggersInStep` when that is stated of all of `Names` and the closure may add
a column to such a table.

## 7. Plan

Done: the clock, the replicas, the drain loop, cleanup, open, the apply engine with its
abstract specification, and write calls in every mode with `install_crdt` and the observer,
each with proofs of all its safety properties. Next, in this order:

1. `Agreement` with the origin filter: which rows still agree when a row edited by two nodes
   travels in parts, as a property and then a theorem.
2. `Sync` as a refinement of an abstract last-writer-wins map, so that `Agreement` follows
   from the merge being a join.
