------------------------------ MODULE HlcClock ------------------------------
(***************************************************************************)
(* The hybrid logical clock of one database file, and how a transaction    *)
(* gets its HLC:                                                           *)
(*                                                                         *)
(*  - HlcService (crdt/hlc.rs) wraps a uhlc clock. It lives in memory; its *)
(*    last drawn value survives a restart only through the 'hlc' row of    *)
(*    the config table, written inside the caller's transaction.           *)
(*  - ConnectionContext (db/connection_context.rs) pins one HLC per        *)
(*    transaction: current_hlc() reuses tx_hlc_slot once write_pending is  *)
(*    set, and the commit and rollback hooks clear both.                   *)
(*  - tx_scoped_hlc (db/core/execute/mod.rs) is what every stamped write   *)
(*    of Database::write goes through.                                     *)
(*  - apply_remote_changes (crdt/apply/engine.rs) moves the clock past the *)
(*    remote HLCs it accepted, after its transaction has committed.        *)
(*                                                                         *)
(* HLCs are abstracted to their time component: only one node draws here.  *)
(* Every operation holds the connection mutex, so two of them interleave   *)
(* only at transaction boundaries; the wall clock and a crash respect      *)
(* nothing.                                                                *)
(***************************************************************************)
EXTENDS Integers

CONSTANTS
    CounterSpan, \* HLC times that share one masked clock reading (2^CSIZE)
    MaxDrift,    \* MAX_REMOTE_HLC_DRIFT in HLC time units
    MaxWall,     \* bound: latest reading of the wall clock
    MaxTime      \* bound: latest HLC time drawn or received

ASSUME ClockConstants ==
    /\ CounterSpan \in Nat \ {0}
    /\ MaxDrift \in Nat
    /\ MaxWall \in Nat
    /\ MaxTime \in Nat

None == 0        \* no timestamp: an empty slot, an absent 'hlc' row

VARIABLES
    wall,        \* the system clock, before masking
    up,          \* the database is open and HlcService holds a clock
    last,        \* uhlc's last_time
    persisted,   \* committed value of the 'hlc' config row
    inTx,        \* a Database::write transaction is open
    hlcRow,      \* the 'hlc' config row as the open transaction sees it
    slot,        \* ConnectionContext::tx_hlc_slot
    pending,     \* ConnectionContext::write_pending
    owed,        \* remote HLC committed by apply, clock not yet advanced
    \* What the properties talk about:
    stamps,      \* HLCs the open transaction has put on rows
    issued,      \* greatest HLC any committed local transaction used
    heard,       \* greatest remote HLC applied since the database was opened
    remote,      \* greatest remote HLC applied to this file, ever
    missed,      \* a clock advance was refused (PostCommitClockAdvance)
    setBack      \* the wall clock was set back while an advance was owed

context == <<slot, pending>>
transaction == <<inTx, hlcRow, stamps>>
history == <<issued, heard, remote, missed, setBack>>
vars == <<wall, up, last, persisted, owed, context, transaction, history>>

TypeOK ==
    /\ wall \in Nat
    /\ up \in BOOLEAN
    /\ last \in Nat
    /\ persisted \in Nat
    /\ inTx \in BOOLEAN
    /\ hlcRow \in Nat
    /\ slot \in Nat
    /\ pending \in BOOLEAN
    /\ owed \in Nat
    /\ stamps \in SUBSET Nat
    /\ issued \in Nat
    /\ heard \in Nat
    /\ remote \in Nat
    /\ missed \in BOOLEAN
    /\ setBack \in BOOLEAN

Later(a, b) == IF a > b THEN a ELSE b
Newest(S) == CHOOSE t \in S : \A u \in S : u <= t

-----------------------------------------------------------------------------
(* uhlc: the library clock, with the drift tolerance build_hlc gives it.   *)

\* system_time_clock() with the logical counter's bits masked off.
Physical == wall - (wall % CounterSpan)

\* Fault: the counter runs down instead of up.
NewTimestampBackwards(l) == IF Physical > l THEN Physical ELSE l - 1

\* HLC::new_timestamp on a clock whose last_time is l.
NewTimestamp(l) == IF Physical > l THEN Physical ELSE l + 1

\* remote_hlc_drift(t) <= MAX_REMOTE_HLC_DRIFT: one-sided, the past is fine.
WithinDrift(t) == t - Physical <= MaxDrift

\* HLC::update_with_timestamp on a clock whose last_time is l.
UpdateWithTimestamp(l, t) ==
    IF Physical >= t /\ Physical >= l THEN Physical
    ELSE IF t >= l THEN t + 1
    ELSE l + 1

\* Bound: the next draws stay under MaxTime.
Room == last + 2 <= MaxTime /\ Physical + 2 <= MaxTime

-----------------------------------------------------------------------------
(* ConnectionContext::current_or_new_tx_hlc, as the SQL function           *)
(* current_hlc(): the value it returns, and the clock and slot it leaves.  *)

\* Fault: the slot is never reused.
CurrentOrNewTxHlcUnpinned(writes, pinned, l) ==
    LET ts == NewTimestamp(l) IN [ts |-> ts, last |-> ts, slot |-> ts]

CurrentOrNewTxHlc(writes, pinned, l) ==
    IF writes /\ pinned # None
    THEN [ts |-> pinned, last |-> l, slot |-> pinned]
    ELSE LET ts == NewTimestamp(l) IN [ts |-> ts, last |-> ts, slot |-> ts]

\* ConnectionContext::reset_tx_slot, run by the commit and rollback hooks.
ResetTxSlot == slot' = None /\ pending' = FALSE

\* No transaction is open and the connection mutex is free.
Idle == up /\ ~inTx /\ owed = None

NoTransaction == inTx' = FALSE /\ hlcRow' = None /\ stamps' = {}

-----------------------------------------------------------------------------
Init ==
    /\ wall \in 0..MaxWall
    /\ up = FALSE
    /\ last = 0
    /\ persisted = None
    /\ inTx = FALSE /\ hlcRow = None /\ stamps = {}
    /\ slot = None /\ pending = FALSE
    /\ owed = None
    /\ issued = None /\ heard = None /\ remote = None
    /\ missed = FALSE /\ setBack = FALSE

\* The wall clock runs, and an operator or NTP may set it back.
Tick ==
    /\ wall < MaxWall
    /\ wall' = wall + 1
    /\ UNCHANGED <<up, last, persisted, owed, context, transaction, history>>

StepBack ==
    /\ wall' \in 0..wall
    /\ wall' < wall
    /\ setBack' = (setBack \/ owed # None)
    /\ UNCHANGED <<up, last, persisted, owed, context, transaction>>
    /\ UNCHANGED <<issued, heard, remote, missed>>

\* Database::open up to initialize_in_place: a fresh uhlc clock folds in the
\* persisted timestamp, and the open fails when that lies beyond the drift.
Open ==
    /\ ~up
    /\ persisted = None \/ WithinDrift(persisted)
    /\ persisted + 1 <= MaxTime
    /\ up' = TRUE
    /\ last' = IF persisted = None THEN 0 ELSE UpdateWithTimestamp(0, persisted)
    /\ ResetTxSlot
    /\ UNCHANGED <<wall, persisted, owed, transaction, history>>

\* The process dies or the last Database handle is dropped: memory is gone,
\* an open transaction is rolled back by the journal.
Crash ==
    /\ up
    /\ up' = FALSE
    /\ last' = 0
    /\ ResetTxSlot
    /\ NoTransaction
    /\ owed' = None
    /\ heard' = None
    /\ UNCHANGED <<wall, persisted, issued, remote, missed, setBack>>

\* Database::read running SELECT current_hlc(): no commit hook follows a
\* read-only statement, so the slot keeps the value.
Probe ==
    /\ Idle /\ Room
    /\ LET r == CurrentOrNewTxHlc(pending, slot, last) IN
        /\ last' = r.last
        /\ slot' = r.slot
    /\ UNCHANGED <<wall, up, persisted, owed, pending, transaction, history>>

-----------------------------------------------------------------------------
(* Database::write                                                         *)

BeginWrite ==
    /\ Idle
    /\ inTx' = TRUE
    /\ hlcRow' = persisted
    /\ UNCHANGED <<wall, up, last, persisted, owed, context, stamps, history>>

\* A row written without drawing an HLC: a table without CRDT columns in
\* local mode, or the trigger gate of copy_rows_verbatim. Only the preupdate
\* hook sees it.
UnstampedWrite ==
    /\ inTx
    /\ pending' = TRUE
    /\ UNCHANGED <<wall, up, last, persisted, owed, slot, transaction, history>>

\* A SELECT current_hlc() inside the transaction.
ReadInTx ==
    /\ inTx /\ Room
    /\ LET r == CurrentOrNewTxHlc(pending, slot, last) IN
        /\ last' = r.last
        /\ slot' = r.slot
    /\ UNCHANGED <<wall, up, persisted, owed, pending, transaction, history>>

\* One stamped statement. tx_scoped_hlc reads current_hlc(), aligns the clock
\* and persists the value (which sets write_pending); the statement then puts
\* it on its rows, and the delete trigger reads current_hlc() once more. The
\* statement itself may fail and leave no row.
Statement ==
    /\ inTx /\ Room
    /\ LET r == CurrentOrNewTxHlc(pending, slot, last)
           aligned == UpdateWithTimestamp(r.last, r.ts)
           trigger == CurrentOrNewTxHlc(TRUE, r.slot, aligned) IN
        /\ WithinDrift(r.ts)
        /\ last' = trigger.last
        /\ slot' = trigger.slot
        /\ hlcRow' = r.ts
        /\ \/ stamps' = stamps \cup {r.ts, trigger.ts}
           \/ stamps' = stamps
    /\ pending' = TRUE
    /\ UNCHANGED <<wall, up, persisted, owed, inTx, history>>

\* tx_scoped_hlc fails: the wall clock fell so far back that uhlc refuses the
\* very timestamp it drew. The draw is not undone.
StatementRefused ==
    /\ inTx /\ Room
    /\ LET r == CurrentOrNewTxHlc(pending, slot, last) IN
        /\ ~WithinDrift(r.ts)
        /\ last' = r.last
        /\ slot' = r.slot
    /\ UNCHANGED <<wall, up, persisted, owed, pending, transaction, history>>

\* Fault: the HLC is not made durable with the rows it stamps.
CommitWriteUnpersisted ==
    /\ inTx
    /\ issued' = IF stamps = {} THEN issued ELSE Newest(stamps)
    /\ ResetTxSlot
    /\ NoTransaction
    /\ UNCHANGED <<wall, up, last, persisted, owed>>
    /\ UNCHANGED <<heard, remote, missed, setBack>>

CommitWrite ==
    /\ inTx
    /\ persisted' = hlcRow
    /\ issued' = IF stamps = {} THEN issued ELSE Newest(stamps)
    /\ ResetTxSlot
    /\ NoTransaction
    /\ UNCHANGED <<wall, up, last, owed, heard, remote, missed, setBack>>

RollbackWrite ==
    /\ inTx
    /\ ResetTxSlot
    /\ NoTransaction
    /\ UNCHANGED <<wall, up, last, persisted, owed, history>>

-----------------------------------------------------------------------------
(* Transactions that take one HLC from new_timestamp_and_persist for all   *)
(* their rows: stamp_unstamped_rows on open and install_crdt.              *)

StampRows ==
    /\ Idle /\ Room
    /\ last' = NewTimestamp(last)
    /\ persisted' = last'
    /\ issued' = last'
    /\ ResetTxSlot
    /\ UNCHANGED <<wall, up, owed, transaction, heard, remote, missed, setBack>>

\* The same transaction rolled back after the draw.
StampRowsFails ==
    /\ Idle /\ Room
    /\ last' = NewTimestamp(last)
    /\ ResetTxSlot
    /\ UNCHANGED <<wall, up, persisted, owed, transaction, history>>

-----------------------------------------------------------------------------
(* apply_remote_changes                                                    *)

\* Fault: preflight does not measure the drift.
ApplyCommitsUnchecked(t) ==
    /\ Idle /\ Room
    /\ owed' = t
    /\ heard' = Later(heard, t)
    /\ remote' = Later(remote, t)
    /\ ResetTxSlot
    /\ UNCHANGED <<wall, up, last, persisted, transaction>>
    /\ UNCHANGED <<issued, missed, setBack>>

\* Preflight admits the batch and its transaction commits; t is the greatest
\* HLC it accepted. The connection stays locked until the clock has moved.
ApplyCommits(t) ==
    /\ Idle /\ Room
    /\ WithinDrift(t)
    /\ owed' = t
    /\ heard' = Later(heard, t)
    /\ remote' = Later(remote, t)
    /\ ResetTxSlot
    /\ UNCHANGED <<wall, up, last, persisted, transaction>>
    /\ UNCHANGED <<issued, missed, setBack>>

\* Fault: the clock is not moved.
AdvancePastRemoteForgotten ==
    /\ up /\ owed # None
    /\ owed' = None
    /\ UNCHANGED <<wall, up, last, persisted, context, transaction, history>>

\* advance_past_remote after the commit; a wall clock that was set back since
\* preflight makes it fail, and the batch stays applied.
AdvancePastRemote ==
    /\ up /\ owed # None
    /\ last' = IF WithinDrift(owed) THEN UpdateWithTimestamp(last, owed) ELSE last
    /\ missed' = (missed \/ ~WithinDrift(owed))
    /\ owed' = None
    /\ UNCHANGED <<wall, up, persisted, context, transaction>>
    /\ UNCHANGED <<issued, heard, remote, setBack>>

Next ==
    \/ Tick \/ StepBack
    \/ Open \/ Crash
    \/ Probe
    \/ BeginWrite \/ UnstampedWrite \/ ReadInTx \/ Statement \/ StatementRefused
    \/ CommitWrite \/ RollbackWrite
    \/ StampRows \/ StampRowsFails
    \/ \E t \in 1..MaxTime : ApplyCommits(t)
    \/ AdvancePastRemote

Spec == Init /\ [][Next]_vars

-----------------------------------------------------------------------------
(* Properties                                                              *)

\* All writes of one Database::write transaction carry one HLC: the literal
\* the transformer puts into the statement and the value the delete trigger
\* reads from current_hlc() never differ, whatever reads, local-table writes
\* and failed statements happen around them.
OneHlcPerTransaction == \A s, t \in stamps : s = t

\* Local commits use ever greater HLCs, over rollbacks, crashes, reopened
\* files and a wall clock that is set back: "a restart cannot hand out
\* timestamps already used in this file" (build_hlc_from_db).
CommittedHlcsIncrease == [][issued' # issued => issued' > issued]_vars

\* While the database stays open, a local write is stamped later than every
\* remote change applied so far, unless the clock advance was refused.
StampsPassHeard ==
    owed = None /\ ~missed => \A s \in stamps : s > heard

\* Preflight checks the drift that advance_past_remote checks again after the
\* commit: the second check can only fail when the wall clock was set back in
\* between, so PostCommitClockAdvance is never the fault of the batch.
AdvanceRefusedOnlyIfSetBack == missed => setBack

\* What advance_past_remote promises: "all future local timestamps are
\* strictly greater than any received remote timestamp". It does not hold
\* over a restart: the advance is never persisted. (Equal times, which the
\* node ids would order, are not counted against it.)
StampsPassRemote ==
    owed = None /\ ~missed => \A s \in stamps : s >= remote

-----------------------------------------------------------------------------
(* The inductive invariant the properties rest on.                         *)

\* Where transactions, the slot and an owed advance can be.
ControlInv ==
    /\ inTx => up /\ owed = None
    /\ ~inTx => stamps = {}
    /\ ~up => owed = None /\ heard = None /\ slot = None

\* The clock covers what is persisted, what is persisted covers every
\* committed HLC, and a value in the slot is still unused.
ClockInv ==
    /\ issued <= persisted
    /\ up => persisted <= last
    /\ slot # None => persisted < slot /\ slot <= last

\* What the open transaction has stamped and persisted is the pinned slot.
PinInv ==
    /\ \A s \in stamps : pending /\ slot # None /\ s = slot /\ s = hlcRow
    /\ inTx => hlcRow = persisted \/ (pending /\ slot # None /\ hlcRow = slot)

\* The clock has passed what was heard, or will when the owed advance runs.
HeardInv ==
    /\ ~missed /\ owed = None => heard <= last
    /\ ~missed /\ slot # None => heard < slot
    /\ owed # None => slot = None
    /\ ~missed /\ owed # None => heard <= last \/ heard <= owed

\* An owed advance was within the drift at preflight.
DriftInv == owed # None /\ ~setBack => WithinDrift(owed)

Inv ==
    /\ TypeOK
    /\ ControlInv
    /\ ClockInv
    /\ PinInv
    /\ HeardInv
    /\ DriftInv
    /\ AdvanceRefusedOnlyIfSetBack
=============================================================================
