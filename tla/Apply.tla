------------------------------- MODULE Apply --------------------------------
(***************************************************************************)
(* One call of apply_remote_changes after another (crdt/apply), step by    *)
(* step: preflight, foreign keys and triggers off, one row group at a time *)
(* in HLC order with the policy's decision on it, one column at a time     *)
(* against the stored HLC and the batch's own earlier winners, the write   *)
(* in its savepoint, the fan-out of the delete log, the commit, the clock. *)
(* Any step may fail or panic, and the process may die at any step.        *)
(*                                                                         *)
(* The caller's ApplyPolicy is free: it accepts any of the columns it is   *)
(* shown, skips or aborts on a constraint, and any hook may fail. A call   *)
(* holds the connection mutex throughout, so no other operation comes      *)
(* between its steps.                                                      *)
(***************************************************************************)
EXTENDS Batches

VARIABLES
    disk,      \* the committed rows
    gate,      \* the committed triggers_enabled flag
    fk,        \* PRAGMA foreign_keys of the connection
    was,       \* with_fk_disabled's was_enabled
    phase,     \* where the call is
    batch,     \* the changes of the call
    work,      \* the rows as the transaction sees them
    txGate,    \* triggers_enabled as the transaction sees it
    todo,      \* changes whose row group is still to come
    row,       \* the row of the current group, None before the first
    pending,   \* accepted changes of the group, not yet compared
    staged,    \* the group's winners so far
    skipped,   \* ApplyOutcome::skipped, as <<input_index, reason>>
    applied,   \* the changes ApplyReport::applied counts
    top,       \* max_accepted_hlc
    accepted,  \* history: what the policy accepted in this call
    blocked    \* history: rows whose INSERT met a constraint and was skipped

connection == <<gate, fk, was>>
group == <<row, pending, staged>>
outcome == <<skipped, applied, top>>
history == <<accepted, blocked>>
vars == <<disk, connection, phase, batch, work, txGate, todo, group, outcome, history>>

Reasons == {"structure", "column", "policy", "stale", "superseded", "shadowed",
            "constraint"}
Phases == {"idle", "rows", "stage", "propagated", "advance"}

TypeOK ==
    /\ disk \in [Rows -> Row]
    /\ gate \in BOOLEAN /\ fk \in BOOLEAN /\ was \in BOOLEAN
    /\ phase \in Phases
    /\ batch \in Batches \cup {<<>>}
    /\ work \in [Rows -> Row]
    /\ txGate \in BOOLEAN
    /\ todo \subseteq DOMAIN batch
    /\ row \in Rows \cup {None}
    /\ phase = "stage" => row \in Rows
    /\ pending \subseteq DOMAIN batch
    /\ staged \subseteq DOMAIN batch
    /\ skipped \subseteq (DOMAIN batch) \X Reasons
    /\ applied \subseteq DOMAIN batch
    /\ top \in Nat
    /\ accepted \subseteq DOMAIN batch
    /\ blocked \subseteq Rows

Skip(I, reason) == I \X {reason}

\* No transaction: nothing of a call is left.
Cleared ==
    /\ batch' = <<>>
    /\ todo' = {} /\ pending' = {} /\ staged' = {}
    /\ skipped' = {} /\ applied' = {} /\ top' = None
    /\ accepted' = {} /\ blocked' = {}
    /\ row' = None

-----------------------------------------------------------------------------
Init ==
    /\ disk = [r \in Rows |-> Absent]
    /\ gate = TRUE
    /\ fk \in BOOLEAN /\ was = fk
    /\ phase = "idle"
    /\ batch = <<>>
    /\ work = disk /\ txGate = TRUE
    /\ row = None
    /\ todo = {} /\ pending = {} /\ staged = {}
    /\ skipped = {} /\ applied = {} /\ top = None
    /\ accepted = {} /\ blocked = {}

\* check_identifiers_and_drift: an HLC without its node has no drift.
Preflight(b) == \A i \in DOMAIN b : b[i].full => b[i].h <= Limit

\* Fault: positions are counted from zero.
BeginFromZero(b) ==
    /\ phase = "idle"
    /\ Preflight(b)
    /\ phase' = "rows"
    /\ batch' = b
    /\ was' = fk /\ fk' = FALSE
    /\ work' = disk /\ txGate' = FALSE
    /\ todo' = 0..(Len(b) - 1)
    /\ UNCHANGED <<disk, gate, group, outcome, history>>

\* The batch passes preflight, foreign keys go off, the transaction starts and
\* turns the triggers off. A batch that preflight or the policy refuses
\* changes nothing.
Begin(b) ==
    /\ phase = "idle"
    /\ Preflight(b)
    /\ phase' = "rows"
    /\ batch' = b
    /\ was' = fk /\ fk' = FALSE
    /\ work' = disk /\ txGate' = FALSE
    /\ todo' = DOMAIN b
    /\ UNCHANGED <<disk, gate, group, outcome, history>>

-----------------------------------------------------------------------------
(* process_row_group                                                       *)

\* group_by_row_key_hlc_ordered: the row with the earliest HLC comes next.
IsNextRow(r) ==
    \E i \in todo : batch[i].row = r /\ \A j \in todo : batch[i].h <= batch[j].h

GroupOf(r) == {i \in todo : batch[i].row = r}

\* skip_whole_group: no such table, no CRDT columns, or no valid identity.
SkipGroup(r) ==
    /\ phase = "rows" /\ r \in Missing /\ IsNextRow(r)
    /\ todo' = todo \ GroupOf(r)
    /\ skipped' = skipped \cup Skip(GroupOf(r), "structure")
    /\ UNCHANGED <<disk, connection, phase, batch, work, txGate, group, applied, top, history>>

\* classify_eligibility, then the policy's decision: D are the columns it
\* accepts, all others of the eligible ones it skips.
PrepareRow(r, D) ==
    /\ phase = "rows" /\ r \in Rows /\ IsNextRow(r)
    /\ LET eligible == {i \in GroupOf(r) : batch[i].col \in Cols} IN
        /\ D \subseteq eligible
        /\ skipped' = skipped \cup Skip(GroupOf(r) \ eligible, "column")
                              \cup Skip(eligible \ D, "policy")
    /\ phase' = "stage"
    /\ todo' = todo \ GroupOf(r)
    /\ row' = r /\ pending' = D /\ staged' = {}
    /\ accepted' = accepted \cup D
    /\ UNCHANGED <<disk, connection, batch, work, txGate, applied, top, blocked>>

\* The changes of a group in the order of group_by_hlc_key.
First(I) ==
    CHOOSE i \in I : \A j \in I : \/ batch[i].h < batch[j].h
                                  \/ batch[i].h = batch[j].h /\ i <= j

\* Fault: an evicted winner is forgotten.
StageColumnForgetsEvicted ==
    /\ phase = "stage" /\ pending # {}
    /\ LET i == First(pending)
           rivals == {s \in staged : batch[s].col = batch[i].col}
           running == IF rivals = {} THEN work[row].at[batch[i].col]
                      ELSE Newest(HlcsOf(batch, rivals)) IN
        /\ pending' = pending \ {i}
        /\ IF ~batch[i].full \/ ~(batch[i].h > running)
           THEN /\ skipped' = skipped \cup
                       Skip({i}, IF rivals = {} THEN "stale" ELSE "superseded")
                /\ UNCHANGED staged
           ELSE /\ staged' = (staged \ rivals) \cup {i}
                /\ UNCHANGED skipped
    /\ UNCHANGED <<disk, connection, phase, batch, work, txGate, todo, row>>
    /\ UNCHANGED <<applied, top, history>>

\* One turn of select_staged_columns: the next change against the batch's own
\* winner for its column, or else against the stored HLC.
StageColumn ==
    /\ phase = "stage" /\ pending # {}
    /\ LET i == First(pending)
           rivals == {s \in staged : batch[s].col = batch[i].col}
           running == IF rivals = {} THEN work[row].at[batch[i].col]
                      ELSE Newest(HlcsOf(batch, rivals)) IN
        /\ pending' = pending \ {i}
        /\ IF ~batch[i].full \/ ~(batch[i].h > running)
           THEN /\ skipped' = skipped \cup
                       Skip({i}, IF rivals = {} THEN "stale" ELSE "superseded")
                /\ UNCHANGED staged
           ELSE /\ staged' = (staged \ rivals) \cup {i}
                /\ skipped' = skipped \cup Skip(rivals, "superseded")
    /\ UNCHANGED <<disk, connection, phase, batch, work, txGate, todo, row>>
    /\ UNCHANGED <<applied, top, history>>

\* The columns are selected; max_hlc is the newest of them.
Selected == phase = "stage" /\ pending = {}
MaxHlc == Newest(HlcsOf(batch, staged))

\* Fault: the comparison is turned round.
InsertShadowedBackwards ==
    /\ staged # {}
    /\ ~Live(work[row])
    /\ \E e \in Entries :
        Target[e] = row /\ Live(disk[e]) /\ disk[e].hlc <= MaxHlc

\* insert_shadowed: load_delete_shadow_map read the log before any row of the
\* batch was written.
InsertShadowed ==
    /\ staged # {}
    /\ ~Live(work[row])
    /\ \E e \in Entries :
        Target[e] = row /\ Live(disk[e]) /\ disk[e].hlc >= MaxHlc

\* Fault: a shadowed insert is reported as a lost comparison.
WriteNothingAsStale ==
    /\ Selected
    /\ staged = {} \/ InsertShadowed
    /\ skipped' = skipped \cup Skip(staged, "stale")
    /\ staged' = {}
    /\ phase' = "rows"
    /\ UNCHANGED <<disk, connection, batch, work, txGate, todo, row, pending>>
    /\ UNCHANGED <<applied, top, history>>

\* Every column lost, or the fresh row is shadowed.
WriteNothing ==
    /\ Selected
    /\ staged = {} \/ InsertShadowed
    /\ skipped' = skipped \cup Skip(staged, "shadowed")
    /\ staged' = {}
    /\ phase' = "rows"
    /\ UNCHANGED <<disk, connection, batch, work, txGate, todo, row, pending>>
    /\ UNCHANGED <<applied, top, history>>

\* The signature entry after change m of its column was written over old.
SigAfter(m, old) == IF m.col \in Kept THEN old ELSE IF m.sig THEN m.h ELSE None

\* The row that write_update or write_insert leaves (merge_sigs_json,
\* build_sigs_json_for_insert).
WrittenRow ==
    LET Won(c) == {s \in staged : batch[s].col = c}
        By(c) == batch[CHOOSE s \in staged : batch[s].col = c]
    IN
    [hlc |-> Later(work[row].hlc, MaxHlc),
     at  |-> [c \in Cols |-> IF Won(c) = {} THEN work[row].at[c] ELSE By(c).h],
     sig |-> [c \in Cols |-> IF Won(c) = {} THEN work[row].sig[c]
                             ELSE SigAfter(By(c), work[row].sig[c])]]

\* Fault: the last row's HLC replaces the newest.
WriteRowLastHlc ==
    /\ Selected /\ staged # {} /\ ~InsertShadowed
    /\ row \in Entries /\ ~Live(work[row]) => {batch[s].col : s \in staged} = Cols
    /\ work' = [work EXCEPT ![row] = WrittenRow]
    /\ applied' = applied \cup staged
    /\ top' = MaxHlc
    /\ staged' = {}
    /\ phase' = "rows"
    /\ UNCHANGED <<disk, connection, batch, txGate, todo, row, pending, skipped, history>>

\* The write and after_row succeed. The delete log's columns are NOT NULL: an
\* entry is only inserted whole.
WriteRow ==
    /\ Selected /\ staged # {} /\ ~InsertShadowed
    /\ row \in Entries /\ ~Live(work[row]) => {batch[s].col : s \in staged} = Cols
    /\ work' = [work EXCEPT ![row] = WrittenRow]
    /\ applied' = applied \cup staged
    /\ top' = Later(top, MaxHlc)
    /\ staged' = {}
    /\ phase' = "rows"
    /\ UNCHANGED <<disk, connection, batch, txGate, todo, row, pending, skipped, history>>

\* An INSERT violates NOT NULL, UNIQUE or PRIMARY KEY; its savepoint is rolled
\* back and the policy answers SkipRow.
InsertConstraint ==
    /\ Selected /\ staged # {} /\ ~InsertShadowed
    /\ ~Live(work[row])
    /\ skipped' = skipped \cup Skip(staged, "constraint")
    /\ blocked' = blocked \cup {row}
    /\ staged' = {}
    /\ phase' = "rows"
    /\ UNCHANGED <<disk, connection, batch, work, txGate, todo, row, pending>>
    /\ UNCHANGED <<applied, top, accepted>>

-----------------------------------------------------------------------------
(* The end of the transaction.                                             *)

\* collect_inbound_delete_log_ids: entries with a change that was not rejected,
\* replays that lost against the stored entry included.
InboundDeletes ==
    {e \in Entries :
        \E i \in DOMAIN batch :
            /\ batch[i].row = e
            /\ \A x \in Reasons \ {"stale", "superseded"} : <<i, x>> \notin skipped}

\* should_propagate_delete for the stored entry e.
Propagates(e, r) ==
    Target[e] = r /\ Live(work[e]) /\ ~(work[r].hlc > work[e].hlc)

\* propagate_deleted_rows_to_target_tables.
PropagateDeletes ==
    /\ phase = "rows" /\ todo = {}
    /\ work' = [r \in Rows |-> IF \E e \in InboundDeletes : Propagates(e, r)
                               THEN Absent ELSE work[r]]
    /\ phase' = "propagated"
    /\ UNCHANGED <<disk, connection, batch, txGate, todo, group, outcome, history>>

\* before_commit, triggers on again, commit; with_fk_disabled restores the
\* pragma. Nothing accepted means no clock to advance.
Commit ==
    /\ phase = "propagated"
    /\ disk' = work
    /\ txGate' = TRUE /\ gate' = txGate'
    /\ fk' = was
    /\ IF top = None THEN phase' = "idle" /\ Cleared
       ELSE phase' = "advance" /\ UNCHANGED <<batch, todo, group, outcome, history>>
    /\ UNCHANGED <<was, work>>

\* advance_past_remote moves the clock, or fails and PostCommitClockAdvance
\* carries the outcome.
Advance ==
    /\ phase = "advance"
    /\ phase' = "idle" /\ Cleared
    /\ UNCHANGED <<disk, connection, work, txGate>>

\* Fault: an early return that skips restoring the pragma.
AbortLeavesFkOff ==
    /\ phase \in {"rows", "stage", "propagated"}
    /\ phase' = "idle" /\ Cleared
    /\ work' = disk /\ txGate' = gate
    /\ UNCHANGED <<disk, connection>>

\* Any SQL statement or hook fails, the policy aborts on a constraint, or a
\* panic unwinds: the transaction rolls back, the pragma is restored.
Abort ==
    /\ phase \in {"rows", "stage", "propagated"}
    /\ phase' = "idle" /\ Cleared
    /\ work' = disk /\ txGate' = gate
    /\ fk' = was
    /\ UNCHANGED <<disk, gate, was>>

\* The process dies; the next open turns foreign keys on and seeds the gate.
Crash ==
    /\ phase # "idle"
    /\ phase' = "idle" /\ Cleared
    /\ work' = disk /\ gate' = TRUE /\ txGate' = TRUE
    /\ fk' = TRUE /\ was' = TRUE
    /\ UNCHANGED disk

Next ==
    \/ \E b \in Batches : Begin(b)
    \/ \E r \in Missing : SkipGroup(r)
    \/ \E r \in Rows : \E D \in SUBSET GroupOf(r) : PrepareRow(r, D)
    \/ StageColumn
    \/ WriteNothing \/ WriteRow \/ InsertConstraint
    \/ PropagateDeletes \/ Commit \/ Advance
    \/ Abort \/ Crash

Spec == Init /\ [][Next]_vars

-----------------------------------------------------------------------------
(* Properties                                                              *)

\* "Every skip goes into an ApplyReport counter, and into
\* ApplyOutcome::skipped by original batch index. No silent drops": when
\* before_commit sees the outcome, every change of the batch was either
\* applied or skipped for exactly one reason, whatever it was evicted,
\* shadowed or rolled back by on the way.
NoSilentDrop ==
    phase = "propagated" =>
        \A i \in DOMAIN batch :
            LET why == {x \in Reasons : <<i, x>> \in skipped} IN
            IF i \in applied THEN why = {} ELSE \E x \in Reasons : why = {x}

\* The skip reasons are true: a stale change lost against the stored column,
\* a superseded one against another change of the same column in this batch.
\* Only an HLC without its node loses against nothing.
SkipReasonsTrue ==
    phase = "propagated" =>
        \A i \in DOMAIN batch :
            /\ <<i, "stale">> \in skipped /\ batch[i].full =>
                   disk[batch[i].row].at[batch[i].col] >= batch[i].h
            /\ <<i, "superseded">> \in skipped /\ batch[i].full =>
                   \E j \in accepted \ {i} :
                       /\ batch[j].row = batch[i].row /\ batch[j].col = batch[i].col
                       /\ batch[j].h >= batch[i].h
                       /\ <<j, "stale">> \notin skipped /\ <<j, "superseded">> \notin skipped

\* Between calls foreign keys are as the caller had them and the triggers are
\* on, however the last call ended: a gate left off would let local writes go
\* untracked.
RestoredAtRest == phase \in {"idle", "advance"} => fk = was /\ gate

\* No row outlives its delete, whatever the policy accepted and whichever rows
\* were skipped on a constraint.
NoZombie ==
    \A e \in Entries :
        Live(disk[e]) /\ Live(disk[Target[e]]) => disk[Target[e]].hlc >= disk[e].hlc

\* The engine's loop implements the merge as module Merge states it: the batch
\* lands at once or not at all, every column holds the newest of the changes that
\* the policy accepted, with its own signature, replays change nothing, and the
\* clock is asked to pass exactly what landed.
M == INSTANCE Merge WITH call <- batch, admitted <- accepted, refused <- blocked,
                         owed <- IF phase = "advance" THEN top ELSE None
MergesAtomically == M!Spec
=============================================================================
