-------------------------------- MODULE Sync --------------------------------
(***************************************************************************)
(* Column-level last-writer-wins replication between databases:            *)
(*                                                                         *)
(*  - local statements, as the transformer (crdt/transformer) and the CRDT *)
(*    triggers (crdt/trigger) leave them: a row HLC, a column-HLC map, and *)
(*    an entry in haex_deleted_rows for every hard delete;                 *)
(*  - the outbound scan (crdt/scanner), one call per table, with its       *)
(*    cursor, its row prefilter, its row-HLC fallback and its origin       *)
(*    filter;                                                              *)
(*  - apply_remote_changes (crdt/apply) with column LWW, the delete shadow *)
(*    over inserts, delete propagation and the clock advance.              *)
(*                                                                         *)
(* One Deliver step is one call of apply_remote_changes: it holds the      *)
(* connection for its whole transaction; one Publish step is one scan of   *)
(* one table, and writes may come between the scans that end up in one     *)
(* batch. The transport belongs to the consumer and may lose, repeat,      *)
(* delay and reorder pages.                                                *)
(*                                                                         *)
(* An HLC is a natural number, its time first and its node second, so that *)
(* compare_hlc_strings is <. SQL compares the strings instead: TextAfter.  *)
(* A value is named by the HLC of the transaction that wrote it. Each      *)
(* database stays open: HlcClock has what a restart does to the clock.     *)
(***************************************************************************)
EXTENDS Integers, FiniteSets

CONSTANTS
    N,           \* number of replicas; replica r has node id r
    NodeText,    \* rank of a node id's hex text among the others
    Keys,        \* primary keys
    Cols,        \* tracked columns: neither key nor _no_sync
    ChangeSets,  \* sets of tracked columns an UPDATE may really change
    Replaces,    \* whether a transaction may delete a row and insert it again
    Paged,       \* whether scans start at a cursor and come in pages
    Origins,     \* ScanFilters::origin_node in use: "any" and "own"
    MaxTime,     \* bound: latest HLC time
    MaxWire      \* bound: scans in flight

ASSUME SyncConstants ==
    /\ N \in Nat \ {0}
    /\ NodeText \in [0..(N - 1) -> Nat]
    /\ ChangeSets \subseteq SUBSET Cols
    /\ Replaces \in BOOLEAN /\ Paged \in BOOLEAN
    /\ Origins \subseteq {"any", "own"}
    /\ MaxTime \in Nat
    /\ MaxWire \in Nat

Replicas == 0..(N - 1)
None == 0                       \* the empty HLC, older than every other
MaxHlc == MaxTime * N + (N - 1)
Hlcs == N..MaxHlc
Time(h) == h \div N
Node(h) == h % N

\* h > g as SQL text, "<time>/<node id in hex>": times are decimals of one width
\* (19 digits until 2043), node ids have no leading zeros, so "10" is before "9".
TextAfter(h, g) ==
    \/ Time(h) > Time(g)
    \/ Time(h) = Time(g) /\ NodeText[Node(h)] > NodeText[Node(g)]

VARIABLES
    rows,   \* rows[r][k]: the row with key k at replica r
    log,    \* log[r]: haex_deleted_rows
    clock,  \* clock[r]: a bound of every HLC r has drawn or folded in
    wire    \* scans on their way

vars == <<rows, log, clock, wire>>

Later(a, b) == IF a > b THEN a ELSE b
Newest(S) == CHOOSE t \in S : \A u \in S : u <= t

HlcsOf(S) == {m.h : m \in S}

\* A row: its row HLC, its column-HLC map (None where the map has no entry)
\* and its column values (None for SQL NULL). Only a row that is not there
\* has no row HLC.
Row == [hlc : Hlcs \cup {None},
        at  : [Cols -> Hlcs \cup {None}],
        val : [Cols -> Hlcs \cup {None}]]
Absent == [hlc |-> None, at |-> [c \in Cols |-> None], val |-> [c \in Cols |-> None]]
Live(row) == row.hlc # None

Cell == [k : Keys, c : Cols, h : Hlcs, v : Hlcs \cup {None}]
Tombstone == [k : Keys, h : Hlcs]
Batch == [cells : SUBSET Cell, dels : SUBSET Tombstone]

TypeOK ==
    /\ rows \in [Replicas -> [Keys -> Row]]
    /\ \A r \in Replicas, k \in Keys : Live(rows[r][k]) \/ rows[r][k] = Absent
    /\ log \in [Replicas -> SUBSET Tombstone]
    /\ clock \in [Replicas -> Hlcs \cup {None}]
    /\ wire \in SUBSET Batch

-----------------------------------------------------------------------------
(* Local statements. Each takes the HLC h of its transaction.              *)

\* The transaction's HLC: this node's, and of a later time than anything the
\* clock has seen.
Draws(r, h) == Node(h) = r /\ Time(h) > Time(clock[r])

\* Fault: the column-HLC map is left empty.
InsertedUnmapped(h) ==
    [hlc |-> h, at |-> [c \in Cols |-> None], val |-> [c \in Cols |-> h]]

\* AFTER INSERT: every tracked column is stamped.
Inserted(h) == [hlc |-> h, at |-> [c \in Cols |-> h], val |-> [c \in Cols |-> h]]

Insert(r, k, h) ==
    /\ Draws(r, h)
    /\ ~Live(rows[r][k])
    /\ rows' = [rows EXCEPT ![r][k] = Inserted(h)]
    /\ clock' = [clock EXCEPT ![r] = h]
    /\ UNCHANGED <<log, wire>>

\* An UPDATE sets the row HLC whatever it changes; the AFTER UPDATE trigger
\* stamps the tracked columns whose value is new. C = {} is an UPDATE of
\* _no_sync columns only, or one that writes the values already there.
Update(r, k, C, h) ==
    /\ Draws(r, h)
    /\ Live(rows[r][k])
    /\ rows' = [rows EXCEPT ![r][k] =
           [hlc |-> h,
            at  |-> [c \in Cols |-> IF c \in C THEN h ELSE rows[r][k].at[c]],
            val |-> [c \in Cols |-> IF c \in C THEN h ELSE rows[r][k].val[c]]]]
    /\ clock' = [clock EXCEPT ![r] = h]
    /\ UNCHANGED <<log, wire>>

\* Fault: the row is only marked as gone.
DeleteMarked(r, k, h) ==
    /\ Draws(r, h)
    /\ Live(rows[r][k])
    /\ rows' = [rows EXCEPT ![r][k].hlc = None]
    /\ log' = [log EXCEPT ![r] = @ \cup {[k |-> k, h |-> h]}]
    /\ clock' = [clock EXCEPT ![r] = h]
    /\ UNCHANGED wire

\* BEFORE DELETE: one entry in the delete log, and the row is gone.
Delete(r, k, h) ==
    /\ Draws(r, h)
    /\ Live(rows[r][k])
    /\ rows' = [rows EXCEPT ![r][k] = Absent]
    /\ log' = [log EXCEPT ![r] = @ \cup {[k |-> k, h |-> h]}]
    /\ clock' = [clock EXCEPT ![r] = h]
    /\ UNCHANGED wire

\* DELETE and INSERT of one key in one transaction: both carry its HLC.
Replace(r, k, h) ==
    /\ Replaces
    /\ Draws(r, h)
    /\ Live(rows[r][k])
    /\ rows' = [rows EXCEPT ![r][k] = Inserted(h)]
    /\ log' = [log EXCEPT ![r] = @ \cup {[k |-> k, h |-> h]}]
    /\ clock' = [clock EXCEPT ![r] = h]
    /\ UNCHANGED wire

-----------------------------------------------------------------------------
(* The outbound scan.                                                      *)

\* The HLC a column travels with: its own, else the row's.
ColHlc(row, c) == IF row.at[c] # None THEN row.at[c] ELSE row.hlc

CellOf(r, k, c) ==
    [k |-> k, c |-> c, h |-> ColHlc(rows[r][k], c), v |-> rows[r][k].val[c]]

\* origin_node: only columns whose HLC this node drew.
FromOrigin(r, origin, h) == origin = "own" => Node(h) = r

\* The rows the WHERE clause lets through, from the cursor after (None for a
\* full scan, without the clause).
Prefiltered(r, after) == {k \in Keys : TextAfter(rows[r][k].hlc, after)}

\* scan_table_for_local_changes on the data table and on the delete log. The
\* prefilter compares row HLCs as text, the loop over the columns numbers; an
\* entry of the delete log never changes, so its row HLC is its column's.
Scan(r, after, origin) ==
    [cells |-> {m \in {CellOf(r, k, c) : k \in Prefiltered(r, after), c \in Cols} :
                  m.h > after /\ FromOrigin(r, origin, m.h)},
     dels  |-> {d \in log[r] : /\ TextAfter(d.h, after) /\ d.h > after
                               /\ FromOrigin(r, origin, d.h)}]

\* A call scans one table.
Tables == {"data", "log"}
OfTable(b, t) == [cells |-> IF t = "data" THEN b.cells ELSE {},
                  dels  |-> IF t = "log" THEN b.dels ELSE {}]

Publish(r, t, after, origin) ==
    /\ Cardinality(wire) < MaxWire
    /\ LET b == OfTable(Scan(r, after, origin), t) IN
        /\ b.cells # {} \/ b.dels # {}
        /\ wire' = wire \cup {b}
    /\ UNCHANGED <<rows, log, clock>>

Lose(b) ==
    /\ wire' = wire \ {b}
    /\ UNCHANGED <<rows, log, clock>>

\* Two scans put into one batch, or one alone (b = d).
Join(b, d) == [cells |-> b.cells, dels |-> d.dels]

\* Where a scan may resume, and where a page may end: at an HLC that occurs.
HlcsIn(b) == HlcsOf(b.cells) \cup HlcsOf(b.dels)
Cursors(r, origin) == IF Paged THEN {None} \cup HlcsIn(Scan(r, None, origin)) ELSE {None}
PageEnds(b) == IF Paged THEN HlcsIn(b) ELSE {MaxHlc}

\* paginate_changes: whole HLC groups in ascending order, up to some HLC.
Page(b, hi) == [cells |-> {m \in b.cells : m.h <= hi},
                dels  |-> {d \in b.dels : d.h <= hi}]

-----------------------------------------------------------------------------
(* apply_remote_changes.                                                   *)

\* Fault: no comparison with the stored column HLC.
StagedBlindly(row, k, p) == {m \in p.cells : m.k = k}

\* Fault: two HLCs of one time count as equal, whatever their nodes.
StagedByTime(row, k, p) == {m \in p.cells : m.k = k /\ Time(m.h) > Time(row.at[m.c])}

\* select_staged_columns: the changes newer than what the column holds.
Staged(row, k, p) == {m \in p.cells : m.k = k /\ m.h > row.at[m.c]}

\* Fault: the comparison is turned round.
ShadowedBackwards(r, k, h) == \E d \in log[r] : d.k = k /\ d.h <= h

\* insert_shadowed: a logged delete is at least as new as the fresh row. The
\* log is the one before the batch.
Shadowed(r, k, h) == \E d \in log[r] : d.k = k /\ d.h >= h

\* Whether process_row_group writes the row.
Writes(r, k, p) ==
    LET S == Staged(rows[r][k], k, p) IN
    S # {} /\ (Live(rows[r][k]) \/ ~Shadowed(r, k, Newest(HlcsOf(S))))

\* Fault: the row HLC is that of the batch.
RowHlcAfterForgets(row, S) == Newest(HlcsOf(S))

\* The row HLC process_row_group writes: it never goes back.
RowHlcAfter(row, S) == Later(row.hlc, Newest(HlcsOf(S)))

\* process_row_group on key k: an UPDATE keeps, an INSERT leaves out, what no
\* staged column names.
Merge(row, S) ==
    [hlc |-> RowHlcAfter(row, S),
     at  |-> [c \in Cols |-> IF \E m \in S : m.c = c
                             THEN (CHOOSE m \in S : m.c = c).h ELSE row.at[c]],
     val |-> [c \in Cols |-> IF \E m \in S : m.c = c
                             THEN (CHOOSE m \in S : m.c = c).v ELSE row.val[c]]]

ApplyRow(r, k, p) ==
    IF Writes(r, k, p) THEN Merge(rows[r][k], Staged(rows[r][k], k, p))
    ELSE rows[r][k]

\* should_propagate_delete: unless the row is strictly newer.
ShouldPropagate(row, d) == ~(row.hlc > d.h)

\* propagate_deleted_rows_to_target_tables over the entries of this batch,
\* replayed ones included.
Propagate(row, k, p) ==
    IF \E d \in p.dels : d.k = k /\ ShouldPropagate(row, d) THEN Absent ELSE row

\* The changes of the batch that end up in a row.
Written(r, p) ==
    {m \in p.cells : Writes(r, m.k, p) /\ m \in Staged(rows[r][m.k], m.k, p)}

\* Fault: the delete log does not move the clock.
AcceptedDataOnly(r, p) == HlcsOf(Written(r, p))

\* The HLCs the batch really wrote: max_accepted_hlc is the newest of them.
Accepted(r, p) == HlcsOf(Written(r, p)) \cup HlcsOf(p.dels \ log[r])

AdvancePastRemote(c, A) == IF A = {} THEN c ELSE Later(c, Newest(A))

Deliver(r, p) ==
    /\ rows' = [rows EXCEPT ![r] =
                  [k \in Keys |-> Propagate(ApplyRow(r, k, p), k, p)]]
    /\ log' = [log EXCEPT ![r] = @ \cup p.dels]
    /\ clock' = [clock EXCEPT ![r] = AdvancePastRemote(@, Accepted(r, p))]
    /\ UNCHANGED wire

-----------------------------------------------------------------------------
Init ==
    /\ rows = [r \in Replicas |-> [k \in Keys |-> Absent]]
    /\ log = [r \in Replicas |-> {}]
    /\ clock = [r \in Replicas |-> None]
    /\ wire = {}

Next ==
    \/ \E r \in Replicas, k \in Keys, h \in Hlcs :
        \/ Insert(r, k, h)
        \/ \E C \in ChangeSets : Update(r, k, C, h)
        \/ Delete(r, k, h)
        \/ Replace(r, k, h)
    \/ \E r \in Replicas, origin \in Origins :
        \E t \in Tables, after \in Cursors(r, origin) : Publish(r, t, after, origin)
    \/ \E b \in wire : Lose(b)
    \/ \E r \in Replicas, b, d \in wire :
        \E hi \in PageEnds(Join(b, d)) : Deliver(r, Page(Join(b, d), hi))

Spec == Init /\ [][Next]_vars

-----------------------------------------------------------------------------
(* Properties                                                              *)

\* What a scan from a cursor misses: changes beyond it that a full scan finds.
Missed(r, after, origin) ==
    LET full == Scan(r, None, origin)
        part == Scan(r, after, origin)
    IN  {m \in (full.cells \ part.cells) \cup (full.dels \ part.dels) : m.h > after}

\* The prefilter on the row HLC is text and the order of HLCs is not: a scan from
\* a cursor misses at most changes of the cursor's own time by another node, and
\* none in a scan of a node's own changes, whatever mixture of local writes and
\* partly applied pages the row went through.
PrefilterHidesOnlyTies ==
    \A r \in Replicas, origin \in {"any", "own"} :
        \A after \in HlcsIn(Scan(r, None, origin)) :
            \A m \in Missed(r, after, origin) :
                origin = "any" /\ Time(m.h) = Time(after)

\* No row outlives its delete: at every replica a row in the table is at
\* least as new as every delete of its key in the log. Late, repeated and
\* reordered inserts do not bring a row back, in whichever order the two
\* arrive, be it in one batch.
NoZombie ==
    \A r \in Replicas, k \in Keys :
        Live(rows[r][k]) => \A d \in log[r] : d.k = k => rows[r][k].hlc >= d.h

\* A column never falls back to an older write while its row exists, under
\* stale and repeated batches.
ColumnsNeverRegress ==
    [][\A r \in Replicas, k \in Keys :
         Live(rows[r][k]) /\ Live(rows'[r][k]) =>
             \A c \in Cols : rows'[r][k].at[c] >= rows[r][k].at[c]]_vars

\* The clock covers everything stored, deletes too: the next local write is
\* newer than the row, the columns and the deletes it meets.
ClockCovers ==
    \A r \in Replicas :
        /\ \A k \in Keys : rows[r][k].hlc <= clock[r]
        /\ \A d \in log[r] : d.h <= clock[r]

\* Applying p's full scan would leave r as it is.
Knows(r, p) ==
    LET b == Scan(p, None, "any") IN
    /\ \A k \in Keys : Propagate(ApplyRow(r, k, b), k, b) = rows[r][k]
    /\ b.dels \subseteq log[r]

\* Replicas that have nothing left to tell each other hold the same rows, the
\* same column values and the same delete log, however updates, deletes and
\* inserts of one key met. It needs scans that carry whole rows (see
\* ShippedAsWritten) and updates that change a tracked column: an UPDATE of
\* _no_sync columns alone moves the row HLC, which decides deletes here and
\* does not travel.
Agreement ==
    (\A r, p \in Replicas : Knows(r, p)) =>
        \A r, p \in Replicas : rows[r] = rows[p] /\ log[r] = log[p]

\* What paginate_changes builds on: "HLC equals one source transaction, so
\* all changes sharing an hlc_timestamp belong to one transaction". A change
\* on the wire carries the value written by the transaction whose HLC it
\* bears. It does not hold once a row has been inserted from a page without
\* all of its columns: the scanner ships the missing ones as NULL under the
\* row HLC, and a peer then drops a value nobody overwrote.
ShippedAsWritten ==
    \A b \in wire : \A m \in b.cells : m.v = m.h

-----------------------------------------------------------------------------
(* The inductive invariant the safety properties rest on.                  *)

\* The row HLC is at least as new as every entry of the column-HLC map.
RowDominates ==
    \A r \in Replicas, k \in Keys, c \in Cols :
        rows[r][k].at[c] <= rows[r][k].hlc

Inv ==
    /\ TypeOK
    /\ RowDominates
    /\ NoZombie
    /\ ClockCovers
=============================================================================
