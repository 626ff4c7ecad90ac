------------------------------ MODULE Batches -------------------------------
(***************************************************************************)
(* What apply_remote_changes works on: the rows of a database and a batch  *)
(* of remote column changes.                                               *)
(*                                                                         *)
(* A row is named by its table and its primary key. The rows of            *)
(* haex_deleted_rows are rows like any other: an entry e records that the  *)
(* row Target[e] was deleted. A column's content is named by its HLC, and  *)
(* an HLC is a number, its rank in the order of compare_hlc_strings.       *)
(***************************************************************************)
EXTENDS Naturals, Sequences

CONSTANTS
    Keys,       \* rows of CRDT tables that exist here
    Entries,    \* rows of the delete log
    Missing,    \* rows of tables or with identities this database rejects
    Target,     \* the row that an entry of the delete log deletes
    Cols,       \* columns a peer may set
    OtherCols,  \* unknown, reserved and _no_sync columns
    Kept,       \* columns for which the policy answers SignatureWrite::Keep
    Limit,      \* the latest HLC within MAX_REMOTE_HLC_DRIFT
    Batches     \* the batches that peers send

Rows == Keys \cup Entries
None == 0

\* A column change. An HLC that is not full lacks its '/node' part: it has a
\* rank, but cannot be folded into the clock. sig: it carries its signature.
Change == [row  : Rows \cup Missing,
           col  : Cols \cup OtherCols,
           h    : Nat \ {0},
           full : BOOLEAN,
           sig  : BOOLEAN]

ASSUME BatchConstants ==
    /\ Keys \cap Entries = {} /\ Rows \cap Missing = {}
    /\ Cols \cap OtherCols = {} /\ Kept \subseteq Cols
    /\ Target \in [Entries -> Keys]
    /\ Limit \in Nat
    /\ \A b \in Batches : b \in Seq(Change) /\ b # <<>>

\* sig[c] is the HLC of the change whose signature is stored for column c.
Row == [hlc : Nat, at : [Cols -> Nat], sig : [Cols -> Nat]]
Absent == LET none == [c \in Cols |-> None] IN [hlc |-> None, at |-> none, sig |-> none]
Live(r) == r.hlc # None

Later(a, b) == IF a > b THEN a ELSE b
Newest(S) == CHOOSE t \in S : \A u \in S : u <= t
HlcsOf(b, I) == {b[i].h : i \in I}
=============================================================================
