------------------------------- MODULE MCSync -------------------------------
(* Sync for TLC: which updates happen, and how node ids are written.       *)
EXTENDS Sync

\* A greater node id has more digits, the first of them small: 9 and 10.
LongerIdFirst == [r \in 0..(N - 1) |-> N - r]

\* Every UPDATE changes some tracked column.
TrackedUpdates == SUBSET Cols \ {{}}

\* An UPDATE may also change no tracked column at all.
AllUpdates == SUBSET Cols
=============================================================================
