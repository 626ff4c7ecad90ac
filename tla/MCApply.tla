------------------------------- MODULE MCApply ------------------------------
(* Apply for TLC: two data rows, a delete of one, and the changes peers send.  *)
EXTENDS Apply

CONSTANTS k, k2, gone, e, a, b, unknown

\* The second generation of a row is unsigned.
ChangeOf(r, c, h) == [row |-> r, col |-> c, h |-> h, full |-> TRUE, sig |-> h < 3]

MCKeys == {k, k2}
MCEntries == {e}
MCMissing == {gone}
MCTarget == [x \in {e} |-> k]
MCCols == {a, b}
MCKept == {b}
MCOtherCols == {unknown}

\* Two generations of the row, its delete in between, and one change of every
\* kind that preflight or the engine turns down.
MCChanges ==
    {ChangeOf(k, a, h) : h \in {1, 3}} \cup
    {ChangeOf(k, b, 2), ChangeOf(k2, b, 2), ChangeOf(e, a, 2), ChangeOf(e, b, 2)} \cup
    {ChangeOf(k, unknown, 3), ChangeOf(gone, a, 1), ChangeOf(k, a, 5),
     [ChangeOf(k, a, 4) EXCEPT !.full = FALSE]}

\* Any two changes in any order, and any three newest first: the order that
\* the engine has to turn round.
MCBatches ==
    {<<x>> : x \in MCChanges} \cup (MCChanges \X MCChanges) \cup
    {s \in MCChanges \X MCChanges \X MCChanges : s[1].h >= s[2].h /\ s[2].h >= s[3].h}
=============================================================================
