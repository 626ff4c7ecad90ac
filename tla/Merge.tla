------------------------------- MODULE Merge --------------------------------
(***************************************************************************)
(* What one call of apply_remote_changes promises its caller: the batch    *)
(* lands at once, as a column-by-column last-writer-wins merge of the      *)
(* changes the policy accepted followed by the deletes it admitted, or the *)
(* database is as it was. How the engine gets there is module Apply.       *)
(***************************************************************************)
EXTENDS Batches

VARIABLES
    disk,      \* the committed rows
    call,      \* the batch being applied, <<>> for none
    admitted,  \* the changes of the batch that the policy has accepted
    refused,   \* the rows whose INSERT met a constraint
    owed       \* after the commit: the HLC the clock has to pass

mvars == <<disk, call, admitted, refused, owed>>

\* The accepted changes of row r that beat what is stored.
Wins(d, b, acc, r) ==
    {i \in acc : /\ b[i].row = r /\ b[i].full
                 /\ b[i].h > d[r].at[b[i].col]}

\* A stored delete at least as new as the row about to be inserted.
Hidden(d, r, h) ==
    \E e \in Entries : Target[e] = r /\ Live(d[e]) /\ d[e].hlc >= h

\* Whether row r is written: blk are the rows whose INSERT met a constraint.
Lands(d, b, acc, blk, r) ==
    LET W == Wins(d, b, acc, r) IN
    /\ W # {}
    /\ r \notin blk
    /\ Live(d[r]) \/ ~Hidden(d, r, Newest(HlcsOf(b, W)))

\* The newest winner of every column, the first of equals, with its signature, and
\* the newest of all for the row.
MergedRow(d, b, acc, r) ==
    LET W == Wins(d, b, acc, r)
        On(c) == {i \in W : b[i].col = c}
        First(c) == CHOOSE i \in On(c) : \A j \in On(c) :
                        b[j].h < b[i].h \/ (b[j].h = b[i].h /\ i <= j)
    IN
    [hlc |-> Later(d[r].hlc, Newest(HlcsOf(b, W))),
     at  |-> [c \in Cols |-> IF On(c) = {} THEN d[r].at[c] ELSE b[First(c)].h],
     sig |-> [c \in Cols |-> IF On(c) = {} \/ c \in Kept THEN d[r].sig[c]
                             ELSE IF b[First(c)].sig THEN b[First(c)].h ELSE None]]

MergedRows(d, b, acc, blk) ==
    [r \in Rows |-> IF Lands(d, b, acc, blk, r) THEN MergedRow(d, b, acc, r)
                    ELSE d[r]]

\* The admitted entries delete their rows, unless those are newer.
Swept(m, b, acc) ==
    [r \in Rows |->
        IF \E i \in acc : /\ b[i].row \in Entries
                          /\ Target[b[i].row] = r
                          /\ Live(m[b[i].row])
                          /\ m[r].hlc <= m[b[i].row].hlc
        THEN Absent ELSE m[r]]

\* The HLCs that won in rows that were written.
LandedHlcs(d, b, acc, blk) ==
    UNION {HlcsOf(b, Wins(d, b, acc, r)) :
             r \in {r \in Rows : Lands(d, b, acc, blk, r)}}

-----------------------------------------------------------------------------
Init ==
    /\ disk = [r \in Rows |-> Absent]
    /\ call = <<>>
    /\ admitted = {} /\ refused = {}
    /\ owed = None

\* Preflight lets a batch in.
Submit ==
    /\ call = <<>>
    /\ call' \in Batches
    /\ \A i \in DOMAIN call' : call'[i].full => call'[i].h <= Limit
    /\ UNCHANGED <<disk, admitted, refused, owed>>

\* The policy accepts changes of the batch that could be stored.
Accept ==
    /\ call # <<>> /\ owed = None
    /\ \E D \in SUBSET {i \in DOMAIN call : /\ call[i].row \in Rows
                                            /\ call[i].col \in Cols} :
        admitted' = admitted \cup D
    /\ UNCHANGED <<disk, call, refused, owed>>

\* A row is left out on a constraint: only an INSERT can meet one.
Refuse ==
    /\ call # <<>> /\ owed = None
    /\ \E r \in Rows : ~Live(disk[r]) /\ refused' = refused \cup {r}
    /\ UNCHANGED <<disk, call, admitted, owed>>

Returned == call' = <<>> /\ admitted' = {} /\ refused' = {} /\ owed' = None

\* The transaction commits, with what was accepted and not refused and nothing
\* else. A call that wrote nothing owes the clock nothing and is over.
Land ==
    /\ call # <<>> /\ owed = None
    /\ disk' = Swept(MergedRows(disk, call, admitted, refused), call, admitted)
    /\ LET H == LandedHlcs(disk, call, admitted, refused) IN
        IF H = {} THEN Returned
        ELSE owed' = Newest(H) /\ UNCHANGED <<call, admitted, refused>>

\* The call ends: with an error, or with the clock advanced (or not) after
\* the commit.
Return ==
    /\ call # <<>>
    /\ Returned
    /\ UNCHANGED disk

Next == Submit \/ Accept \/ Refuse \/ Land \/ Return

Spec == Init /\ [][Next]_mvars
=============================================================================
