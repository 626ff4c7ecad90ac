------------------------------- MODULE Drain --------------------------------
(***************************************************************************)
(* Replicas that pull from each other page by page: module Sync's rows,    *)
(* scan and apply, with paginate_changes under its byte budget and one     *)
(* cursor per puller, source and table.                                    *)
(*                                                                         *)
(* The loop around scan, page and apply belongs to the consumer (external) *)
(* and is modelled as the crate documents it: ask the source for what is   *)
(* newer than the cursor, apply the page, resume at the page's newest HLC, *)
(* go on while has_more. An answer is one page of one call of              *)
(* scan_table_for_local_changes: it reads one table under the connection   *)
(* lock, so the data table and the delete log are drained by pulls of      *)
(* their own, with writes between them. Answers may be lost and asked for  *)
(* again, and the puller may die between the apply and the saving of its   *)
(* cursor. Sources answer with what they wrote themselves                  *)
(* (ScanFilters::origin_node) where Filter is "own".                       *)
(***************************************************************************)
EXTENDS Sync, FiniteSetsExt

CONSTANTS
    Filter,    \* "own" or "any": the origin filter of the scans
    Budget,    \* page_budget; a column change counts 2, a delete 1
    MaxFaults  \* bound: lost answers and unsaved cursors

ASSUME DrainConstants ==
    /\ Filter \in {"own", "any"}
    /\ Budget \in Nat /\ MaxFaults \in Nat

VARIABLES
    cursor,  \* cursor[x]: the pull x resumes after this HLC
    due,     \* due[x]: x has to ask (again)
    answer,  \* answer[x]: the source's page on its way, or NoAnswer
    faults   \* against the bound

pull == <<cursor, due, answer, faults>>
allVars == <<vars, pull>>

\* A pull <<r, p, t>>: r drains table t of p.
Pulls == {x \in Replicas \X Replicas \X Tables : x[1] # x[2]}
NoAnswer == [none |-> TRUE]

Empty(b) == b.cells = {} /\ b.dels = {}
Size(b) == 2 * Cardinality(b.cells) + Cardinality(b.dels)

\* The state's types. (a consumer's pull loop)
DrainTypeOK ==
    /\ TypeOK
    /\ cursor \in [Pulls -> Hlcs \cup {None}]
    /\ due \in [Pulls -> BOOLEAN]
    /\ \A x \in Pulls : answer[x] # NoAnswer =>
           /\ HlcsIn(answer[x].page) \subseteq Hlcs
           /\ answer[x].more \in BOOLEAN
    /\ faults \in 0..MaxFaults

-----------------------------------------------------------------------------
\* Fault: a first group over the budget is held back.
NoFirstGroup(b) ==
    LET ends == {h \in HlcsIn(b) : Size(Page(b, h)) <= Budget}
        end  == IF ends = {} THEN None ELSE Max(ends)
    IN  [page |-> Page(b, end), more |-> \E h \in HlcsIn(b) : h > end]

\* Fault: the page is cut at the budget, in the middle of a group.
SplitsGroup(b) ==
    LET end  == Min(HlcsIn(b))
        some == {m \in b.cells : m.h = end}
    IN  CASE HlcsIn(b) = {} -> [page |-> b, more |-> FALSE]
          [] some # {} -> [page |-> [cells |-> {CHOOSE m \in some : TRUE}, dels |-> {}],
                           more |-> b.cells # some]
          [] OTHER -> [page |-> Page(b, end), more |-> Page(b, end) # b]

\* paginate_changes: whole groups in ascending HLC order while they fit, the first
\* one in any case; has_more when a group is left.
Paginate(b) ==
    LET hs   == HlcsIn(b)
        ends == {h \in hs : h = Min(hs) \/ Size(Page(b, h)) <= Budget}
    IN  IF hs = {} THEN [page |-> b, more |-> FALSE]
        ELSE [page |-> Page(b, Max(ends)), more |-> Max(ends) # Max(hs)]

\* A local transaction; whoever pulls the table it marks dirty is told.
LocalWrite(r) ==
    /\ \E k \in Keys, h \in Hlcs :
          Insert(r, k, h) \/ Delete(r, k, h) \/ \E C \in ChangeSets : Update(r, k, C, h)
    /\ LET dirty == IF log' = log THEN "data" ELSE "log" IN
       due' = [x \in Pulls |-> due[x] \/ (x[2] = r /\ x[3] = dirty)]
    /\ UNCHANGED <<cursor, answer, faults>>

\* What a scan of x's table at its source finds.
Found(x, after) == OfTable(Scan(x[2], after, Filter), x[3])

\* The source scans the table and answers with one page.
Answer(x) ==
    /\ due[x] /\ answer[x] = NoAnswer
    /\ LET a == Paginate(Found(x, cursor[x])) IN
        /\ answer' = [answer EXCEPT ![x] = a]
        /\ due' = [due EXCEPT ![x] = a.more]
    /\ UNCHANGED <<vars, cursor, faults>>

Resumed(c, page) == IF Empty(page) THEN c ELSE Later(c, Newest(HlcsIn(page)))

\* The puller applies the page and saves the cursor.
Receive(x) ==
    /\ answer[x] # NoAnswer
    /\ IF Empty(answer[x].page) THEN UNCHANGED vars ELSE Deliver(x[1], answer[x].page)
    /\ cursor' = [cursor EXCEPT ![x] = Resumed(@, answer[x].page)]
    /\ answer' = [answer EXCEPT ![x] = NoAnswer]
    /\ UNCHANGED <<due, faults>>

\* It dies after the apply and before the cursor is saved: it asks again.
ReceiveUnsaved(x) ==
    /\ faults < MaxFaults /\ faults' = faults + 1
    /\ answer[x] # NoAnswer /\ ~Empty(answer[x].page)
    /\ Deliver(x[1], answer[x].page)
    /\ answer' = [answer EXCEPT ![x] = NoAnswer]
    /\ due' = [due EXCEPT ![x] = TRUE]
    /\ UNCHANGED cursor

\* The answer is lost; the puller asks again.
LoseAnswer(x) ==
    /\ faults < MaxFaults /\ faults' = faults + 1
    /\ answer[x] # NoAnswer
    /\ answer' = [answer EXCEPT ![x] = NoAnswer]
    /\ due' = [due EXCEPT ![x] = TRUE]
    /\ UNCHANGED <<vars, cursor>>

DrainInit ==
    /\ Init
    /\ cursor = [x \in Pulls |-> None]
    /\ due = [x \in Pulls |-> FALSE]
    /\ answer = [x \in Pulls |-> NoAnswer]
    /\ faults = 0

Pull(x) == Answer(x) \/ Receive(x)

DrainNext ==
    \/ \E r \in Replicas : LocalWrite(r)
    \/ \E x \in Pulls : Pull(x) \/ ReceiveUnsaved(x) \/ LoseAnswer(x)

\* The loops keep running: while some pull can go on, one of them does. Nobody has
\* to write.
DrainSpec ==
    /\ DrainInit /\ [][DrainNext]_allVars
    /\ WF_allVars(\E x \in Pulls : Pull(x))

-----------------------------------------------------------------------------
\* What r has of the change m: the column at least as new, or a delete of the row
\* that is.
Has(r, m) ==
    \/ rows[r][m.k].at[m.c] >= m.h
    \/ \E d \in log[r] : d.k = m.k /\ d.h >= m.h

\* "a client can resume the next page at the max HLC of the page just received":
\* what a source has to tell of a table at or below the cursor of a pull of that
\* table, the puller has. No group is left behind in part, and no write made while
\* pages of this or the other table were under way is jumped over. It needs scans of
\* the source's own changes: a relayed change may arrive at the source with an HLC
\* below the cursors of its pullers. And it needs a cursor per table: a page made of
\* the scans of several tables may end at a change made after the first scan.
CursorCovers ==
    \A x \in Pulls :
        LET told == Page(Found(x, None), cursor[x])
        IN  (\A m \in told.cells : Has(x[1], m)) /\ told.dels \subseteq log[x[1]]

\* A drain ends: once the writing stops, every puller has got everything, even
\* where one transaction alone exceeds the budget and answers were lost.
DrainEnds ==
    <>[](\A x \in Pulls : Empty(Found(x, cursor[x])) /\ answer[x] = NoAnswer)
=============================================================================
