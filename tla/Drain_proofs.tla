---------------------------- MODULE Drain_proofs -----------------------------
(***************************************************************************)
(* Proofs about Drain for any number of replicas, any keys, columns and    *)
(* budget, and any number of lost answers and unsaved cursors. Sync's Inv  *)
(* stays inductive. What a puller has got of its source is preserved by    *)
(* every step of every replica (Moves): nobody loses a column without a    *)
(* newer delete, and what a source says in its own name is either what it  *)
(* said before or newer than its clock, hence beyond every cursor.         *)
(***************************************************************************)
EXTENDS Drain, Sync_proofs

\* A replica with this row and delete log has column c of key k as of HLC h, or a
\* delete of the row at least as new.
HasCol(row, L, k, c, h) ==
    row.at[c] >= h \/ \E d \in L : d.k = k /\ d.h >= h

\* p scans column c of this row as its own.
OwnCol(p, row, c) == Live(row) /\ Node(ColHlc(row, c)) = p

\* Whatever p wrote itself to table t up to HLC e, r has or gets with the batch b. R
\* and L are everybody's rows and delete logs.
CoveredBy(R, L, r, p, t, b, e) ==
    /\ t = "data" => \A k \in Keys, c \in Cols :
          LET h == ColHlc(R[p][k], c) IN
          OwnCol(p, R[p][k], c) /\ h <= e =>
              \/ HasCol(R[r][k], L[r], k, c, h)
              \/ \E m \in b.cells : m.k = k /\ m.c = c /\ m.h = h
    /\ t = "log" => \A d \in L[p] : Node(d.h) = p /\ d.h <= e => d \in L[r] \cup b.dels

Nothing == [cells |-> {}, dels |-> {}]

\* The newest HLC of a page, where the cursor goes.
PageEnd(b) == Newest(HlcsIn(b))

\* A page names each column once.
Distinct(b) == \A m, n \in b.cells : m.k = n.k /\ m.c = n.c => m = n

PullInv ==
    /\ cursor \in [Pulls -> Hlcs \cup {None}]
    /\ due \in [Pulls -> BOOLEAN]
    /\ answer \in [Pulls -> {NoAnswer} \cup [page : Batch, more : BOOLEAN]]
    /\ faults \in 0..MaxFaults

\* The pull rp[1] makes of table rp[3] of rp[2], with its cursor and the answer under
\* way: both are HLCs of the source behind its clock C, the page carries what the
\* source wrote itself; up to its cursor the puller has it all, up to the end of the
\* page it will.
PairOK(R, L, C, rp, cur, ans) ==
    /\ cur <= C[rp[2]] /\ (cur = None \/ Node(cur) = rp[2])
    /\ CoveredBy(R, L, rp[1], rp[2], rp[3], Nothing, cur)
    /\ ans # NoAnswer =>
          /\ \A h \in HlcsIn(ans.page) : h <= C[rp[2]] /\ Node(h) = rp[2]
          /\ Distinct(ans.page)
          /\ ~Empty(ans.page) =>
                CoveredBy(R, L, rp[1], rp[2], rp[3], ans.page, PageEnd(ans.page))

CoverInv == \A rp \in Pulls : PairOK(rows, log, clock, rp, cursor[rp], answer[rp])

\* What a step may do to rows, logs and clocks: clocks and logs grow, a column is
\* given up only for a newer delete, and what a replica says in its own name it
\* said before or is newer than its clock was.
Moves ==
    /\ \A r \in Replicas : clock[r] <= clock'[r] /\ log[r] \subseteq log'[r]
    /\ \A r \in Replicas, k \in Keys, c \in Cols, h \in Nat :
          HasCol(rows[r][k], log[r], k, c, h) => HasCol(rows'[r][k], log'[r], k, c, h)
    /\ \A p \in Replicas, k \in Keys, c \in Cols :
          OwnCol(p, rows'[p][k], c) =>
              \/ ColHlc(rows'[p][k], c) > clock[p]
              \/ /\ OwnCol(p, rows[p][k], c)
                 /\ ColHlc(rows'[p][k], c) = ColHlc(rows[p][k], c)
    /\ \A p \in Replicas : \A d \in log'[p] :
          Node(d.h) = p => d.h > clock[p] \/ d \in log[p]

-----------------------------------------------------------------------------
(* Numbers in rows and batches                                             *)

\* Under Inv, HLCs in rows, logs and clocks are numbers.
LEMMA StoredAreNat ==
    ASSUME Inv, NEW r \in Replicas
    PROVE  /\ clock[r] \in Nat
           /\ \A d \in log[r] : d.h \in Nat /\ d.h <= clock[r]
           /\ \A k \in Keys :
                 /\ rows[r][k] \in Row
                 /\ Live(rows[r][k]) \/ rows[r][k] = Absent
                 /\ rows[r][k].hlc \in Nat /\ rows[r][k].hlc <= clock[r]
                 /\ \A c \in Cols : /\ rows[r][k].at[c] \in Nat
                                    /\ rows[r][k].at[c] <= rows[r][k].hlc
                                    /\ ColHlc(rows[r][k], c) \in Nat
                                    /\ ColHlc(rows[r][k], c) <= rows[r][k].hlc
  <1>1. /\ rows \in [Replicas -> [Keys -> Row]]
        /\ log[r] \subseteq Tombstone
        /\ clock[r] \in Hlcs \cup {None}
        /\ \A d \in log[r] : d.h <= clock[r]
    BY DEF Inv, TypeOK, ClockCovers
  <1>2. clock[r] \in Nat
    BY <1>1, HlcOrNoneIsNat
  <1>3. \A d \in log[r] : d.h \in Nat
    BY <1>1, HlcsAreNat DEF Tombstone
  <1>4. ASSUME NEW k \in Keys
        PROVE  /\ rows[r][k] \in Row
               /\ Live(rows[r][k]) \/ rows[r][k] = Absent
               /\ rows[r][k].hlc \in Nat /\ rows[r][k].hlc <= clock[r]
    <2>1. rows[r][k] \in Row /\ (Live(rows[r][k]) \/ rows[r][k] = Absent)
      BY <1>1 DEF Inv, TypeOK
    <2>2. rows[r][k].hlc \in Hlcs \cup {None} /\ rows[r][k].hlc <= clock[r]
      BY <2>1 DEF Row, Inv, ClockCovers
    <2> QED
      BY <2>1, <2>2, HlcOrNoneIsNat
  <1>5. ASSUME NEW k \in Keys, NEW c \in Cols
        PROVE  /\ rows[r][k].at[c] \in Nat
               /\ rows[r][k].at[c] <= rows[r][k].hlc
               /\ ColHlc(rows[r][k], c) \in Nat
               /\ ColHlc(rows[r][k], c) <= rows[r][k].hlc
    <2>1. rows[r][k].at[c] \in Hlcs \cup {None}
      BY <1>4 DEF Row
    <2>2. rows[r][k].at[c] \in Nat /\ rows[r][k].at[c] <= rows[r][k].hlc
      BY <2>1, HlcOrNoneIsNat DEF Inv, RowDominates
    <2>3. rows[r][k].hlc \in Nat /\ rows[r][k].hlc <= rows[r][k].hlc
      BY <1>4
    <2> QED
      BY <2>2, <2>3 DEF ColHlc
  <1> QED
    BY <1>1, <1>2, <1>3, <1>4, <1>5

\* The HLCs of a batch are HLCs, and a batch without any is empty.
LEMMA BatchHlcs ==
    ASSUME NEW b \in Batch
    PROVE  /\ HlcsIn(b) \subseteq Hlcs /\ HlcsIn(b) \subseteq Nat
           /\ \A m \in b.cells : m.h \in HlcsIn(b)
           /\ \A d \in b.dels : d.h \in HlcsIn(b)
           /\ Empty(b) <=> HlcsIn(b) = {}
           /\ ~Empty(b) => PageEnd(b) \in HlcsIn(b) /\ \A h \in HlcsIn(b) : h <= PageEnd(b)
  <1>1. HlcsIn(b) \subseteq Hlcs
    BY DEF HlcsIn, HlcsOf, Batch, Cell, Tombstone
  <1>2. HlcsIn(b) \subseteq Nat /\ MaxHlc \in Nat /\ HlcsIn(b) \subseteq 0..MaxHlc
    BY <1>1, HlcsAreNat
  <1>3. /\ \A m \in b.cells : m.h \in HlcsIn(b)
        /\ \A d \in b.dels : d.h \in HlcsIn(b)
        /\ Empty(b) <=> HlcsIn(b) = {}
    BY DEF HlcsIn, HlcsOf, Empty
  <1>4. HlcsIn(b) # {} => Newest(HlcsIn(b)) \in HlcsIn(b)
                          /\ \A h \in HlcsIn(b) : h <= Newest(HlcsIn(b))
    BY <1>2, NewestIsGreatest
  <1> QED
    BY <1>1, <1>2, <1>3, <1>4 DEF PageEnd

-----------------------------------------------------------------------------
(* Local transactions                                                      *)

LEMMA LocalMoves ==
    ASSUME Inv, NEW q \in Replicas, LocalWrite(q)
    PROVE  Inv' /\ Moves
  <1>1. PICK k \in Keys, h \in Hlcs :
            Insert(q, k, h) \/ Delete(q, k, h) \/ \E C \in ChangeSets : Update(q, k, C, h)
    BY DEF LocalWrite
  <1>2. Inv'
    BY <1>1, InsertInv, DeleteInv, UpdateInv
  <1>3. Draws(q, h)
    BY <1>1 DEF Insert, Delete, Update
  <1>4. /\ h \in Nat /\ h # None /\ rows[q][k].hlc \in Nat /\ rows[q][k].hlc < h
        /\ clock[q] \in Hlcs \cup {None} /\ clock[q] \in Nat
    BY <1>3, LocalFacts, StoredAreNat DEF Inv, TypeOK
  <1>5. h > clock[q]
    BY <1>3, <1>4, DrawIsNewer
  <1>6. /\ rows \in [Replicas -> [Keys -> Row]]
        /\ log \in [Replicas -> SUBSET Tombstone]
        /\ clock \in [Replicas -> Hlcs \cup {None}]
    BY DEF Inv, TypeOK
  <1>7. /\ clock' = [clock EXCEPT ![q] = h]
        /\ \A r \in Replicas, j \in Keys : r # q \/ j # k => rows'[r][j] = rows[r][j]
        /\ \A r \in Replicas : r # q => log'[r] = log[r]
        /\ log[q] \subseteq log'[q] /\ log'[q] \subseteq log[q] \cup {[k |-> k, h |-> h]}
    BY <1>1, <1>6 DEF Insert, Delete, Update
  <1>8. \A r \in Replicas : clock[r] <= clock'[r] /\ log[r] \subseteq log'[r]
    <2> TAKE r \in Replicas
    <2>1. clock[r] \in Nat
      BY StoredAreNat
    <2>2. clock'[r] = IF r = q THEN h ELSE clock[r]
      BY <1>6, <1>7
    <2>3. log[r] \subseteq log'[r]
      BY <1>7
    <2> QED
      BY <1>4, <1>5, <2>1, <2>2, <2>3
  <1>9. ASSUME NEW c \in Cols
        PROVE  /\ \A x \in Nat : rows[q][k].at[c] >= x => HasCol(rows'[q][k], log'[q], k, c, x)
               /\ OwnCol(q, rows'[q][k], c) =>
                     \/ ColHlc(rows'[q][k], c) > clock[q]
                     \/ /\ OwnCol(q, rows[q][k], c)
                        /\ ColHlc(rows'[q][k], c) = ColHlc(rows[q][k], c)
    <2>1. rows[q][k].at[c] \in Nat /\ rows[q][k].at[c] < h
      <3>1. rows[q][k].at[c] \in Nat /\ rows[q][k].at[c] <= rows[q][k].hlc
        BY StoredAreNat
      <3> QED
        BY <1>4, <3>1
    <2>2. CASE Insert(q, k, h)
      <3>1. rows'[q][k] = Inserted(h)
        BY <1>6, <2>2 DEF Insert
      <3>2. rows'[q][k].at[c] = h
        BY <3>1 DEF Inserted
      <3>3. ColHlc(rows'[q][k], c) = h
        BY <1>4, <3>2 DEF ColHlc
      <3>4. \A x \in Nat : rows[q][k].at[c] >= x => rows'[q][k].at[c] >= x
        BY <1>4, <2>1, <3>2
      <3> QED
        BY <1>5, <3>3, <3>4 DEF HasCol
    <2>3. CASE Delete(q, k, h)
      <3>1. rows'[q][k] = Absent /\ [k |-> k, h |-> h] \in log'[q]
        BY <1>6, <2>3 DEF Delete
      <3>2. ~OwnCol(q, rows'[q][k], c)
        BY <3>1 DEF OwnCol, Live, Absent
      <3>3. ASSUME NEW x \in Nat, rows[q][k].at[c] >= x
            PROVE  HasCol(rows'[q][k], log'[q], k, c, x)
        <4> DEFINE d == [k |-> k, h |-> h]
        <4>1. d \in log'[q] /\ d.k = k /\ d.h = h
          BY <3>1
        <4>2. h >= x
          BY <1>4, <2>1, <3>3
        <4> QED
          BY <4>1, <4>2 DEF HasCol
      <3> QED
        BY <3>2, <3>3
    <2>4. ASSUME NEW C \in ChangeSets, Update(q, k, C, h)
          PROVE  /\ \A x \in Nat : rows[q][k].at[c] >= x => HasCol(rows'[q][k], log'[q], k, c, x)
                 /\ OwnCol(q, rows'[q][k], c) =>
                       \/ ColHlc(rows'[q][k], c) > clock[q]
                       \/ /\ OwnCol(q, rows[q][k], c)
                          /\ ColHlc(rows'[q][k], c) = ColHlc(rows[q][k], c)
      <3>1. /\ Live(rows[q][k])
            /\ rows'[q][k].hlc = h
            /\ rows'[q][k].at[c] = IF c \in C THEN h ELSE rows[q][k].at[c]
        BY <1>6, <2>4 DEF Update
      <3>2. \A x \in Nat : rows[q][k].at[c] >= x => rows'[q][k].at[c] >= x
        BY <1>4, <2>1, <3>1
      <3>3. ColHlc(rows'[q][k], c) = h \/ ColHlc(rows'[q][k], c) = ColHlc(rows[q][k], c)
        BY <3>1 DEF ColHlc
      <3> QED
        BY <1>5, <3>1, <3>2, <3>3 DEF HasCol, OwnCol
    <2> QED
      BY <1>1, <2>2, <2>3, <2>4
  <1>10. \A r \in Replicas, j \in Keys, c \in Cols, x \in Nat :
            HasCol(rows[r][j], log[r], j, c, x) => HasCol(rows'[r][j], log'[r], j, c, x)
    <2> SUFFICES ASSUME NEW r \in Replicas, NEW j \in Keys, NEW c \in Cols, NEW x \in Nat,
                        HasCol(rows[r][j], log[r], j, c, x)
                 PROVE  HasCol(rows'[r][j], log'[r], j, c, x)
      OBVIOUS
    <2>1. CASE \E d \in log[r] : d.k = j /\ d.h >= x
      BY <1>8, <2>1 DEF HasCol
    <2>2. CASE rows[r][j].at[c] >= x
      BY <1>7, <1>9, <2>2 DEF HasCol
    <2> QED
      BY <2>1, <2>2 DEF HasCol
  <1>11. \A p \in Replicas, j \in Keys, c \in Cols :
            OwnCol(p, rows'[p][j], c) =>
                \/ ColHlc(rows'[p][j], c) > clock[p]
                \/ /\ OwnCol(p, rows[p][j], c)
                   /\ ColHlc(rows'[p][j], c) = ColHlc(rows[p][j], c)
    BY <1>7, <1>9
  <1>12. \A p \in Replicas : \A d \in log'[p] :
            Node(d.h) = p => d.h > clock[p] \/ d \in log[p]
    BY <1>5, <1>7
  <1> QED
    BY <1>2, <1>8, <1>10, <1>11, <1>12 DEF Moves

-----------------------------------------------------------------------------
(* Applying a page                                                         *)

\* process_row_group never lowers a column or the row HLC, and what a column is
\* shipped under afterwards is what it was, or an HLC of the page.
LEMMA AppliedRow ==
    ASSUME Inv, NEW r \in Replicas, NEW k \in Keys, NEW b \in Batch, NEW c \in Cols
    PROVE  LET old == rows[r][k]
               new == ApplyRow(r, k, b)
           IN  /\ new.hlc \in Nat /\ new.at[c] \in Nat /\ old.at[c] \in Nat
               /\ new.at[c] >= old.at[c] /\ new.hlc >= new.at[c]
               /\ Live(new) =>
                     \/ ColHlc(new, c) \in HlcsIn(b)
                     \/ Live(old) /\ ColHlc(new, c) = ColHlc(old, c)
  <1> DEFINE old == rows[r][k]
             new == ApplyRow(r, k, b)
             S == Staged(old, k, b)
             top == Newest(HlcsOf(S))
  <1>1. /\ old \in Row /\ (Live(old) \/ old = Absent)
        /\ old.hlc \in Nat /\ \A x \in Cols : old.at[x] \in Nat /\ old.at[x] <= old.hlc
    BY StoredAreNat
  <1>2. CASE ~Writes(r, k, b)
    <2>1. new = old
      BY <1>2 DEF ApplyRow
    <2> QED
      BY <1>1, <2>1
  <1>3. CASE Writes(r, k, b)
    <2>1. new = Merge(old, S)
      BY <1>3 DEF ApplyRow
    <2>2. S # {} /\ S \subseteq b.cells /\ S \subseteq Cell
          /\ \A m \in S : m.h > old.at[m.c]
      BY <1>3 DEF Writes, Staged, Batch
    <2>3. /\ new \in Row /\ Live(new)
          /\ \A x \in Cols : new.at[x] <= new.hlc
          /\ new.hlc = old.hlc \/ new.hlc = top
      BY <1>1, <2>1, <2>2, MergeRow
    <2>4. HlcsOf(S) \subseteq HlcsIn(b) /\ HlcsOf(S) \subseteq Hlcs /\ HlcsOf(S) # {}
      BY <2>2 DEF HlcsOf, HlcsIn, Cell
    <2>5. top \in HlcsIn(b)
      <3>1. MaxHlc \in Nat /\ HlcsOf(S) \subseteq 0..MaxHlc
        BY <2>4, HlcsAreNat
      <3> QED
        BY <2>4, <3>1, NewestIsGreatest
    <2>6. new.hlc \in Nat /\ new.at[c] \in Nat
      <3>1. new.hlc \in Hlcs \cup {None} /\ new.at[c] \in Hlcs \cup {None}
        BY <2>3 DEF Row
      <3> QED
        BY <3>1, HlcOrNoneIsNat
    <2>7. \/ new.at[c] \in HlcsIn(b) /\ new.at[c] > old.at[c] /\ new.at[c] # None
          \/ new.at[c] = old.at[c]
      <3>1. CASE \E m \in S : m.c = c
        <4> DEFINE w == CHOOSE m \in S : m.c = c
        <4>1. w \in S /\ w.c = c
          BY <3>1
        <4>2. new.at[c] = w.h
          BY <2>1, <3>1 DEF Merge
        <4> HIDE DEF w
        <4>3. w.h \in Hlcs /\ w.h \in HlcsIn(b) /\ w.h > old.at[c]
          BY <2>2, <2>4, <4>1 DEF HlcsOf
        <4> QED
          BY <4>2, <4>3, HlcsAreNat
      <3>2. CASE ~\E m \in S : m.c = c
        BY <2>1, <3>2 DEF Merge
      <3> QED
        BY <3>1, <3>2
    <2>8. new.at[c] = None => \/ ColHlc(new, c) \in HlcsIn(b)
                              \/ Live(old) /\ ColHlc(new, c) = ColHlc(old, c)
      <3> SUFFICES ASSUME new.at[c] = None
                   PROVE  \/ ColHlc(new, c) \in HlcsIn(b)
                          \/ Live(old) /\ ColHlc(new, c) = ColHlc(old, c)
        OBVIOUS
      <3>1. old.at[c] = None /\ ColHlc(new, c) = new.hlc /\ ColHlc(old, c) = old.hlc
        BY <2>7 DEF ColHlc
      <3> QED
        BY <2>3, <2>5, <3>1 DEF Live
    <2>9. new.at[c] # None => \/ ColHlc(new, c) \in HlcsIn(b)
                              \/ Live(old) /\ ColHlc(new, c) = ColHlc(old, c)
      <3> SUFFICES ASSUME new.at[c] # None, new.at[c] = old.at[c]
                   PROVE  Live(old) /\ ColHlc(new, c) = ColHlc(old, c)
        BY <2>7 DEF ColHlc
      <3>1. old # Absent
        BY DEF Absent
      <3> QED
        BY <1>1, <3>1 DEF ColHlc
    <2> HIDE DEF new, old
    <2>10. new.at[c] >= old.at[c] /\ new.hlc >= new.at[c]
      BY <1>1, <2>3, <2>6, <2>7
    <2>11. /\ new.hlc \in Nat /\ new.at[c] \in Nat /\ old.at[c] \in Nat
           /\ new.at[c] >= old.at[c] /\ new.hlc >= new.at[c]
           /\ Live(new) =>
                 \/ ColHlc(new, c) \in HlcsIn(b)
                 \/ Live(old) /\ ColHlc(new, c) = ColHlc(old, c)
      BY <1>1, <2>6, <2>8, <2>9, <2>10
    <2> QED
      BY <2>11 DEF new, old
  <1> QED
    BY <1>2, <1>3

\* A propagated delete takes the row away for a delete at least as new.
LEMMA PropagateKeeps ==
    ASSUME NEW row, NEW L, NEW k \in Keys, NEW b \in Batch, NEW c \in Cols, NEW x \in Nat,
           row.hlc \in Nat, row.at[c] \in Nat, row.at[c] <= row.hlc,
           HasCol(row, L, k, c, x)
    PROVE  HasCol(Propagate(row, k, b), L \cup b.dels, k, c, x)
  <1>1. CASE \E d \in L : d.k = k /\ d.h >= x
    BY <1>1 DEF HasCol
  <1>2. CASE row.at[c] >= x
    <2>1. CASE \E d \in b.dels : d.k = k /\ ShouldPropagate(row, d)
      <3>1. PICK d \in b.dels : d.k = k /\ ~(row.hlc > d.h)
        BY <2>1 DEF ShouldPropagate
      <3>2. d.h \in Nat
        BY <3>1, HlcsAreNat DEF Batch, Tombstone
      <3>3. d.h >= x
        BY <1>2, <3>1, <3>2
      <3> QED
        BY <3>1, <3>3 DEF HasCol
    <2>2. CASE ~\E d \in b.dels : d.k = k /\ ShouldPropagate(row, d)
      <3>1. Propagate(row, k, b) = row
        BY <2>2 DEF Propagate
      <3> QED
        BY <1>2, <3>1 DEF HasCol
    <2> QED
      BY <2>1, <2>2
  <1> QED
    BY <1>1, <1>2 DEF HasCol

\* What a delivery does to rows, logs and clocks.
LEMMA DeliverEffect ==
    ASSUME Inv, NEW r \in Replicas, NEW b \in Batch, Deliver(r, b)
    PROVE  /\ \A k \in Keys : rows'[r][k] = Propagate(ApplyRow(r, k, b), k, b)
           /\ log'[r] = log[r] \cup b.dels
           /\ \A q \in Replicas : q # r => /\ rows'[q] = rows[q]
                                           /\ log'[q] = log[q]
                                           /\ clock'[q] = clock[q]
           /\ clock[r] <= clock'[r]
  <1>1. /\ rows \in [Replicas -> [Keys -> Row]]
        /\ log \in [Replicas -> SUBSET Tombstone]
        /\ clock \in [Replicas -> Hlcs \cup {None}]
    BY DEF Inv, TypeOK
  <1>2. clock'[r] = AdvancePastRemote(clock[r], Accepted(r, b))
    BY <1>1 DEF Deliver
  <1>3. clock[r] <= clock'[r]
    BY <1>1, <1>2, AcceptedAreHlcs, AdvanceCovers
  <1> QED
    BY <1>1, <1>3 DEF Deliver

\* A page without HLCs of the receiver's own node.
LEMMA DeliverMoves ==
    ASSUME Inv, NEW r \in Replicas, NEW b \in Batch, Deliver(r, b),
           \A h \in HlcsIn(b) : Node(h) # r
    PROVE  Inv' /\ Moves
  <1>1. Inv'
    BY DeliverInv
  <1>2. /\ \A k \in Keys : rows'[r][k] = Propagate(ApplyRow(r, k, b), k, b)
        /\ log'[r] = log[r] \cup b.dels
        /\ \A q \in Replicas : q # r => /\ rows'[q] = rows[q]
                                        /\ log'[q] = log[q]
                                        /\ clock'[q] = clock[q]
        /\ clock[r] <= clock'[r]
    BY DeliverEffect
  <1>3. \A q \in Replicas : clock[q] <= clock'[q] /\ log[q] \subseteq log'[q]
    BY <1>2, StoredAreNat
  <1>4. \A q \in Replicas, k \in Keys, c \in Cols, x \in Nat :
            HasCol(rows[q][k], log[q], k, c, x) => HasCol(rows'[q][k], log'[q], k, c, x)
    <2> SUFFICES ASSUME NEW k \in Keys, NEW c \in Cols, NEW x \in Nat,
                        HasCol(rows[r][k], log[r], k, c, x)
                 PROVE  HasCol(rows'[r][k], log'[r], k, c, x)
      BY <1>2
    <2> DEFINE old == rows[r][k]
               new == ApplyRow(r, k, b)
    <2>1. /\ new.hlc \in Nat /\ new.at[c] \in Nat /\ old.at[c] \in Nat
          /\ new.at[c] >= old.at[c] /\ new.hlc >= new.at[c]
      BY AppliedRow
    <2> HIDE DEF new
    <2>a. old.at[c] >= x => new.at[c] >= x
      BY <2>1
    <2>2. HasCol(new, log[r], k, c, x)
      BY <2>a DEF HasCol
    <2>3. new.at[c] <= new.hlc
      BY <2>1
    <2>4. HasCol(Propagate(new, k, b), log[r] \cup b.dels, k, c, x)
      BY <2>1, <2>2, <2>3, PropagateKeeps
    <2> QED
      BY <1>2, <2>4 DEF new
  <1>5. \A q \in Replicas, k \in Keys, c \in Cols :
            OwnCol(q, rows'[q][k], c) =>
                \/ ColHlc(rows'[q][k], c) > clock[q]
                \/ /\ OwnCol(q, rows[q][k], c)
                   /\ ColHlc(rows'[q][k], c) = ColHlc(rows[q][k], c)
    <2> SUFFICES ASSUME NEW k \in Keys, NEW c \in Cols, OwnCol(r, rows'[r][k], c)
                 PROVE  /\ OwnCol(r, rows[r][k], c)
                        /\ ColHlc(rows'[r][k], c) = ColHlc(rows[r][k], c)
      BY <1>2
    <2>1. rows'[r][k] # Absent
      BY DEF OwnCol, Live, Absent
    <2>2. rows'[r][k] = ApplyRow(r, k, b)
      BY <1>2, <2>1 DEF Propagate
    <2>3. ColHlc(rows'[r][k], c) \notin HlcsIn(b)
      BY DEF OwnCol
    <2>4. Live(rows[r][k]) /\ ColHlc(rows'[r][k], c) = ColHlc(rows[r][k], c)
      BY <2>2, <2>3, AppliedRow DEF OwnCol
    <2> QED
      BY <2>4 DEF OwnCol
  <1>6. \A q \in Replicas : \A d \in log'[q] :
            Node(d.h) = q => d.h > clock[q] \/ d \in log[q]
    BY <1>2, BatchHlcs
  <1> QED
    BY <1>1, <1>3, <1>4, <1>5, <1>6 DEF Moves

\* After the delivery the receiver has every change of the page.
LEMMA Delivered ==
    ASSUME Inv, NEW r \in Replicas, NEW b \in Batch, Distinct(b), Deliver(r, b)
    PROVE  /\ \A m \in b.cells : HasCol(rows'[r][m.k], log'[r], m.k, m.c, m.h)
           /\ b.dels \subseteq log'[r]
  <1>1. /\ \A k \in Keys : rows'[r][k] = Propagate(ApplyRow(r, k, b), k, b)
        /\ log'[r] = log[r] \cup b.dels
    BY DeliverEffect
  <1>2. ASSUME NEW m \in b.cells
        PROVE  HasCol(rows'[r][m.k], log'[r], m.k, m.c, m.h)
    <2>1. m.k \in Keys /\ m.c \in Cols /\ m.h \in Hlcs
      BY DEF Batch, Cell
    <2>2. m.h \in Nat
      BY <2>1, HlcsAreNat
    <2> DEFINE k == m.k
               c == m.c
               old == rows[r][k]
               new == ApplyRow(r, k, b)
               S == Staged(old, k, b)
    <2>3. /\ new.hlc \in Nat /\ new.at[c] \in Nat /\ old.at[c] \in Nat
          /\ new.at[c] >= old.at[c] /\ new.hlc >= new.at[c]
      BY <2>1, AppliedRow
    <2>4. HasCol(new, log[r], k, c, m.h)
      <3>1. CASE m \notin S
        <4>1. ~(m.h > old.at[c])
          BY <3>1 DEF Staged
        <4> HIDE DEF new
        <4>2. new.at[c] >= m.h
          BY <2>2, <2>3, <4>1
        <4> QED
          BY <4>2 DEF HasCol
      <3>2. CASE m \in S /\ Writes(r, k, b)
        <4>1. \A x, y \in S : x.c = y.c => x = y
          BY DEF Staged, Distinct
        <4>2. new = Merge(old, S)
          BY <3>2 DEF ApplyRow
        <4> HIDE DEF S
        <4>3. new.at[c] = m.h
          BY <2>1, <3>2, <4>1, <4>2, MergeCols
        <4> QED
          BY <2>2, <4>3 DEF HasCol
      <3>3. CASE m \in S /\ ~Writes(r, k, b)
        <4>1. PICK d \in log[r] : d.k = k /\ d.h >= Newest(HlcsOf(S))
          BY <3>3 DEF Writes, Shadowed
        <4>2. HlcsOf(S) \subseteq Hlcs /\ m.h \in HlcsOf(S)
          BY <3>3 DEF HlcsOf, Staged, Batch, Cell
        <4>3. Newest(HlcsOf(S)) \in Hlcs /\ m.h <= Newest(HlcsOf(S))
          BY <4>2, NewestHlc
        <4>4. d.h \in Nat /\ Newest(HlcsOf(S)) \in Nat
          BY <4>3, StoredAreNat, HlcsAreNat
        <4>5. d.h >= m.h
          BY <2>2, <4>1, <4>3, <4>4
        <4> QED
          BY <4>1, <4>5 DEF HasCol
      <3> QED
        BY <3>1, <3>2, <3>3
    <2> HIDE DEF new
    <2>5. new.at[c] <= new.hlc
      BY <2>3
    <2>6. HasCol(Propagate(new, k, b), log[r] \cup b.dels, k, c, m.h)
      BY <2>1, <2>2, <2>3, <2>4, <2>5, PropagateKeeps
    <2> QED
      BY <1>1, <2>1, <2>6 DEF new
  <1> QED
    BY <1>1, <1>2

-----------------------------------------------------------------------------
(* The scan and its first page                                             *)

\* The text prefilter lets a row through that has a change h beyond the cursor, if the
\* cursor is an HLC of the same node or none.
LEMMA TextFinds ==
    ASSUME NEW top \in Hlcs \cup {None}, NEW after \in Hlcs \cup {None}, NEW h \in Nat,
           h <= top, h > after, after = None \/ Node(h) = Node(after)
    PROVE  TextAfter(top, after)
  <1>1. top \in Nat /\ after \in Nat
    BY HlcOrNoneIsNat
  <1>2. CASE after = None
    <2>1. top # None
      BY <1>1, <1>2 DEF None
    <2> QED
      BY <1>2, <2>1, TextAfterNone
  <1>3. CASE after # None
    <2>1. Node(h) = Node(after)
      BY <1>3
    <2>2. after < h
      BY <1>1
    <2> QED
      BY <1>1, <2>1, <2>2, TextMisses
  <1> QED
    BY <1>2, <1>3

\* What a scan finds is the source's own row, beyond the cursor, behind the clock.
LEMMA ScanFinds ==
    ASSUME Inv, NEW p \in Replicas, NEW after \in Hlcs \cup {None}, NEW origin
    PROVE  /\ \A m \in Scan(p, after, origin).cells :
                 \E k \in Keys, c \in Cols :
                     /\ m = CellOf(p, k, c) /\ Live(rows[p][k])
                     /\ m.h > after /\ m.h <= clock[p] /\ FromOrigin(p, origin, m.h)
           /\ \A d \in Scan(p, after, origin).dels :
                 d.h > after /\ d.h <= clock[p] /\ FromOrigin(p, origin, d.h)
           /\ Distinct(Scan(p, after, origin))
  <1> DEFINE b == Scan(p, after, origin)
  <1>1. after \in Nat /\ clock[p] \in Nat
    BY HlcOrNoneIsNat, StoredAreNat
  <1>2. \A k \in Keys, c \in Cols :
            /\ rows[p][k].hlc \in Nat /\ rows[p][k].hlc <= clock[p]
            /\ ColHlc(rows[p][k], c) \in Nat
            /\ ColHlc(rows[p][k], c) <= rows[p][k].hlc
            /\ CellOf(p, k, c).h = ColHlc(rows[p][k], c)
            /\ CellOf(p, k, c).k = k /\ CellOf(p, k, c).c = c
    BY StoredAreNat DEF CellOf
  <1>3. \A m : m \in b.cells <=>
            \E k \in Keys, c \in Cols :
                /\ TextAfter(rows[p][k].hlc, after) /\ m = CellOf(p, k, c)
                /\ m.h > after /\ FromOrigin(p, origin, m.h)
    BY DEF Scan, Prefiltered
  <1>5. ASSUME NEW m \in b.cells
        PROVE  \E k \in Keys, c \in Cols :
                   /\ m = CellOf(p, k, c) /\ Live(rows[p][k])
                   /\ m.h > after /\ m.h <= clock[p] /\ FromOrigin(p, origin, m.h)
    <2>1. PICK k \in Keys, c \in Cols :
              /\ m = CellOf(p, k, c)
              /\ m.h > after /\ FromOrigin(p, origin, m.h)
      BY <1>3
    <2>2. rows[p][k].hlc # None
      BY <1>1, <1>2, <2>1 DEF None
    <2>3. m.h <= clock[p]
      BY <1>1, <1>2, <2>1
    <2> QED
      BY <2>1, <2>2, <2>3 DEF Live
  <1>6. \A d \in b.dels : d.h > after /\ d.h <= clock[p] /\ FromOrigin(p, origin, d.h)
    BY StoredAreNat DEF Scan
  <1>7. Distinct(b)
    BY <1>2, <1>3 DEF Distinct
  <1> QED
    BY <1>5, <1>6, <1>7

\* It finds every column and every delete beyond the cursor that passes the origin
\* filter, if they and the cursor are of one node.
LEMMA ScanMissesNone ==
    ASSUME Inv, NEW p \in Replicas, NEW after \in Hlcs \cup {None}, NEW origin
    PROVE  /\ \A k \in Keys, c \in Cols :
                 LET h == ColHlc(rows[p][k], c) IN
                 /\ h > after /\ FromOrigin(p, origin, h)
                 /\ after = None \/ Node(h) = Node(after)
                 => CellOf(p, k, c) \in Scan(p, after, origin).cells
           /\ \A d \in log[p] :
                 /\ d.h > after /\ FromOrigin(p, origin, d.h)
                 /\ after = None \/ Node(d.h) = Node(after)
                 => d \in Scan(p, after, origin).dels
  <1> DEFINE b == Scan(p, after, origin)
  <1>1. after \in Nat /\ clock[p] \in Nat
    BY HlcOrNoneIsNat, StoredAreNat
  <1>2. \A k \in Keys, c \in Cols :
            /\ rows[p][k].hlc \in Nat /\ rows[p][k].hlc <= clock[p]
            /\ ColHlc(rows[p][k], c) \in Nat
            /\ ColHlc(rows[p][k], c) <= rows[p][k].hlc
            /\ CellOf(p, k, c).h = ColHlc(rows[p][k], c)
            /\ CellOf(p, k, c).k = k /\ CellOf(p, k, c).c = c
    BY StoredAreNat DEF CellOf
  <1>3. \A m : m \in b.cells <=>
            \E k \in Keys, c \in Cols :
                /\ TextAfter(rows[p][k].hlc, after) /\ m = CellOf(p, k, c)
                /\ m.h > after /\ FromOrigin(p, origin, m.h)
    BY DEF Scan, Prefiltered
  <1>4. ASSUME NEW k \in Keys, NEW c \in Cols, ColHlc(rows[p][k], c) > after,
               FromOrigin(p, origin, ColHlc(rows[p][k], c)),
               after = None \/ Node(ColHlc(rows[p][k], c)) = Node(after)
        PROVE  CellOf(p, k, c) \in b.cells
    <2>a. rows[p][k].hlc \in Hlcs \cup {None}
      BY DEF Inv, TypeOK, Row
    <2>1. TextAfter(rows[p][k].hlc, after)
      BY <1>2, <1>4, <2>a, TextFinds
    <2>2. CellOf(p, k, c).h > after /\ FromOrigin(p, origin, CellOf(p, k, c).h)
      BY <1>2, <1>4
    <2> QED
      BY <1>3, <2>1, <2>2
  <1>5. ASSUME NEW d \in log[p], d.h > after, FromOrigin(p, origin, d.h),
               after = None \/ Node(d.h) = Node(after)
        PROVE  d \in b.dels
    <2>1. log[p] \subseteq Tombstone
      BY DEF Inv, TypeOK
    <2>2. d.h \in Hlcs
      BY <2>1 DEF Tombstone
    <2>3. d.h \in Nat
      BY <2>2, HlcsAreNat
    <2>4. d.h <= d.h
      BY <2>3
    <2>5. TextAfter(d.h, after)
      BY <1>5, <2>2, <2>3, <2>4, TextFinds
    <2> QED
      BY <1>5, <2>5 DEF Scan
  <1> QED
    BY <1>4, <1>5

\* Max and Min of the HLCs of a batch are among them.
LEMMA MaxHlcIn ==
    ASSUME NEW S, S \subseteq Hlcs, S # {}
    PROVE  Max(S) \in S /\ \A g \in S : Max(S) >= g
  <1>1. MaxHlc \in Nat /\ S \subseteq 0..MaxHlc /\ S \subseteq Nat
    BY HlcsAreNat
  <1>2. PICK t \in S : \A g \in S : g <= t
    BY <1>1, NewestIsGreatest
  <1>3. \A g \in S : t >= g
    BY <1>1, <1>2
  <1> QED
    BY <1>3 DEF Max

LEMMA MinHlcIn ==
    ASSUME NEW S, S \subseteq Hlcs, S # {}
    PROVE  Min(S) \in S
  <1>1. S \subseteq Nat
    BY HlcsAreNat
  <1>2. \E x \in S : \A y \in S : x <= y
    BY <1>1, LeastExists
  <1> QED
    BY <1>2 DEF Min

\* paginate_changes cuts a batch at one of its HLCs, whatever the budget.
LEMMA PaginateCuts ==
    ASSUME NEW b \in Batch
    PROVE  /\ Paginate(b) \in [page : Batch, more : BOOLEAN]
           /\ \/ Paginate(b).page = b /\ Empty(b)
              \/ \E e \in HlcsIn(b) : Paginate(b).page = Page(b, e)
  <1> DEFINE hs == HlcsIn(b)
             ends == {h \in hs : h = Min(hs) \/ Size(Page(b, h)) <= Budget}
  <1>1. CASE hs = {}
    <2>1. Paginate(b) = [page |-> b, more |-> FALSE]
      BY <1>1 DEF Paginate
    <2> QED
      BY <1>1, <2>1, BatchHlcs
  <1>2. CASE hs # {}
    <2>1. hs \subseteq Hlcs
      BY BatchHlcs
    <2>2. Min(hs) \in ends
      BY <1>2, <2>1, MinHlcIn
    <2>3. ends \subseteq hs /\ ends \subseteq Hlcs /\ ends # {}
      BY <2>1, <2>2
    <2>4. Max(ends) \in hs
      BY <2>3, MaxHlcIn
    <2>5. Paginate(b) = [page |-> Page(b, Max(ends)), more |-> Max(ends) # Max(hs)]
      BY <1>2 DEF Paginate
    <2> HIDE DEF ends
    <2>6. Page(b, Max(ends)) \in Batch
      BY PageIsBatch
    <2> QED
      BY <2>4, <2>5, <2>6
  <1> QED
    BY <1>1, <1>2

\* A page cut at one of the batch's HLCs ends there.
LEMMA PageEndsThere ==
    ASSUME NEW b \in Batch, NEW e \in HlcsIn(b)
    PROVE  /\ ~Empty(Page(b, e)) /\ PageEnd(Page(b, e)) = e
           /\ HlcsIn(Page(b, e)) \subseteq HlcsIn(b)
  <1> DEFINE g == Page(b, e)
  <1>1. g \in Batch
    BY PageIsBatch
  <1>2. e \in Nat /\ HlcsIn(b) \subseteq Nat
    BY BatchHlcs
  <1>3. \A h : h \in HlcsIn(g) <=> h \in HlcsIn(b) /\ h <= e
    BY DEF HlcsIn, HlcsOf, Page
  <1>4. e \in HlcsIn(g)
    BY <1>2, <1>3
  <1> HIDE DEF g
  <1>5. ~Empty(g)
    BY <1>1, <1>4, BatchHlcs
  <1>6. PageEnd(g) \in HlcsIn(g) /\ e <= PageEnd(g)
    BY <1>1, <1>4, <1>5, BatchHlcs
  <1>7. PageEnd(g) = e
    BY <1>2, <1>3, <1>6
  <1> QED
    BY <1>3, <1>5, <1>7 DEF g

\* The page a source answers with covers everything up to its end, given that the
\* puller has everything up to its cursor.
LEMMA PageCovers ==
    ASSUME Inv, Filter = "own", NEW r \in Replicas, NEW p \in Replicas, NEW t \in Tables,
           NEW after \in Hlcs \cup {None}, after = None \/ Node(after) = p,
           CoveredBy(rows, log, r, p, t, Nothing, after)
    PROVE  LET b == Paginate(OfTable(Scan(p, after, Filter), t)).page IN
           /\ \A h \in HlcsIn(b) : h <= clock[p] /\ Node(h) = p
           /\ Distinct(b)
           /\ ~Empty(b) => CoveredBy(rows, log, r, p, t, b, PageEnd(b))
  <1> DEFINE all == Scan(p, after, Filter)
             s == OfTable(all, t)
             b == Paginate(s).page
  <1>1. s \in Batch
    BY ScanIsBatch, OfTableIsBatch
  <1>4. \A h : FromOrigin(p, Filter, h) <=> Node(h) = p
    BY DEF FromOrigin
  <1>a. /\ \A k \in Keys, c \in Cols :
              LET h == ColHlc(rows[p][k], c) IN
              h > after /\ Node(h) = p => CellOf(p, k, c) \in all.cells
        /\ \A d \in log[p] : d.h > after /\ Node(d.h) = p => d \in all.dels
        /\ \A m \in all.cells :
              m.h > after /\ m.h <= clock[p] /\ FromOrigin(p, Filter, m.h)
        /\ \A d \in all.dels :
              d.h > after /\ d.h <= clock[p] /\ FromOrigin(p, Filter, d.h)
        /\ Distinct(all)
    BY <1>4, ScanFinds, ScanMissesNone
  <1>b. /\ t = "data" => s.cells = all.cells
        /\ t = "log" => s.dels = all.dels
        /\ s.cells \subseteq all.cells /\ s.dels \subseteq all.dels
    BY DEF OfTable
  <1> HIDE DEF all
  <1>2. /\ t = "data" => \A k \in Keys, c \in Cols :
              LET h == ColHlc(rows[p][k], c) IN
              h > after /\ Node(h) = p => CellOf(p, k, c) \in s.cells
        /\ \A m \in s.cells :
              m.h > after /\ m.h <= clock[p] /\ FromOrigin(p, Filter, m.h)
        /\ \A d \in s.dels :
              d.h > after /\ d.h <= clock[p] /\ FromOrigin(p, Filter, d.h)
        /\ Distinct(s)
    BY <1>a, <1>b DEF Distinct
  <1>3. t = "log" => \A d \in log[p] : d.h > after /\ Node(d.h) = p => d \in s.dels
    BY <1>a, <1>b
  <1> HIDE DEF s
  <1>5. \A h \in HlcsIn(s) : h <= clock[p] /\ Node(h) = p
    BY <1>2, <1>4 DEF HlcsIn, HlcsOf
  <1>6. CASE b = s /\ Empty(s)
    BY <1>2, <1>5, <1>6 DEF s, all
  <1>7. ASSUME NEW e \in HlcsIn(s), b = Page(s, e)
        PROVE  /\ \A h \in HlcsIn(b) : h <= clock[p] /\ Node(h) = p
               /\ Distinct(b)
               /\ CoveredBy(rows, log, r, p, t, b, PageEnd(b))
    <2>1. PageEnd(b) = e /\ HlcsIn(b) \subseteq HlcsIn(s)
      BY <1>1, <1>7, PageEndsThere
    <2>2. Distinct(b)
      BY <1>2, <1>7 DEF Distinct, Page
    <2>3. after \in Nat /\ e \in Nat
      BY <1>1, BatchHlcs, HlcOrNoneIsNat
    <2>4. ASSUME t = "data", NEW k \in Keys, NEW c \in Cols, OwnCol(p, rows[p][k], c),
                 ColHlc(rows[p][k], c) <= e
          PROVE  \/ HasCol(rows[r][k], log[r], k, c, ColHlc(rows[p][k], c))
                 \/ \E m \in b.cells : m.k = k /\ m.c = c /\ m.h = ColHlc(rows[p][k], c)
      <3> DEFINE h == ColHlc(rows[p][k], c)
      <3>1. h \in Nat
        BY StoredAreNat
      <3>2. CASE h <= after
        <4>1. \/ HasCol(rows[r][k], log[r], k, c, h)
              \/ \E m \in Nothing.cells : m.k = k /\ m.c = c /\ m.h = h
          BY <2>4, <3>2 DEF CoveredBy
        <4> QED
          BY <4>1 DEF Nothing
      <3>3. CASE h > after
        <4>1. CellOf(p, k, c) \in s.cells
          BY <1>2, <1>4, <2>4, <3>3 DEF OwnCol
        <4>2. CellOf(p, k, c).k = k /\ CellOf(p, k, c).c = c /\ CellOf(p, k, c).h = h
          BY DEF CellOf
        <4>3. CellOf(p, k, c) \in b.cells
          BY <1>7, <2>4, <4>1, <4>2 DEF Page
        <4> QED
          BY <4>2, <4>3
      <3> HIDE DEF h
      <3>4. h <= after \/ h > after
        BY <2>3, <3>1
      <3> QED
        BY <3>2, <3>3, <3>4 DEF h
    <2>5. ASSUME t = "log", NEW d \in log[p], Node(d.h) = p, d.h <= e
          PROVE  d \in log[r] \cup b.dels
      <3>1. d.h \in Nat
        BY StoredAreNat
      <3>2. CASE d.h <= after
        <4>1. d \in log[r] \cup Nothing.dels
          BY <2>5, <3>2 DEF CoveredBy
        <4> QED
          BY <4>1 DEF Nothing
      <3>3. CASE d.h > after
        BY <1>3, <1>4, <1>7, <2>5, <3>3 DEF Page
      <3> QED
        BY <2>3, <3>1, <3>2, <3>3
    <2> HIDE DEF b
    <2>6. CoveredBy(rows, log, r, p, t, b, e)
      BY <2>4, <2>5 DEF CoveredBy
    <2> QED
      BY <1>5, <2>1, <2>2, <2>6
  <1> QED
    BY <1>1, <1>6, <1>7, PaginateCuts DEF s, all

-----------------------------------------------------------------------------
(* What is covered stays covered.                                          *)

\* Whatever anybody does, a puller keeps what it has got of its source, up to an
\* HLC that the source's clock had reached.
LEMMA CoverKept ==
    ASSUME Inv, Inv', Moves, NEW r \in Replicas, NEW p \in Replicas, NEW t, NEW b, NEW e \in Nat,
           e <= clock[p], CoveredBy(rows, log, r, p, t, b, e)
    PROVE  CoveredBy(rows', log', r, p, t, b, e)
  <1>1. clock[p] \in Nat
    BY StoredAreNat
  <1>2. ASSUME t = "data", NEW k \in Keys, NEW c \in Cols, OwnCol(p, rows'[p][k], c),
               ColHlc(rows'[p][k], c) <= e
        PROVE  \/ HasCol(rows'[r][k], log'[r], k, c, ColHlc(rows'[p][k], c))
               \/ \E m \in b.cells : m.k = k /\ m.c = c /\ m.h = ColHlc(rows'[p][k], c)
    <2> DEFINE h == ColHlc(rows[p][k], c)
               g == ColHlc(rows'[p][k], c)
    <2>1. h \in Nat
      BY StoredAreNat
    <2>2. g > clock[p] \/ (OwnCol(p, rows[p][k], c) /\ g = h)
      BY <1>2 DEF Moves
    <2>a. g \in Nat
      <3>1. rows'[p][k].at[c] \in Hlcs \cup {None} /\ rows'[p][k].hlc \in Hlcs \cup {None}
        BY DEF Inv, TypeOK, Row
      <3> QED
        BY <3>1, HlcOrNoneIsNat DEF ColHlc
    <2>3. ~(g > clock[p])
      BY <1>1, <1>2, <2>a
    <2>4. OwnCol(p, rows[p][k], c) /\ g = h
      BY <2>2, <2>3
    <2>5. h <= e
      BY <1>2, <2>4
    <2>6. HasCol(rows[r][k], log[r], k, c, h) \/ \E m \in b.cells : m.k = k /\ m.c = c /\ m.h = h
      BY <1>2, <2>4, <2>5 DEF CoveredBy
    <2>7. HasCol(rows[r][k], log[r], k, c, h) => HasCol(rows'[r][k], log'[r], k, c, h)
      BY <2>1 DEF Moves
    <2> QED
      BY <2>4, <2>6, <2>7
  <1>3. ASSUME t = "log", NEW d \in log'[p], Node(d.h) = p, d.h <= e
        PROVE  d \in log'[r] \cup b.dels
    <2>a. log'[p] \subseteq Tombstone
      BY DEF Inv, TypeOK
    <2>b. d \in Tombstone
      BY <1>3, <2>a
    <2>c. d.h \in Hlcs
      BY <2>b DEF Tombstone
    <2>1. d.h \in Nat
      BY <2>c, HlcsAreNat
    <2>2. d \in log[p]
      BY <1>1, <1>3, <2>1 DEF Moves
    <2>3. d \in log[r] \cup b.dels
      BY <1>3, <2>2 DEF CoveredBy
    <2> QED
      BY <2>3 DEF Moves
  <1> QED
    BY <1>2, <1>3 DEF CoveredBy

\* Nothing moves when nothing changes.
LEMMA StillMoves ==
    ASSUME Inv, UNCHANGED vars
    PROVE  Inv' /\ Moves
  <1>1. Inv'
    BY DEF vars, Inv, TypeOK, RowDominates, NoZombie, ClockCovers
  <1>2. \A r \in Replicas : clock[r] <= clock[r]
    BY StoredAreNat
  <1> QED
    BY <1>1, <1>2 DEF vars, Moves

\* A pull whose cursor and answer stay is still in order after any step.
LEMMA PairKept ==
    ASSUME Inv, Inv', Moves, NEW rp \in Pulls, NEW cur \in Hlcs \cup {None},
           NEW ans \in {NoAnswer} \cup [page : Batch, more : BOOLEAN],
           PairOK(rows, log, clock, rp, cur, ans)
    PROVE  PairOK(rows', log', clock', rp, cur, ans)
  <1> DEFINE r == rp[1]
             p == rp[2]
             t == rp[3]
             b == ans.page
  <1>1. r \in Replicas /\ p \in Replicas
    BY DEF Pulls
  <1>2. clock[p] \in Nat /\ clock'[p] \in Nat /\ clock[p] <= clock'[p] /\ cur \in Nat
    <2>1. clock'[p] \in Hlcs \cup {None}
      BY <1>1 DEF Inv, TypeOK
    <2> QED
      BY <1>1, <2>1, HlcOrNoneIsNat, StoredAreNat DEF Moves
  <1>3. cur <= clock[p] /\ cur <= clock'[p]
    BY <1>2 DEF PairOK
  <1>4. CoveredBy(rows', log', r, p, t, Nothing, cur)
    <2>1. CoveredBy(rows, log, r, p, t, Nothing, cur)
      BY DEF PairOK
    <2> QED
      BY <1>1, <1>2, <1>3, <2>1, CoverKept
  <1>5. CASE ans = NoAnswer
    BY <1>3, <1>4, <1>5 DEF PairOK
  <1>6. CASE ans # NoAnswer
    <2>1. b \in Batch
      BY <1>6
    <2>2. \A h \in HlcsIn(b) : h \in Nat /\ h <= clock[p] /\ Node(h) = p
      BY <1>6, <2>1, BatchHlcs DEF PairOK
    <2>3. \A h \in HlcsIn(b) : h <= clock'[p] /\ Node(h) = p
      BY <1>2, <2>2
    <2>4. ~Empty(b) => CoveredBy(rows', log', r, p, t, b, PageEnd(b))
      <3> SUFFICES ASSUME ~Empty(b) PROVE CoveredBy(rows', log', r, p, t, b, PageEnd(b))
        OBVIOUS
      <3>1. PageEnd(b) \in HlcsIn(b)
        BY <2>1, BatchHlcs
      <3>2. PageEnd(b) \in Nat /\ PageEnd(b) <= clock[p]
        BY <2>2, <3>1
      <3>3. CoveredBy(rows, log, r, p, t, b, PageEnd(b))
        BY <1>6 DEF PairOK
      <3> QED
        BY <1>1, <3>2, <3>3, CoverKept
    <2>5. Distinct(b)
      BY <1>6 DEF PairOK
    <2> QED
      BY <1>3, <1>4, <2>3, <2>4, <2>5 DEF PairOK
  <1> QED
    BY <1>5, <1>6

\* Giving up an answer leaves the pull in order.
LEMMA AnswerDropped ==
    ASSUME NEW R, NEW L, NEW C, NEW rp, NEW cur, NEW ans, PairOK(R, L, C, rp, cur, ans)
    PROVE  PairOK(R, L, C, rp, cur, NoAnswer)
  BY DEF PairOK

\* A pull after its page has been applied, with the cursor moved or not.
LEMMA PageApplied ==
    ASSUME Inv, NEW rp \in Pulls, NEW b \in Batch, NEW cur \in Hlcs \cup {None},
           NEW more \in BOOLEAN, ~Empty(b),
           PairOK(rows, log, clock, rp, cur, [page |-> b, more |-> more]),
           Deliver(rp[1], b)
    PROVE  /\ Inv' /\ Moves
           /\ PairOK(rows', log', clock', rp, cur, NoAnswer)
           /\ PairOK(rows', log', clock', rp, Resumed(cur, b), NoAnswer)
           /\ Resumed(cur, b) \in Hlcs \cup {None}
  <1> DEFINE r == rp[1]
             p == rp[2]
             t == rp[3]
             e == PageEnd(b)
             ans == [page |-> b, more |-> more]
  <1>1. r \in Replicas /\ p \in Replicas /\ r # p
    BY DEF Pulls
  <1>2. ans \in [page : Batch, more : BOOLEAN] /\ ans # NoAnswer /\ ans.page = b
    BY DEF NoAnswer
  <1>3. /\ \A h \in HlcsIn(b) : h <= clock[p] /\ Node(h) = p
        /\ Distinct(b)
        /\ CoveredBy(rows, log, r, p, t, b, e)
    BY <1>2 DEF PairOK
  <1>4. Inv' /\ Moves
    BY <1>1, <1>3, DeliverMoves
  <1>5. PairOK(rows', log', clock', rp, cur, ans)
    BY <1>2, <1>4, PairKept
  <1>6. PairOK(rows', log', clock', rp, cur, NoAnswer)
    BY <1>5, AnswerDropped
  <1>7. /\ \A m \in b.cells : HasCol(rows'[r][m.k], log'[r], m.k, m.c, m.h)
        /\ b.dels \subseteq log'[r]
    BY <1>1, <1>3, Delivered
  <1>8. CoveredBy(rows', log', r, p, t, b, e) /\ e <= clock'[p]
    BY <1>2, <1>5, BatchHlcs DEF PairOK
  <1>9. CoveredBy(rows', log', r, p, t, Nothing, e)
    BY <1>7, <1>8 DEF CoveredBy, Nothing
  <1>10. Resumed(cur, b) = cur \/ Resumed(cur, b) = e
    BY DEF Resumed, Later, PageEnd
  <1>11. e \in Hlcs /\ Node(e) = p
    BY <1>3, BatchHlcs
  <1>12. PairOK(rows', log', clock', rp, e, NoAnswer)
    BY <1>8, <1>9, <1>11 DEF PairOK
  <1> QED
    BY <1>4, <1>6, <1>10, <1>11, <1>12

-----------------------------------------------------------------------------
(* The invariant                                                           *)

LEMMA DrainInitInv == DrainInit => Inv /\ PullInv /\ CoverInv
  <1> SUFFICES ASSUME DrainInit PROVE Inv /\ PullInv /\ CoverInv
    OBVIOUS
  <1>1. Inv
    BY InitInv DEF DrainInit
  <1>2. PullInv
    BY DrainConstants DEF DrainInit, PullInv
  <1>3. CoverInv
    <2> SUFFICES ASSUME NEW rp \in Pulls
                 PROVE  PairOK(rows, log, clock, rp, cursor[rp], answer[rp])
      BY DEF CoverInv
    <2>1. rp[1] \in Replicas /\ rp[2] \in Replicas
      BY DEF Pulls
    <2>2. cursor[rp] = None /\ answer[rp] = NoAnswer /\ clock[rp[2]] = None
      BY <2>1 DEF DrainInit, Init
    <2>3. \A k \in Keys : ~Live(rows[rp[2]][k])
      BY <2>1 DEF DrainInit, Init, Live, Absent
    <2>4. log[rp[2]] = {}
      BY <2>1 DEF DrainInit, Init
    <2>5. CoveredBy(rows, log, rp[1], rp[2], rp[3], Nothing, None)
      BY <2>3, <2>4 DEF CoveredBy, OwnCol
    <2>6. None <= None
      BY DEF None
    <2> QED
      BY <2>2, <2>5, <2>6 DEF PairOK
  <1> QED
    BY <1>1, <1>2, <1>3

\* The page of an answer is a batch.
LEMMA AnswerIsPage ==
    ASSUME PullInv, NEW rp \in Pulls, answer[rp] # NoAnswer
    PROVE  /\ answer[rp] \in [page : Batch, more : BOOLEAN]
           /\ answer[rp].page \in Batch /\ answer[rp].more \in BOOLEAN
           /\ answer[rp] = [page |-> answer[rp].page, more |-> answer[rp].more]
  <1>1. answer[rp] \in [page : Batch, more : BOOLEAN]
    BY DEF PullInv
  <1> QED
    BY <1>1

\* Rows, cursors and answers keep their shape, whatever the scans' filter.
LEMMA DrainStepTypes ==
    ASSUME Inv, PullInv, [DrainNext]_allVars
    PROVE  Inv' /\ PullInv'
  <1>0. /\ cursor \in [Pulls -> Hlcs \cup {None}]
        /\ due \in [Pulls -> BOOLEAN]
        /\ answer \in [Pulls -> {NoAnswer} \cup [page : Batch, more : BOOLEAN]]
        /\ faults \in 0..MaxFaults
    BY DEF PullInv
  <1>1. ASSUME NEW r \in Replicas, LocalWrite(r) PROVE Inv' /\ PullInv'
    <2>1. Inv'
      BY <1>1, LocalMoves
    <2>2. due' \in [Pulls -> BOOLEAN]
      BY <1>0, <1>1 DEF LocalWrite
    <2> QED
      BY <1>0, <1>1, <2>1, <2>2 DEF LocalWrite, PullInv
  <1>2. ASSUME NEW rp \in Pulls, Answer(rp) PROVE Inv' /\ PullInv'
    <2> DEFINE a == Paginate(Found(rp, cursor[rp]))
    <2>1. rp[2] \in Replicas /\ cursor[rp] \in Hlcs \cup {None}
      BY <1>0 DEF Pulls
    <2>2. Found(rp, cursor[rp]) \in Batch
      BY <2>1, ScanIsBatch, OfTableIsBatch DEF Found
    <2>3. a \in [page : Batch, more : BOOLEAN]
      BY <2>2, PaginateCuts
    <2>4. /\ answer' = [answer EXCEPT ![rp] = a] /\ due' = [due EXCEPT ![rp] = a.more]
          /\ UNCHANGED <<vars, cursor, faults>>
      BY <1>2, <2>1 DEF Answer
    <2>5. Inv'
      BY <2>4, StillMoves
    <2> HIDE DEF a
    <2>6. /\ answer' \in [Pulls -> {NoAnswer} \cup [page : Batch, more : BOOLEAN]]
          /\ due' \in [Pulls -> BOOLEAN]
      BY <1>0, <2>3, <2>4
    <2> QED
      BY <1>0, <2>4, <2>5, <2>6 DEF PullInv
  <1>3. ASSUME NEW rp \in Pulls, Receive(rp) PROVE Inv' /\ PullInv'
    <2> DEFINE b == answer[rp].page
    <2>1. rp[1] \in Replicas /\ cursor[rp] \in Hlcs \cup {None}
      BY <1>0 DEF Pulls
    <2>2. /\ answer[rp] # NoAnswer
          /\ IF Empty(b) THEN UNCHANGED vars ELSE Deliver(rp[1], b)
          /\ cursor' = [cursor EXCEPT ![rp] = Resumed(cursor[rp], b)]
          /\ answer' = [answer EXCEPT ![rp] = NoAnswer]
          /\ UNCHANGED <<due, faults>>
      BY <1>0, <1>3, <2>1 DEF Receive
    <2>3. b \in Batch
      BY <2>2, AnswerIsPage
    <2>4. Inv'
      BY <2>1, <2>2, <2>3, StillMoves, DeliverInv
    <2>5. ~Empty(b) => Newest(HlcsIn(b)) \in Hlcs
      BY <2>3, BatchHlcs DEF PageEnd
    <2>6. Resumed(cursor[rp], b) \in Hlcs \cup {None}
      BY <2>1, <2>5 DEF Resumed, Later
    <2> HIDE DEF b
    <2>7. /\ cursor' \in [Pulls -> Hlcs \cup {None}]
          /\ answer' \in [Pulls -> {NoAnswer} \cup [page : Batch, more : BOOLEAN]]
      BY <1>0, <2>2, <2>6
    <2> QED
      BY <1>0, <2>2, <2>4, <2>7 DEF PullInv
  <1>4. ASSUME NEW rp \in Pulls, ReceiveUnsaved(rp) PROVE Inv' /\ PullInv'
    <2> DEFINE b == answer[rp].page
    <2>1. rp[1] \in Replicas
      BY DEF Pulls
    <2>2. /\ answer[rp] # NoAnswer /\ Deliver(rp[1], b)
          /\ faults < MaxFaults /\ faults' = faults + 1
          /\ answer' = [answer EXCEPT ![rp] = NoAnswer]
          /\ due' = [due EXCEPT ![rp] = TRUE]
          /\ cursor' = cursor
      BY <1>4, <2>1 DEF ReceiveUnsaved
    <2>3. b \in Batch
      BY <2>2, AnswerIsPage
    <2>4. Inv'
      BY <2>1, <2>2, <2>3, DeliverInv
    <2>5. /\ answer' \in [Pulls -> {NoAnswer} \cup [page : Batch, more : BOOLEAN]]
          /\ due' \in [Pulls -> BOOLEAN]
      BY <1>0, <2>2
    <2>6. faults' \in 0..MaxFaults
      BY <1>0, <2>2, DrainConstants
    <2> QED
      BY <1>0, <2>2, <2>4, <2>5, <2>6 DEF PullInv
  <1>5. ASSUME NEW rp \in Pulls, LoseAnswer(rp) PROVE Inv' /\ PullInv'
    <2>2. /\ faults < MaxFaults /\ faults' = faults + 1
          /\ answer' = [answer EXCEPT ![rp] = NoAnswer]
          /\ due' = [due EXCEPT ![rp] = TRUE]
          /\ UNCHANGED <<vars, cursor>>
      BY <1>5 DEF LoseAnswer
    <2>3. Inv'
      BY <2>2, StillMoves
    <2>4. /\ answer' \in [Pulls -> {NoAnswer} \cup [page : Batch, more : BOOLEAN]]
          /\ due' \in [Pulls -> BOOLEAN]
      BY <1>0, <2>2
    <2>5. faults' \in 0..MaxFaults
      BY <1>0, <2>2, DrainConstants
    <2> QED
      BY <1>0, <2>2, <2>3, <2>4, <2>5 DEF PullInv
  <1>6. ASSUME UNCHANGED allVars PROVE Inv' /\ PullInv'
    <2>1. UNCHANGED vars /\ UNCHANGED <<cursor, due, answer, faults>>
      BY <1>6 DEF allVars, pull
    <2> QED
      BY <1>0, <2>1, StillMoves DEF PullInv
  <1> QED
    BY <1>1, <1>2, <1>3, <1>4, <1>5, <1>6 DEF DrainNext, Pull

\* With scans of the source's own changes, every step keeps what the cursors say.
LEMMA DrainStepCovers ==
    ASSUME Filter = "own", Inv, PullInv, CoverInv, [DrainNext]_allVars
    PROVE  CoverInv'
  <1>0. /\ cursor \in [Pulls -> Hlcs \cup {None}]
        /\ answer \in [Pulls -> {NoAnswer} \cup [page : Batch, more : BOOLEAN]]
        /\ Inv'
    BY DrainStepTypes DEF PullInv
  <1> DEFINE OK(rp) == PairOK(rows', log', clock', rp, cursor'[rp], answer'[rp])
  <1>a. (\A rp \in Pulls : OK(rp)) => CoverInv'
    BY DEF CoverInv
  <1>b. ASSUME Moves, NEW rp \in Pulls, cursor'[rp] = cursor[rp], answer'[rp] = answer[rp]
        PROVE  OK(rp)
    <2>1. PairOK(rows, log, clock, rp, cursor[rp], answer[rp])
      BY DEF CoverInv
    <2>2. cursor[rp] \in Hlcs \cup {None}
          /\ answer[rp] \in {NoAnswer} \cup [page : Batch, more : BOOLEAN]
      BY <1>0
    <2> QED
      BY <1>0, <1>b, <2>1, <2>2, PairKept
  <1>1. ASSUME NEW r \in Replicas, LocalWrite(r) PROVE \A rp \in Pulls : OK(rp)
    <2>1. Moves
      BY <1>1, LocalMoves
    <2>2. cursor' = cursor /\ answer' = answer
      BY <1>1 DEF LocalWrite
    <2> QED
      BY <1>b, <2>1, <2>2
  <1>2. ASSUME NEW rp \in Pulls, Answer(rp) PROVE \A o \in Pulls : OK(o)
    <2> DEFINE a == Paginate(Found(rp, cursor[rp]))
    <2>1. /\ rp[1] \in Replicas /\ rp[2] \in Replicas
          /\ rp[3] \in Tables /\ cursor[rp] \in Hlcs \cup {None}
      BY <1>0 DEF Pulls
    <2>2. /\ answer' = [answer EXCEPT ![rp] = a]
          /\ UNCHANGED <<vars, cursor, faults>>
      BY <1>2, <2>1 DEF Answer
    <2>3. PairOK(rows, log, clock, rp, cursor[rp], answer[rp])
      BY DEF CoverInv
    <2>4. /\ CoveredBy(rows, log, rp[1], rp[2], rp[3], Nothing, cursor[rp])
          /\ cursor[rp] <= clock[rp[2]]
          /\ cursor[rp] = None \/ Node(cursor[rp]) = rp[2]
      BY <2>3 DEF PairOK
    <2>5. /\ \A h \in HlcsIn(a.page) : h <= clock[rp[2]] /\ Node(h) = rp[2]
          /\ Distinct(a.page)
          /\ ~Empty(a.page) =>
                CoveredBy(rows, log, rp[1], rp[2], rp[3], a.page, PageEnd(a.page))
      BY <2>1, <2>4, PageCovers DEF Found
    <2> HIDE DEF a
    <2>6. PairOK(rows, log, clock, rp, cursor[rp], a)
      BY <2>4, <2>5 DEF PairOK
    <2>7. OK(rp)
      BY <1>0, <2>2, <2>6 DEF vars
    <2>8. \A o \in Pulls : o # rp => cursor'[o] = cursor[o] /\ answer'[o] = answer[o]
      BY <1>0, <2>2
    <2>9. Moves
      BY <2>2, StillMoves
    <2> QED
      BY <1>b, <2>7, <2>8, <2>9
  <1>3. ASSUME NEW rp \in Pulls, Receive(rp) PROVE \A o \in Pulls : OK(o)
    <2> DEFINE b == answer[rp].page
    <2>1. cursor[rp] \in Hlcs \cup {None}
      BY <1>0 DEF Pulls
    <2>2. /\ answer[rp] # NoAnswer
          /\ IF Empty(b) THEN UNCHANGED vars ELSE Deliver(rp[1], b)
          /\ cursor' = [cursor EXCEPT ![rp] = Resumed(cursor[rp], b)]
          /\ answer' = [answer EXCEPT ![rp] = NoAnswer]
      BY <1>0, <1>3, <2>1 DEF Receive
    <2>3. /\ b \in Batch /\ answer[rp].more \in BOOLEAN
          /\ answer[rp] = [page |-> b, more |-> answer[rp].more]
      BY <2>2, AnswerIsPage
    <2>4. PairOK(rows, log, clock, rp, cursor[rp], answer[rp])
      BY DEF CoverInv
    <2>5. \A o \in Pulls : o # rp => cursor'[o] = cursor[o] /\ answer'[o] = answer[o]
      BY <1>0, <2>2
    <2>6. answer'[rp] = NoAnswer /\ cursor'[rp] = Resumed(cursor[rp], b)
      BY <1>0, <2>2
    <2>7. CASE Empty(b)
      <3>1. Moves /\ rows' = rows /\ log' = log /\ clock' = clock
        BY <2>2, <2>7, StillMoves DEF vars
      <3>2. cursor'[rp] = cursor[rp]
        BY <2>6, <2>7 DEF Resumed
      <3>3. OK(rp)
        BY <2>4, <2>6, <3>1, <3>2, AnswerDropped
      <3> QED
        BY <1>b, <2>5, <3>1, <3>3
    <2>8. CASE ~Empty(b)
      <3>1. Deliver(rp[1], b)
        BY <2>2, <2>8
      <3> DEFINE more == answer[rp].more
      <3>2. PairOK(rows, log, clock, rp, cursor[rp], [page |-> b, more |-> more])
        BY <2>3, <2>4
      <3> HIDE DEF b, more
      <3>3. Moves /\ PairOK(rows', log', clock', rp, Resumed(cursor[rp], b), NoAnswer)
        BY <2>1, <2>3, <2>8, <3>1, <3>2, PageApplied DEF more
      <3> QED
        BY <1>b, <2>5, <2>6, <3>3
    <2> QED
      BY <2>7, <2>8
  <1>4. ASSUME NEW rp \in Pulls, ReceiveUnsaved(rp) PROVE \A o \in Pulls : OK(o)
    <2> DEFINE b == answer[rp].page
    <2>1. cursor[rp] \in Hlcs \cup {None}
      BY <1>0 DEF Pulls
    <2>2. /\ answer[rp] # NoAnswer /\ ~Empty(b) /\ Deliver(rp[1], b)
          /\ answer' = [answer EXCEPT ![rp] = NoAnswer]
          /\ cursor' = cursor
      BY <1>4, <2>1 DEF ReceiveUnsaved
    <2> DEFINE more == answer[rp].more
    <2>3. /\ b \in Batch /\ more \in BOOLEAN
          /\ answer[rp] = [page |-> b, more |-> more]
      BY <2>2, AnswerIsPage
    <2>4. PairOK(rows, log, clock, rp, cursor[rp], [page |-> b, more |-> more])
      BY <2>3 DEF CoverInv
    <2>5. \A o \in Pulls : o # rp => cursor'[o] = cursor[o] /\ answer'[o] = answer[o]
      BY <1>0, <2>2
    <2>6. answer'[rp] = NoAnswer /\ cursor'[rp] = cursor[rp]
      BY <1>0, <2>2
    <2> HIDE DEF b, more
    <2>7. Moves /\ PairOK(rows', log', clock', rp, cursor[rp], NoAnswer)
      BY <2>1, <2>2, <2>3, <2>4, PageApplied
    <2> QED
      BY <1>b, <2>5, <2>6, <2>7
  <1>5. ASSUME NEW rp \in Pulls, LoseAnswer(rp) PROVE \A o \in Pulls : OK(o)
    <2>2. /\ answer' = [answer EXCEPT ![rp] = NoAnswer]
          /\ UNCHANGED <<vars, cursor>>
      BY <1>5 DEF LoseAnswer
    <2>3. Moves /\ rows' = rows /\ log' = log /\ clock' = clock
      BY <2>2, StillMoves DEF vars
    <2>4. PairOK(rows, log, clock, rp, cursor[rp], answer[rp])
      BY DEF CoverInv
    <2>5. OK(rp)
      BY <1>0, <2>2, <2>3, <2>4, AnswerDropped
    <2>6. \A o \in Pulls : o # rp => cursor'[o] = cursor[o] /\ answer'[o] = answer[o]
      BY <1>0, <2>2
    <2> QED
      BY <1>b, <2>3, <2>5, <2>6
  <1>6. ASSUME UNCHANGED allVars PROVE \A rp \in Pulls : OK(rp)
    <2>1. UNCHANGED vars /\ cursor' = cursor /\ answer' = answer
      BY <1>6 DEF allVars, pull
    <2>2. Moves
      BY <2>1, StillMoves
    <2> QED
      BY <1>b, <2>1, <2>2
  <1> HIDE DEF OK
  <1> QED
    BY <1>a, <1>1, <1>2, <1>3, <1>4, <1>5, <1>6 DEF DrainNext, Pull

-----------------------------------------------------------------------------
(* Theorems                                                                *)

\* Rows, cursors, requests and answers keep their shape, whatever the scans'
\* filter, the budget and the number of faults.
THEOREM DrainTypes == DrainSpec => []DrainTypeOK
  <1>1. Inv /\ PullInv => DrainTypeOK
    <2> SUFFICES ASSUME Inv, PullInv PROVE DrainTypeOK
      OBVIOUS
    <2>1. \A rp \in Pulls : answer[rp] # NoAnswer =>
              /\ HlcsIn(answer[rp].page) \subseteq Hlcs
              /\ answer[rp].more \in BOOLEAN
      BY AnswerIsPage, BatchHlcs
    <2> QED
      BY <2>1 DEF DrainTypeOK, PullInv, Inv
  <1>2. DrainInit => Inv /\ PullInv
    BY DrainInitInv
  <1>3. Inv /\ PullInv /\ [DrainNext]_allVars => Inv' /\ PullInv'
    BY DrainStepTypes
  <1> QED
    BY <1>1, <1>2, <1>3, PTL DEF DrainSpec

\* A puller has everything its source has to say in its own name at or below its
\* cursor, whatever pages were lost or applied twice, however groups of changes were
\* spread over pages and whatever both wrote in between.
THEOREM CursorsCover ==
    ASSUME Filter = "own"
    PROVE  DrainSpec => []CursorCovers
  <1>1. Inv /\ PullInv /\ CoverInv => CursorCovers
    <2> SUFFICES ASSUME Inv, PullInv, CoverInv, NEW rp \in Pulls
                 PROVE  LET told == Page(Found(rp, None), cursor[rp])
                        IN  /\ \A m \in told.cells : Has(rp[1], m)
                            /\ told.dels \subseteq log[rp[1]]
      BY DEF CursorCovers
    <2> DEFINE r == rp[1]
               p == rp[2]
               t == rp[3]
               told == Page(Found(rp, None), cursor[rp])
    <2>1. r \in Replicas /\ p \in Replicas /\ None \in Hlcs \cup {None}
      BY DEF Pulls
    <2>2. CoveredBy(rows, log, r, p, t, Nothing, cursor[rp])
      BY DEF CoverInv, PairOK
    <2>3. \A h : FromOrigin(p, Filter, h) => Node(h) = p
      BY DEF FromOrigin
    <2>4. ASSUME NEW q \in Replicas, NEW after \in Hlcs \cup {None}
          PROVE  \A n \in Scan(q, after, Filter).cells :
                     \E k \in Keys, c \in Cols :
                         /\ n = CellOf(q, k, c) /\ Live(rows[q][k])
                         /\ n.h > after /\ n.h <= clock[q] /\ FromOrigin(q, Filter, n.h)
      BY ScanFinds
    <2>5. ASSUME NEW m \in told.cells PROVE Has(r, m)
      <3>1. t = "data" /\ m \in Scan(p, None, Filter).cells /\ m.h <= cursor[rp]
        BY DEF Page, Found, OfTable
      <3>a. \A n \in Scan(p, None, Filter).cells :
                \E k \in Keys, c \in Cols :
                    /\ n = CellOf(p, k, c) /\ Live(rows[p][k])
                    /\ n.h > None /\ n.h <= clock[p] /\ FromOrigin(p, Filter, n.h)
        BY <2>1, <2>4
      <3>2. PICK k \in Keys, c \in Cols :
                m = CellOf(p, k, c) /\ Live(rows[p][k]) /\ FromOrigin(p, Filter, m.h)
        BY <3>1, <3>a
      <3>3. m.k = k /\ m.c = c /\ m.h = ColHlc(rows[p][k], c)
        BY <3>2 DEF CellOf
      <3>4. OwnCol(p, rows[p][k], c)
        BY <2>3, <3>2, <3>3 DEF OwnCol
      <3>5. HasCol(rows[r][k], log[r], k, c, m.h)
        BY <2>2, <3>1, <3>3, <3>4 DEF CoveredBy, Nothing
      <3> QED
        BY <3>3, <3>5 DEF HasCol, Has
    <2>6. ASSUME NEW d \in told.dels PROVE d \in log[r]
      <3>1. t = "log" /\ d \in Scan(p, None, Filter).dels /\ d.h <= cursor[rp]
        BY DEF Page, Found, OfTable
      <3>2. d \in log[p] /\ Node(d.h) = p
        BY <2>3, <3>1 DEF Scan
      <3> QED
        BY <2>2, <3>1, <3>2 DEF CoveredBy, Nothing
    <2> QED
      BY <2>5, <2>6
  <1>2. DrainInit => Inv /\ PullInv /\ CoverInv
    BY DrainInitInv
  <1>3. Inv /\ PullInv /\ CoverInv /\ [DrainNext]_allVars => Inv' /\ PullInv' /\ CoverInv'
    BY DrainStepTypes, DrainStepCovers
  <1> QED
    BY <1>1, <1>2, <1>3, PTL DEF DrainSpec
=============================================================================
