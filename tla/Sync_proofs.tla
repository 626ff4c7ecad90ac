----------------------------- MODULE Sync_proofs -----------------------------
(***************************************************************************)
(* Proofs about Sync for any number of replicas, any keys and columns, any *)
(* choice of updates, filters and pages: the invariant Inv is inductive.   *)
(* It speaks of every row by itself, so the argument goes row by row: a    *)
(* row is Good with respect to its replica's delete log and clock, and     *)
(* every operation leaves good rows good.                                  *)
(***************************************************************************)
EXTENDS Sync, WellFoundedInduction, TLAPS

-----------------------------------------------------------------------------
(* HLCs                                                                    *)

\* A nonempty set of natural numbers has a least element.
LEMMA LeastExists ==
    ASSUME NEW T, T \subseteq Nat, T # {}
    PROVE  \E x \in T : \A y \in T : x <= y
  <1>1. \E x \in T : \A y \in T : ~(<<y, x>> \in OpToRel(<, Nat))
    BY NatLessThanWellFounded, WFMin
  <1>2. \A x \in T, y \in T : ~(<<y, x>> \in OpToRel(<, Nat)) => x <= y
    BY DEF OpToRel
  <1> QED
    BY <1>1, <1>2

\* Newest really picks the greatest of a bounded, nonempty set of HLCs.
LEMMA NewestIsGreatest ==
    ASSUME NEW n \in Nat, NEW S, S \subseteq 0..n, S # {}
    PROVE  Newest(S) \in S /\ \A g \in S : g <= Newest(S)
  <1> DEFINE T == {n - h : h \in S}
  <1>1. T \subseteq Nat
    OBVIOUS
  <1>2. PICK s \in S : TRUE
    OBVIOUS
  <1>3. n - s \in T
    BY <1>2
  <1>4. T # {}
    BY <1>3
  <1>5. PICK x \in T : \A y \in T : x <= y
    BY <1>1, <1>4, LeastExists
  <1>6. PICK h \in S : x = n - h
    BY <1>5
  <1>7. \A g \in S : g <= h
    <2> TAKE g \in S
    <2>1. n - g \in T
      OBVIOUS
    <2>2. n - h <= n - g
      BY <2>1, <1>5, <1>6
    <2> QED
      BY <2>2
  <1> QED
    BY <1>7 DEF Newest

\* HLCs are natural numbers up to MaxHlc, and none of them is empty.
LEMMA HlcsAreNat ==
    /\ MaxHlc \in Nat
    /\ Hlcs \subseteq Nat /\ Hlcs \subseteq 0..MaxHlc
    /\ None \notin Hlcs
  <1>1. MaxTime * N \in Nat
    BY SyncConstants
  <1>2. N \in Nat /\ N >= 1
    BY SyncConstants
  <1>3. MaxHlc \in Nat
    BY <1>1, <1>2 DEF MaxHlc
  <1> QED
    BY <1>2, <1>3 DEF Hlcs, None

\* An HLC or the empty one is a natural number.
LEMMA HlcOrNoneIsNat ==
    ASSUME NEW x \in Hlcs \cup {None}
    PROVE  x \in Nat
  <1>1. CASE x \in Hlcs
    BY <1>1, HlcsAreNat
  <1>2. CASE x = None
    BY <1>2 DEF None
  <1> QED
    BY <1>1, <1>2

\* A drawn HLC is newer than everything the clock has seen.
LEMMA DrawIsNewer ==
    ASSUME NEW r \in Replicas, NEW h \in Hlcs, clock[r] \in Hlcs \cup {None}, Draws(r, h)
    PROVE  h > clock[r]
  <1> DEFINE c == clock[r]
  <1>a. h \in Nat
    BY HlcsAreNat
  <1>b. c \in Nat
    BY HlcOrNoneIsNat
  <1>1. h \in Nat /\ c \in Nat /\ N \in Nat \ {0}
    BY <1>a, <1>b, SyncConstants
  <1>2. h \div N > c \div N
    BY DEF Draws, Time
  <1> HIDE DEF c
  <1>3. h <= c => h \div N <= c \div N
    BY <1>1
  <1>4. h \div N \in Int /\ c \div N \in Int
    BY <1>1
  <1>5. h > c
    BY <1>1, <1>2, <1>3, <1>4
  <1> QED
    BY <1>5 DEF c

\* Times follow the order of HLCs.
LEMMA TimeGrows ==
    ASSUME NEW h \in Nat, NEW g \in Nat, g <= h
    PROVE  Time(h) \in Nat /\ Time(g) \in Nat /\ Time(g) <= Time(h)
  <1>1. N \in Nat \ {0}
    BY SyncConstants
  <1>2. h \div N \in Nat /\ g \div N \in Nat /\ g \div N <= h \div N
    BY <1>1
  <1> QED
    BY <1>2 DEF Time

\* A node draws one HLC for a time.
LEMMA TimeAndNode ==
    ASSUME NEW h \in Nat, NEW g \in Nat, Time(h) = Time(g), Node(h) = Node(g)
    PROVE  h = g
  <1>1. N \in Nat \ {0}
    BY SyncConstants
  <1>2. h = N * (h \div N) + (h % N) /\ g = N * (g \div N) + (g % N)
    BY <1>1
  <1> QED
    BY <1>2 DEF Time, Node

\* Where text and number disagree, the times are the same.
LEMMA TextMisses ==
    ASSUME NEW x \in Nat, NEW h \in Nat, NEW g \in Nat, h <= x, g < h, ~TextAfter(x, g)
    PROVE  Time(h) = Time(g) /\ Node(h) # Node(g)
  <1>1. /\ Time(x) \in Nat /\ Time(h) \in Nat /\ Time(g) \in Nat
        /\ Time(g) <= Time(h) /\ Time(h) <= Time(x)
    BY TimeGrows
  <1>2. ~(Time(x) > Time(g))
    BY DEF TextAfter
  <1>3. Time(h) = Time(g)
    BY <1>1, <1>2
  <1>4. h # g
    OBVIOUS
  <1> QED
    BY <1>3, <1>4, TimeAndNode

\* Without a cursor the text order lets every stored row through.
LEMMA TextAfterNone ==
    /\ \A h \in Hlcs : TextAfter(h, None)
    /\ ~TextAfter(None, None)
  <1>1. N \in Nat \ {0} /\ NodeText \in [0..(N - 1) -> Nat]
    BY SyncConstants
  <1>2. None \div N = 0 /\ None % N = 0 /\ 0 \in 0..(N - 1)
    BY <1>1 DEF None
  <1>3. ASSUME NEW h \in Hlcs PROVE h \div N > 0
    <2>1. h \in Int /\ h >= N
      BY <1>1, HlcsAreNat DEF Hlcs
    <2>2. N \div N = 1 /\ h \div N >= N \div N
      BY <1>1, <2>1
    <2> QED
      BY <1>1, <2>1, <2>2
  <1>4. NodeText[0] \in Nat
    BY <1>1, <1>2
  <1>5. ~(Time(None) > Time(None)) /\ ~(NodeText[Node(None)] > NodeText[Node(None)])
    BY <1>2, <1>4 DEF Time, Node
  <1>6. ASSUME NEW h \in Hlcs PROVE Time(h) > Time(None)
    BY <1>2, <1>3 DEF Time
  <1> QED
    BY <1>5, <1>6 DEF TextAfter

-----------------------------------------------------------------------------
(* Good rows                                                               *)

\* What Inv says of the row with key k at a replica whose delete log is L and
\* whose clock is c.
Good(row, k, L, c) ==
    /\ row \in Row
    /\ Live(row) \/ row = Absent
    /\ \A x \in Cols : row.at[x] <= row.hlc
    /\ Live(row) => \A d \in L : d.k = k => row.hlc >= d.h
    /\ row.hlc <= c

\* What Inv says of one replica.
GoodReplica(R, L, c) ==
    /\ \A k \in Keys : Good(R[k], k, L, c)
    /\ L \subseteq Tombstone
    /\ \A d \in L : d.h <= c
    /\ c \in Hlcs \cup {None}

\* Inv is a statement about each replica by itself, and about the wire.
LEMMA InvIsLocal ==
    Inv <=> /\ rows \in [Replicas -> [Keys -> Row]]
            /\ log \in [Replicas -> SUBSET Tombstone]
            /\ clock \in [Replicas -> Hlcs \cup {None}]
            /\ wire \in SUBSET Batch
            /\ \A r \in Replicas : GoodReplica(rows[r], log[r], clock[r])
  BY DEF Inv, TypeOK, RowDominates, NoZombie, ClockCovers, Good, GoodReplica

\* The same in the next state.
LEMMA InvIsLocalNext ==
    Inv' <=> /\ rows' \in [Replicas -> [Keys -> Row]]
             /\ log' \in [Replicas -> SUBSET Tombstone]
             /\ clock' \in [Replicas -> Hlcs \cup {None}]
             /\ wire' \in SUBSET Batch
             /\ \A r \in Replicas : GoodReplica(rows'[r], log'[r], clock'[r])
  BY DEF Inv, TypeOK, RowDominates, NoZombie, ClockCovers, Good, GoodReplica

\* A row that is not there is good.
LEMMA AbsentGood ==
    ASSUME NEW k \in Keys, NEW L, NEW c \in Hlcs \cup {None}
    PROVE  Good(Absent, k, L, c)
  <1>1. c \in Nat
    BY HlcsAreNat DEF None
  <1>2. Absent \in Row
    BY DEF Absent, Row, None
  <1> QED
    BY <1>1, <1>2 DEF Good, Absent, Live, None

\* A good row stays good when the clock moves on and the log grows by deletes
\* of other keys.
LEMMA GoodKept ==
    ASSUME NEW row, NEW k \in Keys, NEW L, NEW M, NEW c \in Hlcs \cup {None},
           NEW e \in Hlcs \cup {None}, Good(row, k, L, c), c <= e,
           \A d \in M : d \in L \/ d.k # k
    PROVE  Good(row, k, M, e)
  <1>1. c \in Nat /\ e \in Nat
    BY HlcOrNoneIsNat
  <1>2. row.hlc \in Hlcs \cup {None}
    BY DEF Good, Row
  <1>a. row.hlc \in Nat
    BY <1>2, HlcOrNoneIsNat
  <1>3. row.hlc <= e
    BY <1>1, <1>a DEF Good
  <1>4. Live(row) => \A d \in M : d.k = k => row.hlc >= d.h
    BY DEF Good
  <1> QED
    BY <1>3, <1>4 DEF Good

\* A freshly inserted row is good when its HLC is at least that of every
\* logged delete.
LEMMA InsertedGood ==
    ASSUME NEW k \in Keys, NEW L, NEW h \in Hlcs, \A d \in L : d.h <= h,
           L \subseteq Tombstone
    PROVE  Good(Inserted(h), k, L, h)
  <1>1. h \in Nat /\ h # None
    BY HlcsAreNat
  <1>2. Inserted(h) \in Row
    BY DEF Inserted, Row
  <1>3. \A d \in L : d.h \in Nat
    BY HlcsAreNat DEF Tombstone
  <1> QED
    BY <1>1, <1>2, <1>3 DEF Good, Inserted, Live

-----------------------------------------------------------------------------
(* Local statements                                                        *)

\* A local statement on key k at replica r that draws h: it leaves the other
\* rows alone, and its own row good.
LEMMA LocalStep ==
    ASSUME Inv, NEW r \in Replicas, NEW k \in Keys, NEW h \in Hlcs,
           NEW row, NEW M, Draws(r, h),
           rows' = [rows EXCEPT ![r][k] = row],
           log' = [log EXCEPT ![r] = M],
           clock' = [clock EXCEPT ![r] = h],
           UNCHANGED wire,
           M = log[r] \/ M = log[r] \cup {[k |-> k, h |-> h]},
           Good(row, k, M, h)
    PROVE  Inv'
  <1>0. /\ rows \in [Replicas -> [Keys -> Row]]
        /\ log \in [Replicas -> SUBSET Tombstone]
        /\ clock \in [Replicas -> Hlcs \cup {None}]
        /\ wire \in SUBSET Batch
        /\ \A q \in Replicas : GoodReplica(rows[q], log[q], clock[q])
    BY InvIsLocal
  <1>1. clock[r] \in Hlcs \cup {None} /\ clock[r] \in Nat /\ h \in Nat
    BY <1>0, HlcsAreNat DEF None
  <1>2. h > clock[r]
    BY <1>1, DrawIsNewer
  <1>3. row \in Row
    BY DEF Good
  <1>4. M \subseteq Tombstone
    BY <1>0 DEF Tombstone
  <1>5. \A d \in M : d.h <= h
    <2>1. \A d \in log[r] : d.h \in Nat /\ d.h <= clock[r]
      BY <1>0, HlcsAreNat DEF GoodReplica, Tombstone
    <2> QED
      BY <1>1, <1>2, <2>1
  <1>6. \A j \in Keys : j # k => Good(rows[r][j], j, M, h)
    <2> SUFFICES ASSUME NEW j \in Keys, j # k PROVE Good(rows[r][j], j, M, h)
      OBVIOUS
    <2>1. Good(rows[r][j], j, log[r], clock[r])
      BY <1>0 DEF GoodReplica
    <2>2. \A d \in M : d \in log[r] \/ d.k # j
      OBVIOUS
    <2>3. clock[r] <= h
      BY <1>1, <1>2
    <2> QED
      BY <1>1, <2>1, <2>2, <2>3, GoodKept
  <1>7. /\ rows'[r] = [rows[r] EXCEPT ![k] = row]
        /\ log'[r] = M /\ clock'[r] = h
    BY <1>0
  <1>8. \A q \in Replicas \ {r} : rows'[q] = rows[q] /\ log'[q] = log[q] /\ clock'[q] = clock[q]
    BY <1>0
  <1>9. GoodReplica(rows'[r], log'[r], clock'[r])
    <2>1. \A j \in Keys : rows'[r][j] = IF j = k THEN row ELSE rows[r][j]
      BY <1>0, <1>7
    <2> QED
      BY <1>4, <1>5, <1>6, <1>7, <2>1 DEF GoodReplica
  <1>10. \A q \in Replicas : GoodReplica(rows'[q], log'[q], clock'[q])
    BY <1>0, <1>8, <1>9
  <1>11. rows' \in [Replicas -> [Keys -> Row]]
    BY <1>0, <1>3
  <1>12. log' \in [Replicas -> SUBSET Tombstone]
    BY <1>0, <1>4
  <1>13. clock' \in [Replicas -> Hlcs \cup {None}]
    BY <1>0
  <1> QED
    BY <1>0, <1>10, <1>11, <1>12, <1>13, InvIsLocalNext

\* What a local statement at r may rely on.
LEMMA LocalFacts ==
    ASSUME Inv, NEW r \in Replicas, NEW k \in Keys, NEW h \in Hlcs, Draws(r, h)
    PROVE  /\ log[r] \subseteq Tombstone
           /\ log = [log EXCEPT ![r] = log[r]]
           /\ h \in Nat /\ h # None
           /\ \A d \in log[r] : d.h \in Nat /\ d.h < h
           /\ Good(rows[r][k], k, log[r], clock[r])
           /\ rows[r][k].hlc \in Nat /\ rows[r][k].hlc < h
  <1>1. /\ log \in [Replicas -> SUBSET Tombstone]
        /\ clock[r] \in Hlcs \cup {None}
        /\ GoodReplica(rows[r], log[r], clock[r])
    BY InvIsLocal
  <1>2. h > clock[r] /\ clock[r] \in Nat /\ h \in Nat /\ h # None
    BY <1>1, DrawIsNewer, HlcOrNoneIsNat, HlcsAreNat
  <1>3. \A d \in log[r] : d.h \in Nat /\ d.h <= clock[r]
    BY <1>1, HlcsAreNat DEF GoodReplica, Tombstone
  <1>4. \A d \in log[r] : d.h \in Nat /\ d.h < h
    BY <1>2, <1>3
  <1>5. Good(rows[r][k], k, log[r], clock[r])
    BY <1>1 DEF GoodReplica
  <1>6. rows[r][k].hlc \in Hlcs \cup {None} /\ rows[r][k].hlc <= clock[r]
    BY <1>5 DEF Good, Row
  <1>7. rows[r][k].hlc \in Nat
    BY <1>6, HlcOrNoneIsNat
  <1>8. rows[r][k].hlc < h
    BY <1>2, <1>6, <1>7
  <1>9. log = [log EXCEPT ![r] = log[r]]
    BY <1>1
  <1> QED
    BY <1>1, <1>2, <1>4, <1>5, <1>7, <1>8, <1>9

\* INSERT keeps the invariant.
LEMMA InsertInv ==
    ASSUME Inv, NEW r \in Replicas, NEW k \in Keys, NEW h \in Hlcs, Insert(r, k, h)
    PROVE  Inv'
  <1>1. Draws(r, h)
    BY DEF Insert
  <1>2. \A d \in log[r] : d.h <= h
    BY <1>1, LocalFacts
  <1>3. Good(Inserted(h), k, log[r], h)
    BY <1>1, <1>2, LocalFacts, InsertedGood
  <1>4. log' = [log EXCEPT ![r] = log[r]]
    BY <1>1, LocalFacts DEF Insert
  <1> QED
    BY <1>1, <1>3, <1>4, LocalStep DEF Insert

\* UPDATE keeps the invariant, whatever columns it changes.
LEMMA UpdateInv ==
    ASSUME Inv, NEW r \in Replicas, NEW k \in Keys, NEW h \in Hlcs,
           NEW C \in ChangeSets, Update(r, k, C, h)
    PROVE  Inv'
  <1> DEFINE old == rows[r][k]
             new == [hlc |-> h,
                     at  |-> [c \in Cols |-> IF c \in C THEN h ELSE old.at[c]],
                     val |-> [c \in Cols |-> IF c \in C THEN h ELSE old.val[c]]]
  <1>1. Draws(r, h)
    BY DEF Update
  <1>2. /\ Good(old, k, log[r], clock[r]) /\ old.hlc \in Nat /\ old.hlc < h
        /\ h \in Nat /\ h # None
        /\ \A d \in log[r] : d.h \in Nat /\ d.h < h
    BY <1>1, LocalFacts
  <1>3. new \in Row
    BY <1>2 DEF Good, Row
  <1>4. \A c \in Cols : old.at[c] \in Nat /\ old.at[c] <= old.hlc
    <2> TAKE c \in Cols
    <2>1. old.at[c] \in Hlcs \cup {None}
      BY <1>2 DEF Good, Row
    <2> QED
      BY <1>2, <2>1, HlcOrNoneIsNat DEF Good
  <1>5. \A c \in Cols : new.at[c] <= new.hlc
    BY <1>2, <1>4
  <1>6. Good(new, k, log[r], h)
    BY <1>2, <1>3, <1>5 DEF Good, Live
  <1>7. log' = [log EXCEPT ![r] = log[r]]
    BY <1>1, LocalFacts DEF Update
  <1>8. rows' = [rows EXCEPT ![r][k] = new]
    BY DEF Update
  <1> HIDE DEF new
  <1> QED
    BY <1>1, <1>6, <1>7, <1>8, LocalStep DEF Update

\* DELETE keeps the invariant.
LEMMA DeleteInv ==
    ASSUME Inv, NEW r \in Replicas, NEW k \in Keys, NEW h \in Hlcs, Delete(r, k, h)
    PROVE  Inv'
  <1> DEFINE M == log[r] \cup {[k |-> k, h |-> h]}
  <1>1. Draws(r, h)
    BY DEF Delete
  <1>2. Good(Absent, k, M, h)
    BY AbsentGood
  <1>3. log' = [log EXCEPT ![r] = M]
    BY DEF Delete
  <1> QED
    BY <1>1, <1>2, <1>3, LocalStep DEF Delete

\* DELETE and INSERT in one transaction keep the invariant: the new row ties
\* with its own delete.
LEMMA ReplaceInv ==
    ASSUME Inv, NEW r \in Replicas, NEW k \in Keys, NEW h \in Hlcs, Replace(r, k, h)
    PROVE  Inv'
  <1> DEFINE M == log[r] \cup {[k |-> k, h |-> h]}
  <1>1. Draws(r, h)
    BY DEF Replace
  <1>2. h \in Nat /\ log[r] \subseteq Tombstone /\ \A d \in log[r] : d.h \in Nat /\ d.h < h
    BY <1>1, LocalFacts
  <1>3. M \subseteq Tombstone /\ \A d \in M : d.h <= h
    BY <1>2 DEF Tombstone
  <1>4. Good(Inserted(h), k, M, h)
    BY <1>3, InsertedGood
  <1>5. log' = [log EXCEPT ![r] = M]
    BY DEF Replace
  <1> QED
    BY <1>1, <1>4, <1>5, LocalStep DEF Replace

-----------------------------------------------------------------------------
(* The scan                                                                *)

\* A scan is a batch of well-formed changes.
LEMMA ScanIsBatch ==
    ASSUME Inv, NEW r \in Replicas, NEW after \in Hlcs \cup {None}, NEW origin
    PROVE  Scan(r, after, origin) \in Batch
  <1> DEFINE b == Scan(r, after, origin)
  <1>1. after \in Nat
    BY HlcOrNoneIsNat
  <1>2. /\ log[r] \subseteq Tombstone
        /\ \A k \in Keys : rows[r][k] \in Row
    BY DEF Inv, TypeOK
  <1>3. b.dels \subseteq Tombstone
    BY <1>2 DEF Scan
  <1>4. b.cells \subseteq Cell
    <2> SUFFICES ASSUME NEW k \in Keys, NEW c \in Cols, CellOf(r, k, c).h > after
                 PROVE  CellOf(r, k, c) \in Cell
      BY DEF Scan, Prefiltered
    <2> DEFINE x == ColHlc(rows[r][k], c)
               v == rows[r][k].val[c]
    <2>1. x \in Hlcs \cup {None} /\ v \in Hlcs \cup {None}
      BY <1>2 DEF ColHlc, Row
    <2>2. x > after
      BY DEF CellOf
    <2> HIDE DEF x, v
    <2>3. x # None
      BY <1>1, <2>2 DEF None
    <2>4. x \in Hlcs
      BY <2>1, <2>3
    <2>5. CellOf(r, k, c) = [k |-> k, c |-> c, h |-> x, v |-> v]
      BY DEF CellOf, x, v
    <2> QED
      BY <2>1, <2>4, <2>5 DEF Cell
  <1>5. b = [cells |-> b.cells, dels |-> b.dels]
    BY DEF Scan
  <1> HIDE DEF b
  <1>6. b \in Batch
    BY <1>3, <1>4, <1>5 DEF Batch
  <1> QED
    BY <1>6 DEF b

\* The part of a batch that is about one table, and two parts put together.
LEMMA OfTableIsBatch ==
    ASSUME NEW b \in Batch, NEW t
    PROVE  OfTable(b, t) \in Batch
  BY DEF OfTable, Batch

LEMMA JoinIsBatch ==
    ASSUME NEW b \in Batch, NEW d \in Batch
    PROVE  Join(b, d) \in Batch
  BY DEF Join, Batch

\* Putting a scan on the wire keeps the invariant.
LEMMA PublishInv ==
    ASSUME Inv, NEW r \in Replicas, NEW origin \in Origins, NEW t \in Tables,
           NEW after \in Cursors(r, origin), Publish(r, t, after, origin)
    PROVE  Inv'
  <1>1. None \in Hlcs \cup {None}
    OBVIOUS
  <1>2. Scan(r, None, origin) \in Batch
    BY <1>1, ScanIsBatch
  <1>3. HlcsIn(Scan(r, None, origin)) \subseteq Hlcs
    BY <1>2 DEF HlcsIn, HlcsOf, Batch, Cell, Tombstone
  <1>4. after \in Hlcs \cup {None}
    BY <1>3 DEF Cursors
  <1>5. OfTable(Scan(r, after, origin), t) \in Batch
    BY <1>4, ScanIsBatch, OfTableIsBatch
  <1>6. wire' \subseteq Batch
    BY <1>5 DEF Publish, Inv, TypeOK
  <1> QED
    BY <1>6 DEF Publish, Inv, TypeOK, RowDominates, NoZombie, ClockCovers

-----------------------------------------------------------------------------
(* apply_remote_changes                                                    *)

\* The newest of a nonempty set of HLCs.
LEMMA NewestHlc ==
    ASSUME NEW S, S \subseteq Hlcs, S # {}
    PROVE  Newest(S) \in Hlcs /\ \A g \in S : g <= Newest(S)
  <1>1. MaxHlc \in Nat /\ S \subseteq 0..MaxHlc
    BY HlcsAreNat
  <1> QED
    BY <1>1, NewestIsGreatest

\* The clock moves to the newest accepted HLC or stays, never back.
LEMMA AdvanceCovers ==
    ASSUME NEW c \in Hlcs \cup {None}, NEW A, A \subseteq Hlcs
    PROVE  /\ AdvancePastRemote(c, A) \in Hlcs \cup {None}
           /\ c <= AdvancePastRemote(c, A)
           /\ \A g \in A : g <= AdvancePastRemote(c, A)
  <1>1. c \in Nat
    BY HlcOrNoneIsNat
  <1>2. CASE A = {}
    BY <1>1, <1>2 DEF AdvancePastRemote
  <1>3. CASE A # {}
    <2>1. Newest(A) \in Hlcs /\ \A g \in A : g <= Newest(A)
      BY <1>3, NewestHlc
    <2>2. Newest(A) \in Nat /\ A \subseteq Nat
      BY <2>1, HlcsAreNat
    <2>3. AdvancePastRemote(c, A) = IF c > Newest(A) THEN c ELSE Newest(A)
      BY <1>3 DEF AdvancePastRemote, Later
    <2> QED
      BY <1>1, <2>1, <2>2, <2>3
  <1> QED
    BY <1>2, <1>3

\* Merging staged columns gives a row whose HLC is the newest of its old one
\* and theirs, and which dominates its columns.
LEMMA MergeRow ==
    ASSUME NEW row \in Row, NEW S, S \subseteq Cell, S # {},
           \A x \in Cols : row.at[x] <= row.hlc
    PROVE  /\ Merge(row, S) \in Row
           /\ Live(Merge(row, S))
           /\ \A x \in Cols : Merge(row, S).at[x] <= Merge(row, S).hlc
           /\ Merge(row, S).hlc = row.hlc \/ Merge(row, S).hlc = Newest(HlcsOf(S))
           /\ Merge(row, S).hlc >= row.hlc
           /\ Merge(row, S).hlc >= Newest(HlcsOf(S))
  <1> DEFINE top == Newest(HlcsOf(S))
             hl == RowHlcAfter(row, S)
             at == [c \in Cols |-> IF \E m \in S : m.c = c
                                   THEN (CHOOSE m \in S : m.c = c).h ELSE row.at[c]]
             val == [c \in Cols |-> IF \E m \in S : m.c = c
                                    THEN (CHOOSE m \in S : m.c = c).v ELSE row.val[c]]
  <1>1. HlcsOf(S) \subseteq Hlcs /\ \A m \in S : m.h \in HlcsOf(S)
    BY DEF HlcsOf, Cell
  <1>2. HlcsOf(S) # {}
    BY DEF HlcsOf
  <1>3. top \in Hlcs /\ \A g \in HlcsOf(S) : g <= top
    BY <1>1, <1>2, NewestHlc
  <1>4. row.hlc \in Hlcs \cup {None}
    BY DEF Row
  <1>5. top \in Nat /\ top # None /\ row.hlc \in Nat
    BY <1>3, <1>4, HlcsAreNat, HlcOrNoneIsNat
  <1>6. hl = IF row.hlc > top THEN row.hlc ELSE top
    BY DEF RowHlcAfter, Later
  <1> HIDE DEF top, hl
  <1>7. /\ hl \in Hlcs \cup {None} /\ hl \in Nat /\ hl >= row.hlc /\ hl >= top
        /\ hl = row.hlc \/ hl = top
    BY <1>3, <1>4, <1>5, <1>6
  <1>8. hl # None
    BY <1>5, <1>7 DEF None
  <1>9. ASSUME NEW c \in Cols
        PROVE  /\ at[c] \in Hlcs \cup {None} /\ val[c] \in Hlcs \cup {None}
               /\ at[c] <= hl
    <2>1. row.at[c] \in Hlcs \cup {None} /\ row.val[c] \in Hlcs \cup {None}
      BY DEF Row
    <2>2. row.at[c] \in Nat
      BY <2>1, HlcOrNoneIsNat
    <2>3. CASE \E m \in S : m.c = c
      <3> DEFINE w == CHOOSE m \in S : m.c = c
      <3>1. w \in S
        BY <2>3
      <3>2. at[c] = w.h /\ val[c] = w.v
        BY <2>3
      <3> HIDE DEF w
      <3>3. w.h \in Hlcs /\ w.v \in Hlcs \cup {None} /\ w.h <= top
        BY <1>1, <1>3, <3>1 DEF Cell
      <3>4. w.h \in Nat
        BY <3>3, HlcsAreNat
      <3>5. w.h <= hl
        BY <1>5, <1>7, <3>3, <3>4
      <3> QED
        BY <3>2, <3>3, <3>5
    <2>4. CASE ~\E m \in S : m.c = c
      <3>1. at[c] = row.at[c] /\ val[c] = row.val[c]
        BY <2>4
      <3>2. row.at[c] <= hl
        BY <1>5, <1>7, <2>2
      <3> QED
        BY <2>1, <3>1, <3>2
    <2> QED
      BY <2>3, <2>4
  <1>10. at \in [Cols -> Hlcs \cup {None}] /\ val \in [Cols -> Hlcs \cup {None}]
    BY <1>9
  <1>11. Merge(row, S) = [hlc |-> hl, at |-> at, val |-> val]
    BY DEF Merge, hl
  <1> HIDE DEF at, val
  <1>12. Merge(row, S) \in Row
    BY <1>7, <1>10, <1>11 DEF Row
  <1>13. Live(Merge(row, S))
    BY <1>8, <1>11 DEF Live
  <1>14. \A x \in Cols : Merge(row, S).at[x] <= Merge(row, S).hlc
    BY <1>9, <1>11
  <1>15. Merge(row, S).hlc = hl
    BY <1>11
  <1> QED
    BY <1>7, <1>12, <1>13, <1>14, <1>15 DEF top

\* process_row_group and delete propagation leave a good row good with
\* respect to the new log and the advanced clock.
LEMMA DeliverRow ==
    ASSUME NEW r \in Replicas, NEW k \in Keys, NEW p \in Batch, NEW e \in Hlcs \cup {None},
           log[r] \subseteq Tombstone, clock[r] \in Hlcs \cup {None},
           Good(rows[r][k], k, log[r], clock[r]),
           clock[r] <= e, \A g \in Accepted(r, p) : g <= e
    PROVE  Good(Propagate(ApplyRow(r, k, p), k, p), k, log[r] \cup p.dels, e)
  <1> DEFINE old == rows[r][k]
             S == Staged(old, k, p)
             new == ApplyRow(r, k, p)
  <1>1. old \in Row /\ old.hlc \in Hlcs \cup {None} /\ clock[r] \in Nat /\ e \in Nat
    BY HlcOrNoneIsNat DEF Good, Row
  <1>2. old.hlc \in Nat /\ old.hlc <= clock[r]
    BY <1>1, HlcOrNoneIsNat DEF Good
  <1>3. \A d \in log[r] \cup p.dels : d.h \in Nat
    BY HlcsAreNat DEF Batch, Tombstone
  <1>4. Good(new, k, log[r], e)
    <2>1. CASE ~Writes(r, k, p)
      <3>1. new = old
        BY <2>1 DEF ApplyRow
      <3> QED
        BY <3>1, GoodKept
    <2>2. CASE Writes(r, k, p)
      <3>1. new = Merge(old, S)
        BY <2>2 DEF ApplyRow
      <3>2. S # {} /\ (Live(old) \/ ~Shadowed(r, k, Newest(HlcsOf(S))))
        BY <2>2 DEF Writes
      <3>3. S \subseteq Cell /\ \A x \in Cols : old.at[x] <= old.hlc
        BY DEF Staged, Batch, Good
      <3>4. HlcsOf(S) \subseteq Hlcs /\ HlcsOf(S) # {}
        BY <3>2, <3>3 DEF HlcsOf, Cell
      <3>5. HlcsOf(S) \subseteq Accepted(r, p)
        <4>1. S \subseteq Written(r, p)
          BY <2>2 DEF Written, Staged
        <4>2. HlcsOf(S) \subseteq HlcsOf(Written(r, p))
          BY <4>1 DEF HlcsOf
        <4> QED
          BY <4>2 DEF Accepted
      <3> DEFINE top == Newest(HlcsOf(S))
      <3>6. top \in Nat /\ top <= e
        <4>1. MaxHlc \in Nat /\ HlcsOf(S) \subseteq 0..MaxHlc
          BY <3>4, HlcsAreNat
        <4>2. top \in HlcsOf(S)
          BY <3>4, <4>1, NewestIsGreatest
        <4> QED
          BY <3>4, <3>5, <4>2, HlcsAreNat
      <3>7. /\ new \in Row /\ Live(new)
            /\ \A x \in Cols : new.at[x] <= new.hlc
            /\ new.hlc = old.hlc \/ new.hlc = top
            /\ new.hlc >= old.hlc /\ new.hlc >= top
        BY <1>1, <3>1, <3>2, <3>3, MergeRow
      <3>8. Live(old) => \A d \in log[r] : d.k = k => old.hlc >= d.h
        BY DEF Good
      <3>9. ~Shadowed(r, k, top) => \A d \in log[r] : d.k = k => ~(d.h >= top)
        BY DEF Shadowed
      <3>10. Live(old) \/ ~Shadowed(r, k, top)
        BY <3>2
      <3> HIDE DEF new, top, S, old
      <3>11. new.hlc \in Nat /\ new.hlc <= e
        BY <1>1, <1>2, <3>6, <3>7
      <3>12. \A d \in log[r] : d.k = k => new.hlc >= d.h
        BY <1>2, <1>3, <3>6, <3>7, <3>8, <3>9, <3>10, <3>11
      <3> QED
        BY <3>7, <3>11, <3>12 DEF Good
    <2> QED
      BY <2>1, <2>2
  <1> HIDE DEF new
  <1>5. CASE \E d \in p.dels : d.k = k /\ ShouldPropagate(new, d)
    <2>1. Propagate(new, k, p) = Absent
      BY <1>5 DEF Propagate
    <2> QED
      BY <2>1, AbsentGood DEF new
  <1>6. CASE ~\E d \in p.dels : d.k = k /\ ShouldPropagate(new, d)
    <2>1. Propagate(new, k, p) = new
      BY <1>6 DEF Propagate
    <2>2. new.hlc \in Hlcs \cup {None}
      BY <1>4 DEF Good, Row
    <2>3. new.hlc \in Nat
      BY <2>2, HlcOrNoneIsNat
    <2>4. \A d \in p.dels : d.k = k => new.hlc > d.h
      BY <1>6 DEF ShouldPropagate
    <2>5. Live(new) => \A d \in log[r] \cup p.dels : d.k = k => new.hlc >= d.h
      BY <1>3, <1>4, <2>3, <2>4 DEF Good
    <2>6. Good(new, k, log[r] \cup p.dels, e)
      BY <1>4, <2>5 DEF Good
    <2> QED
      BY <2>1, <2>6 DEF new
  <1> QED
    BY <1>5, <1>6

\* A page of a batch is a batch.
LEMMA PageIsBatch ==
    ASSUME NEW b \in Batch, NEW hi
    PROVE  Page(b, hi) \in Batch
  BY DEF Page, Batch

\* What a batch makes a replica accept are HLCs of that batch.
LEMMA AcceptedAreHlcs ==
    ASSUME NEW r \in Replicas, NEW p \in Batch
    PROVE  Accepted(r, p) \subseteq Hlcs
  <1>1. Written(r, p) \subseteq Cell /\ p.dels \ log[r] \subseteq Tombstone
    BY DEF Written, Batch
  <1>2. HlcsOf(Written(r, p)) \subseteq Hlcs
    BY <1>1 DEF HlcsOf, Cell
  <1>3. HlcsOf(p.dels \ log[r]) \subseteq Hlcs
    BY <1>1 DEF HlcsOf, Tombstone
  <1> QED
    BY <1>2, <1>3 DEF Accepted

\* Applying any page of any scan keeps the invariant, however old the scan is
\* and however often it was applied before.
LEMMA DeliverInv ==
    ASSUME Inv, NEW r \in Replicas, NEW p \in Batch, Deliver(r, p)
    PROVE  Inv'
  <1> DEFINE R == [k \in Keys |-> Propagate(ApplyRow(r, k, p), k, p)]
             L == log[r] \cup p.dels
             e == AdvancePastRemote(clock[r], Accepted(r, p))
  <1>0. /\ rows \in [Replicas -> [Keys -> Row]]
        /\ log \in [Replicas -> SUBSET Tombstone]
        /\ clock \in [Replicas -> Hlcs \cup {None}]
        /\ wire \in SUBSET Batch
        /\ \A q \in Replicas : GoodReplica(rows[q], log[q], clock[q])
    BY InvIsLocal
  <1>1. clock[r] \in Hlcs \cup {None} /\ log[r] \subseteq Tombstone
    BY <1>0
  <1>2. /\ e \in Hlcs \cup {None} /\ clock[r] <= e
        /\ \A g \in Accepted(r, p) : g <= e
    BY <1>1, AcceptedAreHlcs, AdvanceCovers
  <1>3. rows' = [rows EXCEPT ![r] = R] /\ log' = [log EXCEPT ![r] = L]
        /\ clock' = [clock EXCEPT ![r] = e] /\ wire' = wire
    BY <1>0 DEF Deliver
  <1> HIDE DEF e
  <1>4. \A k \in Keys : Good(R[k], k, L, e)
    <2> TAKE k \in Keys
    <2>1. Good(rows[r][k], k, log[r], clock[r])
      BY <1>0 DEF GoodReplica
    <2> QED
      BY <1>1, <1>2, <2>1, DeliverRow
  <1>5. L \subseteq Tombstone
    BY <1>1 DEF Batch
  <1>6. \A d \in L : d.h <= e
    <2> SUFFICES ASSUME NEW d \in L PROVE d.h <= e
      OBVIOUS
    <2>1. CASE d \in log[r]
      <3>1. d.h <= clock[r] /\ d.h \in Hlcs
        BY <1>0, <1>1, <2>1 DEF GoodReplica, Tombstone
      <3>2. d.h \in Nat /\ clock[r] \in Nat /\ e \in Nat
        BY <1>1, <1>2, <3>1, HlcsAreNat, HlcOrNoneIsNat
      <3> QED
        BY <1>2, <3>1, <3>2
    <2>2. CASE d \notin log[r]
      <3>1. d \in p.dels \ log[r]
        BY <2>2
      <3>a. d.h \in HlcsOf(p.dels \ log[r])
        BY <3>1 DEF HlcsOf
      <3>2. d.h \in Accepted(r, p)
        BY <3>a DEF Accepted
      <3> QED
        BY <1>2, <3>2
    <2> QED
      BY <2>1, <2>2
  <1>7. R \in [Keys -> Row]
    BY <1>4 DEF Good
  <1> HIDE DEF R, L
  <1>8. rows'[r] = R /\ log'[r] = L /\ clock'[r] = e
    BY <1>0, <1>3
  <1>9. GoodReplica(rows'[r], log'[r], clock'[r])
    BY <1>2, <1>4, <1>5, <1>6, <1>8 DEF GoodReplica
  <1>10. \A q \in Replicas \ {r} : rows'[q] = rows[q] /\ log'[q] = log[q] /\ clock'[q] = clock[q]
    BY <1>0, <1>3
  <1>11. \A q \in Replicas : GoodReplica(rows'[q], log'[q], clock'[q])
    BY <1>0, <1>9, <1>10
  <1>12. /\ rows' \in [Replicas -> [Keys -> Row]]
         /\ log' \in [Replicas -> SUBSET Tombstone]
         /\ clock' \in [Replicas -> Hlcs \cup {None}]
         /\ wire' \in SUBSET Batch
    BY <1>0, <1>2, <1>3, <1>5, <1>7
  <1> QED
    BY <1>11, <1>12, InvIsLocalNext

-----------------------------------------------------------------------------
(* Inv is inductive.                                                       *)

\* Empty databases satisfy the invariant.
LEMMA InitInv == Init => Inv
  <1> SUFFICES ASSUME Init PROVE Inv
    OBVIOUS
  <1>1. Absent \in Row
    BY DEF Absent, Row
  <1>2. \A c \in Cols : Absent.at[c] = 0
    BY DEF Absent, None
  <1>3. Absent.hlc = 0
    BY DEF Absent, None
  <1>4. TypeOK
    BY <1>1 DEF Init, TypeOK
  <1>5. RowDominates
    BY <1>2, <1>3 DEF Init, RowDominates
  <1>6. NoZombie /\ ClockCovers
    BY <1>3 DEF Init, NoZombie, ClockCovers, None
  <1> QED
    BY <1>4, <1>5, <1>6 DEF Inv

\* Every step keeps the invariant.
LEMMA StepInv == Inv /\ [Next]_vars => Inv'
  <1> SUFFICES ASSUME Inv, [Next]_vars PROVE Inv'
    OBVIOUS
  <1>1. CASE \E r \in Replicas, k \in Keys, h \in Hlcs :
                 \/ Insert(r, k, h)
                 \/ \E C \in ChangeSets : Update(r, k, C, h)
                 \/ Delete(r, k, h)
                 \/ Replace(r, k, h)
    BY <1>1, InsertInv, UpdateInv, DeleteInv, ReplaceInv
  <1>2. CASE \E r \in Replicas, origin \in Origins :
                 \E t \in Tables, after \in Cursors(r, origin) : Publish(r, t, after, origin)
    BY <1>2, PublishInv
  <1>3. CASE \E b \in wire : Lose(b)
    BY <1>3 DEF Lose, Inv, TypeOK, RowDominates, NoZombie, ClockCovers
  <1>4. CASE \E r \in Replicas, b, d \in wire :
                 \E hi \in PageEnds(Join(b, d)) : Deliver(r, Page(Join(b, d), hi))
    <2>1. PICK r \in Replicas, b \in wire, d \in wire :
              \E hi \in PageEnds(Join(b, d)) : Deliver(r, Page(Join(b, d), hi))
      BY <1>4
    <2>a. PICK hi \in PageEnds(Join(b, d)) : Deliver(r, Page(Join(b, d), hi))
      BY <2>1
    <2>2. Join(b, d) \in Batch
      BY JoinIsBatch DEF Inv, TypeOK
    <2>3. Page(Join(b, d), hi) \in Batch
      BY <2>2, PageIsBatch
    <2> QED
      BY <2>a, <2>3, DeliverInv
  <1>5. CASE UNCHANGED vars
    BY <1>5 DEF vars, Inv, TypeOK, RowDominates, NoZombie, ClockCovers
  <1> QED
    BY <1>1, <1>2, <1>3, <1>4, <1>5 DEF Next

-----------------------------------------------------------------------------
(* Theorems                                                                *)

\* The invariant holds of every reachable state of every number of replicas.
THEOREM Invariance == Spec => []Inv
  BY InitInv, StepInv, PTL DEF Spec

\* Rows, delete logs, clocks and batches keep their shape.
THEOREM TypeCorrect == Spec => []TypeOK
  <1>1. Inv => TypeOK
    BY DEF Inv
  <1> QED
    BY <1>1, Invariance, PTL

\* No row outlives a delete of its key that its replica knows of.
THEOREM NoResurrection == Spec => []NoZombie
  <1>1. Inv => NoZombie
    BY DEF Inv
  <1> QED
    BY <1>1, Invariance, PTL

\* A replica's clock covers every row and every delete it stores.
THEOREM ClockAhead == Spec => []ClockCovers
  <1>1. Inv => ClockCovers
    BY DEF Inv
  <1> QED
    BY <1>1, Invariance, PTL

\* The scanner's prefilter, which compares row HLCs as text, hides nothing beyond the
\* cursor but changes of the cursor's own time by another node, and nothing at all
\* from a scan of a node's own changes.
THEOREM PrefilterMissesTies == Spec => []PrefilterHidesOnlyTies
  <1>1. Inv => PrefilterHidesOnlyTies
    <2> SUFFICES ASSUME Inv, NEW r \in Replicas, NEW origin \in {"any", "own"},
                        NEW after \in HlcsIn(Scan(r, None, origin)),
                        NEW m \in Missed(r, after, origin)
                 PROVE  origin = "any" /\ Time(m.h) = Time(after)
      BY DEF PrefilterHidesOnlyTies
    <2> DEFINE full == Scan(r, None, origin)
               part == Scan(r, after, origin)
    <2>1. full \in Batch
      BY ScanIsBatch
    <2>2. after \in Hlcs
      BY <2>1 DEF HlcsIn, HlcsOf, Batch, Cell, Tombstone
    <2>3. after \in Nat
      BY <2>2, HlcsAreNat
    <2>4. m.h > after /\ (m \in full.cells \ part.cells \/ m \in full.dels \ part.dels)
      BY DEF Missed
    <2>5. \A h \in HlcsIn(full) : FromOrigin(r, origin, h)
      BY DEF Scan, HlcsIn, HlcsOf
    <2>6. FromOrigin(r, origin, m.h) /\ FromOrigin(r, origin, after)
      BY <2>4, <2>5 DEF HlcsIn, HlcsOf
    <2>7. \E x \in Nat : m.h \in Nat /\ m.h <= x /\ ~TextAfter(x, after)
      <3>1. CASE m \in full.dels \ part.dels
        <4>1. m \in log[r] /\ m.h \in Hlcs
          BY <2>1, <3>1 DEF Scan, Batch, Tombstone
        <4>a. m.h \in Nat
          BY <4>1, HlcsAreNat
        <4>2. m.h \in Nat /\ m.h <= m.h
          BY <4>a
        <4>3. ~TextAfter(m.h, after)
          BY <2>4, <2>6, <3>1, <4>1 DEF Scan
        <4> QED
          BY <4>2, <4>3
      <3>2. CASE m \in full.cells \ part.cells
        <4>1. PICK k \in Keys, c \in Cols : m = CellOf(r, k, c)
          BY <3>2 DEF Scan, Prefiltered
        <4>2. rows[r][k].hlc \in Hlcs \cup {None} /\ rows[r][k].at[c] \in Hlcs \cup {None}
          BY DEF Inv, TypeOK, Row
        <4>3. rows[r][k].hlc \in Nat /\ rows[r][k].at[c] \in Nat
          BY <4>2, HlcOrNoneIsNat
        <4>4. rows[r][k].at[c] <= rows[r][k].hlc
          BY DEF Inv, RowDominates
        <4>5. m.h \in Nat /\ m.h <= rows[r][k].hlc
          BY <4>1, <4>3, <4>4 DEF CellOf, ColHlc
        <4>6. ~TextAfter(rows[r][k].hlc, after)
          BY <2>4, <2>6, <3>2, <4>1 DEF Scan, Prefiltered
        <4> QED
          BY <4>3, <4>5, <4>6
      <3> QED
        BY <2>4, <3>1, <3>2
    <2> HIDE DEF full, part
    <2>8. m.h \in Nat /\ Time(m.h) = Time(after) /\ Node(m.h) # Node(after)
      BY <2>3, <2>4, <2>7, TextMisses
    <2> QED
      BY <2>6, <2>8 DEF FromOrigin
  <1> QED
    BY <1>1, Invariance, PTL

\* A column of a row that stays in the table never goes back to an older
\* HLC, be it by a local write or by a stale, repeated or partial batch.
THEOREM ColumnsAdvance == Spec => ColumnsNeverRegress
  <1> DEFINE Advance == \A r \in Replicas, k \in Keys :
                 Live(rows[r][k]) /\ Live(rows'[r][k]) =>
                     \A c \in Cols : rows'[r][k].at[c] >= rows[r][k].at[c]
  <1>0. ASSUME Inv
        PROVE  /\ rows \in [Replicas -> [Keys -> Row]]
               /\ \A r \in Replicas, k \in Keys, c \in Cols :
                      rows[r][k].at[c] \in Nat /\ rows[r][k].at[c] \in Hlcs \cup {None}
    <2>1. rows \in [Replicas -> [Keys -> Row]]
      BY <1>0 DEF Inv, TypeOK
    <2>2. \A r \in Replicas, k \in Keys, c \in Cols : rows[r][k].at[c] \in Hlcs \cup {None}
      BY <2>1 DEF Row
    <2> QED
      BY <2>1, <2>2, HlcOrNoneIsNat
  <1>1. ASSUME Inv, NEW r \in Replicas, NEW k \in Keys, NEW h \in Hlcs,
               \/ Insert(r, k, h)
               \/ \E C \in ChangeSets : Update(r, k, C, h)
               \/ Delete(r, k, h)
               \/ Replace(r, k, h)
        PROVE  Advance
    <2>1. Draws(r, h)
      BY <1>1 DEF Insert, Update, Delete, Replace
    <2>2. h \in Nat /\ rows[r][k].hlc \in Nat /\ rows[r][k].hlc < h
      BY <1>1, <2>1, LocalFacts
    <2>3. \A c \in Cols : rows[r][k].at[c] <= rows[r][k].hlc
      BY <1>1 DEF Inv, RowDominates
    <2>4. \A c \in Cols : h >= rows[r][k].at[c]
      BY <1>0, <1>1, <2>2, <2>3
    <2>5. \A q \in Replicas, j \in Keys : q # r \/ j # k => rows'[q][j] = rows[q][j]
      BY <1>0, <1>1 DEF Insert, Update, Delete, Replace
    <2>6. Live(rows'[r][k]) => \A c \in Cols : rows'[r][k].at[c] \in {h, rows[r][k].at[c]}
      BY <1>0, <1>1 DEF Insert, Update, Delete, Replace, Inserted, Absent, Live
    <2>7. Live(rows'[r][k]) => \A c \in Cols : rows'[r][k].at[c] >= rows[r][k].at[c]
      BY <1>0, <1>1, <2>4, <2>6
    <2> QED
      BY <1>0, <1>1, <2>5, <2>7
  <1>2. ASSUME Inv, NEW r \in Replicas, NEW p \in Batch, Deliver(r, p)
        PROVE  Advance
    <2>1. \A q \in Replicas, j \in Keys : q # r => rows'[q][j] = rows[q][j]
      BY <1>0, <1>2 DEF Deliver
    <2>2. ASSUME NEW k \in Keys, Live(rows'[r][k]), NEW c \in Cols
          PROVE  rows'[r][k].at[c] >= rows[r][k].at[c]
      <3> DEFINE old == rows[r][k]
                 S == Staged(old, k, p)
      <3>1. rows'[r][k] = Propagate(ApplyRow(r, k, p), k, p)
        BY <1>0, <1>2 DEF Deliver
      <3>2. Propagate(ApplyRow(r, k, p), k, p) # Absent
        BY <2>2, <3>1 DEF Live, Absent
      <3>3. rows'[r][k] = ApplyRow(r, k, p)
        BY <3>1, <3>2 DEF Propagate
      <3>4. CASE ~Writes(r, k, p)
        BY <1>0, <1>2, <3>3, <3>4 DEF ApplyRow
      <3>5. CASE Writes(r, k, p)
        <4>1. rows'[r][k] = Merge(old, S)
          BY <3>3, <3>5 DEF ApplyRow
        <4>2. CASE \E m \in S : m.c = c
          <5> DEFINE w == CHOOSE m \in S : m.c = c
          <5>1. w \in S /\ w.c = c
            BY <4>2
          <5>2. rows'[r][k].at[c] = w.h
            BY <4>1, <4>2 DEF Merge
          <5> HIDE DEF w
          <5>3. w.h > old.at[c] /\ w \in Cell
            BY <1>2, <5>1 DEF Staged, Batch
          <5>4. w.h \in Nat
            BY <5>3, HlcsAreNat DEF Cell
          <5> QED
            BY <1>0, <1>2, <5>2, <5>3, <5>4
        <4>3. CASE ~\E m \in S : m.c = c
          <5>1. rows'[r][k].at[c] = old.at[c]
            BY <4>1, <4>3 DEF Merge
          <5> QED
            BY <1>0, <1>2, <5>1
        <4> QED
          BY <4>2, <4>3
      <3> QED
        BY <3>4, <3>5
    <2> QED
      BY <1>0, <1>2, <2>1, <2>2
  <1>3. ASSUME Inv, rows' = rows
        PROVE  Advance
    BY <1>0, <1>3
  <1>4. ASSUME Inv, Next
        PROVE  Advance
    <2>1. CASE \E r \in Replicas, k \in Keys, h \in Hlcs :
                 \/ Insert(r, k, h)
                 \/ \E C \in ChangeSets : Update(r, k, C, h)
                 \/ Delete(r, k, h)
                 \/ Replace(r, k, h)
      BY <1>1, <1>4, <2>1
    <2>2. CASE \/ \E r \in Replicas, origin \in Origins :
                     \E t \in Tables, after \in Cursors(r, origin) :
                         Publish(r, t, after, origin)
               \/ \E b \in wire : Lose(b)
      <3>1. rows' = rows
        BY <2>2 DEF Publish, Lose
      <3> QED
        BY <1>3, <1>4, <3>1
    <2>3. CASE \E r \in Replicas, b, d \in wire :
                 \E hi \in PageEnds(Join(b, d)) : Deliver(r, Page(Join(b, d), hi))
      <3>1. PICK r \in Replicas, b \in wire, d \in wire :
                \E hi \in PageEnds(Join(b, d)) : Deliver(r, Page(Join(b, d), hi))
        BY <2>3
      <3>2. PICK hi \in PageEnds(Join(b, d)) : Deliver(r, Page(Join(b, d), hi))
        BY <3>1
      <3>3. Join(b, d) \in Batch
        BY <1>4, JoinIsBatch DEF Inv, TypeOK
      <3>4. Page(Join(b, d), hi) \in Batch
        BY <3>3, PageIsBatch
      <3> QED
        BY <1>2, <1>4, <3>2, <3>4
    <2> QED
      BY <1>4, <2>1, <2>2, <2>3 DEF Next
  <1>5. ASSUME Inv, [Next]_vars
        PROVE  [Advance]_vars
    BY <1>4, <1>5
  <1> QED
    BY <1>5, Invariance, PTL DEF Spec, ColumnsNeverRegress

-----------------------------------------------------------------------------
(* Whole rows: scans without a cursor and without an origin filter         *)

\* Every scan is complete and travels in one piece.
WholeScans == ~Paged /\ Origins \subseteq {"any"}

\* Every update changes a tracked column, and there is one to change.
TrackedOnly == Cols # {} /\ {} \notin ChangeSets

\* A row has an entry for every column, which holds what that transaction wrote.
Whole(row) ==
    Live(row) => \A c \in Cols : row.at[c] \in Hlcs /\ row.val[c] = row.at[c]

\* The row HLC is that of a column.
Tight(row) == Live(row) => \E c \in Cols : row.at[c] = row.hlc

\* A batch has every column of a row once or not at all.
WholeBatch(b) ==
    /\ \A m \in b.cells : m.v = m.h
    /\ \A m, n \in b.cells : m.k = n.k /\ m.c = n.c => m = n
    /\ \A m \in b.cells, c \in Cols : \E n \in b.cells : n.k = m.k /\ n.c = c

WholeInv ==
    /\ \A r \in Replicas, k \in Keys : Whole(rows[r][k])
    /\ \A b \in wire : WholeBatch(b)

TightInv == \A r \in Replicas, k \in Keys : Tight(rows[r][k])

\* The full scan of whole rows: every column of every row under its own HLC.
LEMMA FullScan ==
    ASSUME Inv, NEW r \in Replicas, \A k \in Keys : Whole(rows[r][k])
    PROVE  /\ \A m : m \in Scan(r, None, "any").cells <=>
                  \E k \in Keys, c \in Cols :
                      /\ Live(rows[r][k])
                      /\ m = [k |-> k, c |-> c, h |-> rows[r][k].at[c], v |-> rows[r][k].at[c]]
           /\ Scan(r, None, "any").dels = log[r]
  <1>1. /\ log[r] \subseteq Tombstone
        /\ \A k \in Keys : rows[r][k] \in Row
    BY DEF Inv, TypeOK
  <1>2. \A k \in Keys : TextAfter(rows[r][k].hlc, None) <=> Live(rows[r][k])
    <2> TAKE k \in Keys
    <2>1. rows[r][k].hlc \in Hlcs \cup {None}
      BY <1>1 DEF Row
    <2> QED
      BY <2>1, TextAfterNone, HlcsAreNat DEF Live
  <1>3. \A h \in Hlcs : h > None /\ h # None
    BY HlcsAreNat DEF None
  <1>4. \A h : FromOrigin(r, "any", h)
    BY DEF FromOrigin
  <1>5. ASSUME NEW k \in Keys, NEW c \in Cols, Live(rows[r][k])
        PROVE  /\ CellOf(r, k, c) = [k |-> k, c |-> c, h |-> rows[r][k].at[c], v |-> rows[r][k].at[c]]
               /\ CellOf(r, k, c).h > None
    <2>1. rows[r][k].at[c] \in Hlcs /\ rows[r][k].val[c] = rows[r][k].at[c]
      BY <1>5 DEF Whole
    <2> QED
      BY <1>3, <2>1 DEF CellOf, ColHlc
  <1>6. \A m : m \in Scan(r, None, "any").cells <=>
            \E k \in Keys, c \in Cols :
                TextAfter(rows[r][k].hlc, None) /\ m = CellOf(r, k, c) /\ m.h > None
    BY <1>4 DEF Scan, Prefiltered
  <1>7. Scan(r, None, "any").dels = log[r]
    BY <1>1, <1>3, <1>4, TextAfterNone DEF Scan, Tombstone
  <1> QED
    BY <1>2, <1>5, <1>6, <1>7

LEMMA FullScanWhole ==
    ASSUME Inv, NEW r \in Replicas, \A k \in Keys : Whole(rows[r][k])
    PROVE  WholeBatch(Scan(r, None, "any"))
  <1> DEFINE b == Scan(r, None, "any")
  <1>1. \A m : m \in b.cells <=>
            \E k \in Keys, c \in Cols :
                /\ Live(rows[r][k])
                /\ m = [k |-> k, c |-> c, h |-> rows[r][k].at[c], v |-> rows[r][k].at[c]]
    BY FullScan
  <1> HIDE DEF b
  <1>2. \A m \in b.cells : m.v = m.h
    BY <1>1
  <1>3. \A m, n \in b.cells : m.k = n.k /\ m.c = n.c => m = n
    BY <1>1
  <1>4. ASSUME NEW m \in b.cells, NEW c \in Cols PROVE \E n \in b.cells : n.k = m.k /\ n.c = c
    <2>1. PICK k \in Keys, x \in Cols :
              /\ Live(rows[r][k])
              /\ m = [k |-> k, c |-> x, h |-> rows[r][k].at[x], v |-> rows[r][k].at[x]]
      BY <1>1
    <2> DEFINE n == [k |-> k, c |-> c, h |-> rows[r][k].at[c], v |-> rows[r][k].at[c]]
    <2>2. n \in b.cells
      BY <1>1, <2>1
    <2> QED
      BY <2>1, <2>2
  <1>5. WholeBatch(b)
    BY <1>2, <1>3, <1>4 DEF WholeBatch
  <1> QED
    BY <1>5 DEF b

\* A batch that is not paged arrives as it was sent.
LEMMA PageIsAll ==
    ASSUME NEW b \in Batch, WholeScans, NEW hi \in PageEnds(b)
    PROVE  Page(b, hi) = b
  <1>1. hi = MaxHlc
    BY DEF PageEnds, WholeScans
  <1>2. \A m \in b.cells : m.h <= hi
    BY <1>1, HlcsAreNat DEF Batch, Cell, Hlcs
  <1>3. \A d \in b.dels : d.h <= hi
    BY <1>1, HlcsAreNat DEF Batch, Tombstone, Hlcs
  <1> QED
    BY <1>2, <1>3 DEF Page, Batch

\* The columns of a merged row: the staged change, or what was there.
LEMMA MergeCols ==
    ASSUME NEW row, NEW S, NEW c \in Cols,
           \A m, n \in S : m.c = n.c => m = n
    PROVE  /\ \A m \in S : m.c = c => Merge(row, S).at[c] = m.h /\ Merge(row, S).val[c] = m.v
           /\ (~\E m \in S : m.c = c) =>
                  Merge(row, S).at[c] = row.at[c] /\ Merge(row, S).val[c] = row.val[c]
  <1>1. ASSUME NEW m \in S, m.c = c
        PROVE  Merge(row, S).at[c] = m.h /\ Merge(row, S).val[c] = m.v
    <2>1. (CHOOSE n \in S : n.c = c) = m
      BY <1>1
    <2> QED
      BY <1>1, <2>1 DEF Merge
  <1>2. ASSUME ~\E m \in S : m.c = c
        PROVE  Merge(row, S).at[c] = row.at[c] /\ Merge(row, S).val[c] = row.val[c]
    BY <1>2 DEF Merge
  <1> QED
    BY <1>1, <1>2

\* A whole batch leaves a whole row whole, and a tight row tight.
LEMMA DeliverWhole ==
    ASSUME Inv, NEW r \in Replicas, NEW k \in Keys, NEW p \in Batch, WholeBatch(p),
           Whole(rows[r][k]), Writes(r, k, p)
    PROVE  LET new == Merge(rows[r][k], Staged(rows[r][k], k, p)) IN
           Whole(new) /\ (Tight(rows[r][k]) => Tight(new))
  <1> DEFINE old == rows[r][k]
             S == Staged(old, k, p)
             new == Merge(old, S)
  <1>1. /\ S # {} /\ S \subseteq p.cells /\ p.cells \subseteq Cell
        /\ \A m \in S : m.k = k /\ m.h > old.at[m.c] /\ m.h \in Hlcs /\ m.c \in Cols
        /\ \A m \in p.cells : m.k = k /\ m.h > old.at[m.c] => m \in S
    BY DEF Writes, Staged, Batch, Cell
  <1>2. old \in Row /\ (Live(old) \/ old = Absent) /\ \A c \in Cols : old.at[c] <= old.hlc
    BY DEF Inv, TypeOK, RowDominates
  <1>3. \A m, n \in S : m.c = n.c => m = n
    BY <1>1 DEF WholeBatch
  <1>4. ~Live(old) => \A c \in Cols : \E m \in S : m.c = c
    <2> SUFFICES ASSUME ~Live(old), NEW c \in Cols PROVE \E m \in S : m.c = c
      OBVIOUS
    <2>1. PICK m \in S : TRUE
      BY <1>1
    <2>2. PICK n \in p.cells : n.k = m.k /\ n.c = c
      BY <1>1, <2>1 DEF WholeBatch
    <2>3. old.at[c] = None
      BY <1>2 DEF Absent
    <2>a. n.h \in Hlcs
      BY <1>1, <2>2 DEF Cell
    <2>b. n.h \in Nat /\ n.h # None
      BY <2>a, HlcsAreNat
    <2>4. n.h > old.at[n.c]
      BY <2>2, <2>3, <2>b DEF None
    <2> QED
      BY <1>1, <2>1, <2>2, <2>4
  <1>5. \A m \in S : m.v = m.h
    BY <1>1 DEF WholeBatch
  <1> HIDE DEF S
  <1>6. ASSUME NEW c \in Cols PROVE new.at[c] \in Hlcs /\ new.val[c] = new.at[c]
    <2>1. CASE \E m \in S : m.c = c
      BY <1>1, <1>3, <1>5, <2>1, MergeCols
    <2>2. CASE ~\E m \in S : m.c = c
      <3>1. Live(old)
        BY <1>4, <2>2
      <3>2. new.at[c] = old.at[c] /\ new.val[c] = old.val[c]
        BY <1>3, <2>2, MergeCols
      <3> QED
        BY <3>1, <3>2 DEF Whole
    <2> QED
      BY <2>1, <2>2
  <1>7. ASSUME Tight(old) PROVE \E c \in Cols : new.at[c] = new.hlc
    <2> DEFINE top == Newest(HlcsOf(S))
    <2>1. HlcsOf(S) \subseteq Hlcs /\ HlcsOf(S) # {} /\ \A m \in S : m.h \in HlcsOf(S)
      BY <1>1 DEF HlcsOf
    <2>2. top \in HlcsOf(S) /\ top \in Hlcs /\ \A g \in HlcsOf(S) : g <= top
      BY <2>1, NewestHlc, NewestIsGreatest, HlcsAreNat
    <2>3. PICK w \in S : w.h = top
      BY <2>2 DEF HlcsOf
    <2>4. old.hlc \in Hlcs \cup {None}
      BY <1>2 DEF Row
    <2>5. old.hlc \in Nat /\ top \in Nat
      BY <2>2, <2>4, HlcOrNoneIsNat, HlcsAreNat
    <2>6. new.hlc = IF old.hlc > top THEN old.hlc ELSE top
      BY DEF Merge, RowHlcAfter, Later
    <2>7. CASE ~(old.hlc > top)
      <3>1. new.at[w.c] = top /\ w.c \in Cols
        BY <1>1, <1>3, <2>3, MergeCols
      <3> QED
        BY <2>6, <2>7, <3>1
    <2>8. CASE old.hlc > top
      <3>1. Live(old)
        BY <2>5, <2>8 DEF Live, None
      <3>2. PICK c \in Cols : old.at[c] = old.hlc
        BY <1>7, <3>1 DEF Tight
      <3>3. ~\E m \in S : m.c = c
        <4> SUFFICES ASSUME NEW m \in S, m.c = c PROVE FALSE
          OBVIOUS
        <4>1. m.h > old.hlc /\ m.h <= top /\ m.h \in Nat
          BY <1>1, <2>1, <2>2, <3>2, HlcsAreNat
        <4> QED
          BY <2>5, <2>8, <4>1
      <3>4. new.at[c] = old.at[c]
        BY <1>3, <3>3, MergeCols
      <3> QED
        BY <2>6, <2>8, <3>2, <3>4
    <2> QED
      BY <2>7, <2>8
  <1> HIDE DEF new
  <1>8. Whole(new) /\ (Tight(old) => Tight(new))
    BY <1>6, <1>7 DEF Whole, Tight
  <1> QED
    BY <1>8 DEF new, S

\* Local statements write whole rows.
LEMMA LocalWhole ==
    ASSUME Inv, WholeInv, NEW r \in Replicas, NEW k \in Keys, NEW h \in Hlcs,
           \/ Insert(r, k, h)
           \/ \E C \in ChangeSets : Update(r, k, C, h)
           \/ Delete(r, k, h)
           \/ Replace(r, k, h)
    PROVE  WholeInv' /\ (TrackedOnly /\ TightInv => TightInv')
  <1>1. rows \in [Replicas -> [Keys -> Row]]
    BY DEF Inv, TypeOK
  <1>2. wire' = wire /\ \A q \in Replicas, j \in Keys : q # r \/ j # k => rows'[q][j] = rows[q][j]
    BY <1>1 DEF Insert, Update, Delete, Replace
  <1>3. Whole(Inserted(h)) /\ (TrackedOnly => Tight(Inserted(h)))
    BY DEF Whole, Tight, Inserted, TrackedOnly
  <1>4. Whole(Absent) /\ Tight(Absent)
    BY DEF Whole, Tight, Absent, Live
  <1>5. Whole(rows'[r][k]) /\ (TrackedOnly => Tight(rows'[r][k]))
    <2>1. CASE Insert(r, k, h) \/ Replace(r, k, h)
      <3>1. rows'[r][k] = Inserted(h)
        BY <1>1, <2>1 DEF Insert, Replace
      <3> QED
        BY <1>3, <3>1
    <2>2. CASE Delete(r, k, h)
      <3>1. rows'[r][k] = Absent
        BY <1>1, <2>2 DEF Delete
      <3> QED
        BY <1>4, <3>1
    <2>3. ASSUME NEW C \in ChangeSets, Update(r, k, C, h)
          PROVE  Whole(rows'[r][k]) /\ (TrackedOnly => Tight(rows'[r][k]))
      <3>1. /\ Live(rows[r][k])
            /\ rows'[r][k].hlc = h
            /\ \A c \in Cols : /\ rows'[r][k].at[c] = IF c \in C THEN h ELSE rows[r][k].at[c]
                               /\ rows'[r][k].val[c] = IF c \in C THEN h ELSE rows[r][k].val[c]
        BY <1>1, <2>3 DEF Update
      <3>2. Whole(rows[r][k])
        BY DEF WholeInv
      <3>3. Whole(rows'[r][k])
        BY <3>1, <3>2 DEF Whole
      <3>4. TrackedOnly => \E c \in Cols : c \in C
        BY SyncConstants DEF TrackedOnly
      <3> QED
        BY <3>1, <3>3, <3>4 DEF Tight
    <2> QED
      BY <2>1, <2>2, <2>3
  <1>6. \A q \in Replicas, j \in Keys : Whole(rows'[q][j])
    BY <1>2, <1>5 DEF WholeInv
  <1>7. TrackedOnly /\ TightInv => \A q \in Replicas, j \in Keys : Tight(rows'[q][j])
    BY <1>2, <1>5 DEF TightInv
  <1> QED
    BY <1>2, <1>6, <1>7 DEF WholeInv, TightInv

LEMMA StepWhole ==
    WholeScans /\ Inv /\ WholeInv /\ [Next]_vars =>
        WholeInv' /\ (TrackedOnly /\ TightInv => TightInv')
  <1> SUFFICES ASSUME WholeScans, Inv, WholeInv, [Next]_vars
               PROVE  WholeInv' /\ (TrackedOnly /\ TightInv => TightInv')
    OBVIOUS
  <1>1. CASE \E r \in Replicas, k \in Keys, h \in Hlcs :
                 \/ Insert(r, k, h)
                 \/ \E C \in ChangeSets : Update(r, k, C, h)
                 \/ Delete(r, k, h)
                 \/ Replace(r, k, h)
    BY <1>1, LocalWhole
  <1>2. ASSUME NEW r \in Replicas, NEW origin \in Origins, NEW after \in Cursors(r, origin),
               NEW t \in Tables, Publish(r, t, after, origin)
        PROVE  WholeInv' /\ (TightInv => TightInv')
    <2>1. origin = "any" /\ after = None
      BY DEF WholeScans, Cursors
    <2>2. WholeBatch(Scan(r, None, "any"))
      BY FullScanWhole DEF WholeInv
    <2>3. rows' = rows /\ wire' = wire \cup {OfTable(Scan(r, None, "any"), t)}
      BY <1>2, <2>1 DEF Publish
    <2>4. WholeBatch(OfTable(Scan(r, None, "any"), t))
      BY <2>2 DEF WholeBatch, OfTable
    <2> QED
      BY <2>3, <2>4 DEF WholeInv, TightInv
  <1>3. CASE \E b \in wire : Lose(b)
    BY <1>3 DEF Lose, WholeInv, TightInv
  <1>4. ASSUME NEW r \in Replicas, NEW s \in wire, NEW d \in wire, NEW hi \in PageEnds(Join(s, d)),
               Deliver(r, Page(Join(s, d), hi))
        PROVE  WholeInv' /\ (TightInv => TightInv')
    <2> DEFINE b == Join(s, d)
    <2>a. s \in Batch /\ d \in Batch /\ WholeBatch(s) /\ rows \in [Replicas -> [Keys -> Row]]
      BY DEF Inv, TypeOK, WholeInv
    <2>b. b.cells = s.cells
      BY DEF Join
    <2>1. b \in Batch /\ WholeBatch(b) /\ rows \in [Replicas -> [Keys -> Row]]
      BY <2>a, <2>b, JoinIsBatch DEF WholeBatch
    <2> HIDE DEF b
    <2>2. Deliver(r, b)
      BY <1>4, <2>1, PageIsAll DEF b
    <2>3. /\ wire' = wire /\ \A q \in Replicas \ {r} : rows'[q] = rows[q]
          /\ \A k \in Keys : rows'[r][k] = Propagate(ApplyRow(r, k, b), k, b)
      BY <2>1, <2>2 DEF Deliver
    <2>4. Whole(Absent) /\ Tight(Absent)
      BY DEF Whole, Tight, Absent, Live
    <2>5. ASSUME NEW k \in Keys
          PROVE  Whole(rows'[r][k]) /\ (Tight(rows[r][k]) => Tight(rows'[r][k]))
      <3>1. Whole(rows[r][k])
        BY DEF WholeInv
      <3>2. Whole(ApplyRow(r, k, b)) /\ (Tight(rows[r][k]) => Tight(ApplyRow(r, k, b)))
        BY <2>1, <3>1, DeliverWhole DEF ApplyRow
      <3>3. rows'[r][k] \in {Absent, ApplyRow(r, k, b)}
        BY <2>3 DEF Propagate
      <3> QED
        BY <2>4, <3>2, <3>3
    <2> QED
      BY <2>3, <2>5 DEF WholeInv, TightInv
  <1>5. CASE UNCHANGED vars
    BY <1>5 DEF vars, WholeInv, TightInv
  <1> QED
    BY <1>1, <1>2, <1>3, <1>4, <1>5 DEF Next

LEMMA InitWhole == Init => WholeInv /\ TightInv
  BY DEF Init, WholeInv, TightInv, Whole, Tight, Absent, Live

\* "HLC equals one source transaction" as paginate_changes assumes it: when every
\* peer scans its whole table, whatever is on the wire was written by the
\* transaction whose HLC it bears.
THEOREM ShipsWhatWasWritten ==
    ASSUME WholeScans
    PROVE  Spec => []ShippedAsWritten
  <1>1. Inv /\ WholeInv /\ [Next]_vars => WholeInv'
    BY StepWhole
  <1>2. Init => WholeInv
    BY InitWhole
  <1>3. WholeInv => ShippedAsWritten
    BY DEF WholeInv, WholeBatch, ShippedAsWritten
  <1> QED
    BY <1>1, <1>2, <1>3, Invariance, PTL DEF Spec

\* A live row that knows its own scan is newer than every logged delete of its key.
LEMMA NewerThanDeletes ==
    ASSUME Inv, WholeInv, NEW p \in Replicas, Knows(p, p), NEW k \in Keys, Live(rows[p][k]),
           NEW d \in log[p], d.k = k
    PROVE  rows[p][k].hlc > d.h
  <1> DEFINE b == Scan(p, None, "any")
             P == rows[p][k]
  <1>1. b.dels = log[p] /\ \A m \in b.cells : m.k = k => m.h = P.at[m.c] /\ m.c \in Cols
    BY FullScan DEF WholeInv
  <1>2. Propagate(ApplyRow(p, k, b), k, b) = P
    BY DEF Knows
  <1> HIDE DEF b
  <1>3. Staged(P, k, b) = {}
    <2> SUFFICES ASSUME NEW m \in b.cells, m.k = k, m.h > P.at[m.c] PROVE FALSE
      BY DEF Staged
    <2>1. m.h = P.at[m.c] /\ m.c \in Cols
      BY <1>1
    <2>2. P.at[m.c] \in Hlcs
      BY <2>1 DEF WholeInv, Whole
    <2>3. P.at[m.c] \in Nat
      BY <2>2, HlcsAreNat
    <2> QED
      BY <2>1, <2>3
  <1>4. ApplyRow(p, k, b) = P
    BY <1>3 DEF ApplyRow, Writes
  <1>5. P # Absent
    BY DEF Live, Absent
  <1>6. ~\E x \in b.dels : x.k = k /\ ShouldPropagate(P, x)
    BY <1>2, <1>4, <1>5 DEF Propagate
  <1> QED
    BY <1>1, <1>6 DEF ShouldPropagate

\* What r knows of a live row of p, column by column.
LEMMA KnowsColumns ==
    ASSUME Inv, WholeInv, NEW r \in Replicas, NEW p \in Replicas, Knows(r, p), NEW k \in Keys,
           Live(rows[r][k]), Live(rows[p][k]), NEW c \in Cols
    PROVE  rows[p][k].at[c] <= rows[r][k].at[c]
  <1> DEFINE b == Scan(p, None, "any")
             R == rows[r][k]
             P == rows[p][k]
             S == Staged(R, k, b)
             w == [k |-> k, c |-> c, h |-> P.at[c], v |-> P.at[c]]
  <1>1. w \in b.cells
    BY FullScan DEF WholeInv
  <1>2. Propagate(ApplyRow(r, k, b), k, b) = R
    BY DEF Knows
  <1>3. R # Absent
    BY DEF Live, Absent
  <1>4. ApplyRow(r, k, b) = R
    BY <1>2, <1>3 DEF Propagate
  <1>5. WholeBatch(b)
    BY FullScanWhole DEF WholeInv
  <1>6. P.at[c] \in Nat /\ R.at[c] \in Nat
    BY HlcsAreNat DEF WholeInv, Whole
  <1> SUFFICES ASSUME ~(P.at[c] <= R.at[c]) PROVE FALSE
    OBVIOUS
  <1>7. P.at[c] > R.at[c]
    BY <1>6
  <1>8. w \in S
    BY <1>1, <1>7 DEF Staged
  <1>9. R = Merge(R, S)
    BY <1>4, <1>8 DEF ApplyRow, Writes
  <1>10. \A m, n \in S : m.c = n.c => m = n
    BY <1>5 DEF WholeBatch, Staged
  <1>11. Merge(R, S).at[c] = P.at[c]
    BY <1>8, <1>10, MergeCols
  <1> QED
    BY <1>6, <1>7, <1>9, <1>11

\* A live row that p holds and r does not: r would have taken it.
LEMMA KnowsLive ==
    ASSUME Inv, WholeInv, TightInv, TrackedOnly, NEW r \in Replicas, NEW p \in Replicas,
           Knows(r, p), Knows(p, p), log[r] = log[p], NEW k \in Keys, Live(rows[p][k])
    PROVE  Live(rows[r][k])
  <1> SUFFICES ASSUME ~Live(rows[r][k]) PROVE FALSE
    OBVIOUS
  <1> DEFINE b == Scan(p, None, "any")
             P == rows[p][k]
             S == Staged(Absent, k, b)
  <1>1. rows[r][k] = Absent
    BY DEF Inv, TypeOK
  <1>2. b.dels = log[p]
    BY FullScan DEF WholeInv
  <1>3. \A m : m \in b.cells /\ m.k = k <=>
            \E c \in Cols : m = [k |-> k, c |-> c, h |-> P.at[c], v |-> P.at[c]]
    BY FullScan DEF WholeInv
  <1>4. \A c \in Cols : P.at[c] \in Hlcs /\ P.at[c] \in Nat /\ P.at[c] > None
    <2>1. \A c \in Cols : P.at[c] \in Hlcs
      BY DEF WholeInv, Whole
    <2>2. \A c \in Cols : P.at[c] \in Nat /\ P.at[c] # None
      BY <2>1, HlcsAreNat
    <2> QED
      BY <2>1, <2>2 DEF None
  <1> HIDE DEF b
  <1>5. \A m : m \in S <=> \E c \in Cols : m = [k |-> k, c |-> c, h |-> P.at[c], v |-> P.at[c]]
    BY <1>3, <1>4 DEF Staged, Absent
  <1> HIDE DEF S
  <1>6. S # {} /\ HlcsOf(S) \subseteq Hlcs /\ \A h : h \in HlcsOf(S) <=> \E c \in Cols : h = P.at[c]
    <2>1. \A h : h \in HlcsOf(S) <=> \E m \in S : h = m.h
      BY DEF HlcsOf
    <2>a. \A m \in S : \E c \in Cols : m.h = P.at[c]
      BY <1>5
    <2>b. ASSUME NEW c \in Cols PROVE \E m \in S : m.h = P.at[c]
      <3> DEFINE w == [k |-> k, c |-> c, h |-> P.at[c], v |-> P.at[c]]
      <3>1. w \in S
        BY <1>5
      <3> QED
        BY <3>1
    <2>2. \A h : h \in HlcsOf(S) <=> \E c \in Cols : h = P.at[c]
      BY <2>1, <2>a, <2>b
    <2>3. S # {}
      BY <1>5 DEF TrackedOnly
    <2> QED
      BY <1>4, <2>2, <2>3
  <1>7. P.hlc \in HlcsOf(S) /\ \A g \in HlcsOf(S) : g <= P.hlc
    BY <1>6 DEF TightInv, Tight, Inv, RowDominates
  <1>8. Newest(HlcsOf(S)) = P.hlc
    <2>1. Newest(HlcsOf(S)) \in HlcsOf(S) /\ \A g \in HlcsOf(S) : g <= Newest(HlcsOf(S))
      BY <1>6, <1>7, NewestIsGreatest, HlcsAreNat
    <2>2. Newest(HlcsOf(S)) \in Nat /\ P.hlc \in Nat
      BY <1>6, <1>7, <2>1, HlcsAreNat
    <2> QED
      BY <1>7, <2>1, <2>2
  <1>9. P.hlc \in Nat /\ P.hlc # None
    BY <1>6, <1>7, HlcsAreNat
  <1>10. \A d \in log[p] : d.k = k => P.hlc > d.h /\ d.h \in Nat
    <2>1. \A d \in log[p] : d.h \in Hlcs
      BY DEF Inv, TypeOK, Tombstone
    <2>2. \A d \in log[p] : d.h \in Nat
      BY <2>1, HlcsAreNat
    <2> QED
      BY <2>2, NewerThanDeletes
  <1>11. ~Shadowed(r, k, P.hlc)
    BY <1>9, <1>10 DEF Shadowed
  <1>12. Writes(r, k, b)
    BY <1>1, <1>6, <1>8, <1>11 DEF Writes, S
  <1>13. ApplyRow(r, k, b) = Merge(Absent, S)
    BY <1>1, <1>12 DEF ApplyRow, S
  <1>14. Merge(Absent, S).hlc = P.hlc
    BY <1>8, <1>9 DEF Merge, RowHlcAfter, Later, Absent, None
  <1>15. ~\E d \in b.dels : d.k = k /\ ShouldPropagate(Merge(Absent, S), d)
    BY <1>2, <1>10, <1>14 DEF ShouldPropagate
  <1>16. Propagate(ApplyRow(r, k, b), k, b) = Merge(Absent, S)
    BY <1>13, <1>15 DEF Propagate
  <1>17. Merge(Absent, S) = Absent
    BY <1>1, <1>16 DEF Knows, b
  <1> QED
    BY <1>9, <1>14, <1>17 DEF Absent

\* The newest column of a tight row decides its row HLC.
LEMMA SameColumnsSameRow ==
    ASSUME NEW R \in Row, NEW P \in Row, Live(R), Live(P), Whole(R), Whole(P), Tight(R), Tight(P),
           \A c \in Cols : R.at[c] <= R.hlc /\ P.at[c] <= P.hlc,
           \A c \in Cols : R.at[c] = P.at[c]
    PROVE  R = P
  <1>1. R.hlc \in Hlcs /\ P.hlc \in Hlcs
    BY DEF Row, Live
  <1>2. R.hlc \in Nat /\ P.hlc \in Nat
    BY <1>1, HlcsAreNat
  <1>3. R.hlc <= P.hlc /\ P.hlc <= R.hlc
    BY DEF Tight
  <1>4. R.hlc = P.hlc
    BY <1>2, <1>3
  <1>5. R.at = P.at
    BY DEF Row
  <1>6. \A c \in Cols : R.val[c] = P.val[c]
    BY DEF Whole
  <1>7. R.val = P.val
    BY <1>6 DEF Row
  <1>8. /\ R = [hlc |-> R.hlc, at |-> R.at, val |-> R.val]
        /\ P = [hlc |-> P.hlc, at |-> P.at, val |-> P.val]
    BY DEF Row
  <1> QED
    BY <1>4, <1>5, <1>7, <1>8

LEMMA WholeAgrees ==
    ASSUME Inv, WholeInv, TightInv, TrackedOnly PROVE Agreement
  <1> SUFFICES ASSUME \A r, p \in Replicas : Knows(r, p), NEW r \in Replicas, NEW p \in Replicas
               PROVE  rows[r] = rows[p] /\ log[r] = log[p]
    BY DEF Agreement
  <1>1. rows \in [Replicas -> [Keys -> Row]]
    BY DEF Inv, TypeOK
  <1>2. log[r] = log[p]
    <2>1. \A q \in Replicas : Scan(q, None, "any").dels = log[q]
      BY FullScan DEF WholeInv
    <2>2. log[r] \subseteq log[p] /\ log[p] \subseteq log[r]
      BY <2>1 DEF Knows
    <2> QED
      BY <2>2
  <1>3. ASSUME NEW k \in Keys PROVE rows[r][k] = rows[p][k]
    <2>1. Live(rows[r][k]) <=> Live(rows[p][k])
      BY <1>2, KnowsLive
    <2>2. CASE ~Live(rows[r][k])
      BY <2>1, <2>2 DEF Inv, TypeOK
    <2>3. CASE Live(rows[r][k])
      <3>1. \A c \in Cols : rows[p][k].at[c] <= rows[r][k].at[c] /\ rows[r][k].at[c] <= rows[p][k].at[c]
        BY <2>1, <2>3, KnowsColumns
      <3>2. \A c \in Cols : rows[p][k].at[c] \in Nat /\ rows[r][k].at[c] \in Nat
        BY <2>1, <2>3, HlcsAreNat DEF WholeInv, Whole
      <3>3. \A c \in Cols : rows[r][k].at[c] = rows[p][k].at[c]
        BY <3>1, <3>2
      <3>4. rows[r][k] \in Row /\ rows[p][k] \in Row
        BY <1>1
      <3>5. /\ Whole(rows[r][k]) /\ Whole(rows[p][k]) /\ Tight(rows[r][k]) /\ Tight(rows[p][k])
            /\ \A c \in Cols : rows[r][k].at[c] <= rows[r][k].hlc /\ rows[p][k].at[c] <= rows[p][k].hlc
        BY DEF WholeInv, TightInv, Inv, RowDominates
      <3> QED
        BY <2>1, <2>3, <3>3, <3>4, <3>5, SameColumnsSameRow
    <2> QED
      BY <2>2, <2>3
  <1> QED
    BY <1>1, <1>2, <1>3

\* Replicas with nothing left to tell each other are equal, for any number of
\* replicas, keys and columns, however their batches were lost, repeated and
\* reordered: when every peer scans whole tables and every UPDATE changes a tracked
\* column.
THEOREM ReplicasAgree ==
    ASSUME WholeScans, TrackedOnly
    PROVE  Spec => []Agreement
  <1> DEFINE All == Inv /\ WholeInv /\ TightInv
  <1>1. Init => All
    BY InitInv, InitWhole
  <1>2. All /\ [Next]_vars => All'
    BY StepInv, StepWhole
  <1>3. All => Agreement
    BY WholeAgrees
  <1> QED
    BY <1>1, <1>2, <1>3, PTL DEF Spec
=============================================================================
