---------------------------- MODULE Apply_proofs ----------------------------
(***************************************************************************)
(* Proofs about Apply for any rows, columns, batches and policies, and any *)
(* number of calls that commit, fail or die: what is accounted for, what   *)
(* is restored, that no row outlives its delete, and that the loop over    *)
(* row groups and columns, with its savepoints, shadow map and fan-out,    *)
(* implements Merge.                                                       *)
(***************************************************************************)
EXTENDS Apply, WellFoundedInduction, TLAPS

\* Changes that are neither applied nor skipped yet.
Undecided == todo \cup pending \cup staged

\* A group is under way only in phase "stage"; its winners belong to its row and
\* have passed preflight.
GroupInv ==
    /\ phase # "stage" => pending = {} /\ staged = {}
    /\ phase = "propagated" => todo = {}
    /\ phase = "stage" => \A i \in todo : batch[i].row # row
    /\ phase = "idle" => /\ batch = <<>> /\ skipped = {} /\ applied = {}
    /\ todo \cap (pending \cup staged) = {} /\ pending \cap staged = {}
    /\ Preflight(batch)
    /\ \A i \in pending \cup staged : batch[i].row = row /\ batch[i].col \in Cols
    /\ \A i \in staged : batch[i].full

\* Undecided changes have no outcome, all others exactly one.
Unskipped(i) == \A x \in Reasons : <<i, x>> \notin skipped
SkippedOnce(i) == \E x \in Reasons : \A y \in Reasons : <<i, y>> \in skipped <=> y = x
AccountInv ==
    \A i \in DOMAIN batch :
        IF i \in Undecided THEN i \notin applied /\ Unskipped(i)
        ELSE IF i \in applied THEN Unskipped(i) ELSE SkippedOnce(i)

\* While rows are written, the log changes by the batch only, and no row is older
\* than the log was; after the propagation none is older than the log is.
NewerThan(rows, log) ==
    \A e \in Entries :
        Live(log[e]) /\ Live(rows[Target[e]]) => rows[Target[e]].hlc >= log[e].hlc
DeleteInv ==
    /\ NoZombie
    /\ phase \in {"rows", "stage"} =>
        /\ \A e \in Entries : work[e] = disk[e] \/ \E i \in applied : batch[i].row = e
        /\ NewerThan(work, disk)
    /\ phase = "propagated" => NewerThan(work, work)

\* A row is read as it was before the batch. A change that lost to another one of
\* the batch has a winner, which no later turn can take away without replacing it.
Beats(j, i) ==
    /\ batch[j].row = batch[i].row /\ batch[j].col = batch[i].col
    /\ batch[j].h >= batch[i].h
    /\ <<j, "stale">> \notin skipped /\ <<j, "superseded">> \notin skipped
InCall == phase \in {"rows", "stage", "propagated"}
ReasonInv ==
    /\ pending \cup staged \subseteq accepted /\ accepted \cap todo = {}
    /\ phase \in {"rows", "stage"} =>
        \A i \in todo \cup pending : batch[i].row \in Rows =>
            work[batch[i].row] = disk[batch[i].row]
    /\ InCall => \A i \in DOMAIN batch : batch[i].full =>
        /\ <<i, "stale">> \in skipped => disk[batch[i].row].at[batch[i].col] >= batch[i].h
        /\ <<i, "superseded">> \in skipped => \E j \in accepted \ (pending \cup {i}) : Beats(j, i)

RestoreInv == gate = TRUE /\ (phase \in {"idle", "advance"} => fk = was)

Inv == TypeOK /\ GroupInv /\ AccountInv /\ DeleteInv /\ ReasonInv /\ RestoreInv

-----------------------------------------------------------------------------
(* HLCs                                                                    *)

LEMMA LeastOf ==
    ASSUME NEW T, T \subseteq Nat, T # {}
    PROVE  \E x \in T : \A y \in T : x <= y
  <1>1. \E x \in T : \A y \in T : ~(<<y, x>> \in OpToRel(<, Nat))
    BY NatLessThanWellFounded, WFMin
  <1>2. \A x \in T, y \in T : ~(<<y, x>> \in OpToRel(<, Nat)) => x <= y
    BY DEF OpToRel
  <1> QED
    BY <1>1, <1>2

\* A bounded set has a newest HLC.
LEMMA NewestOf ==
    ASSUME NEW n \in Nat, NEW S, S \subseteq 0..n, S # {}
    PROVE  Newest(S) \in S /\ \A g \in S : g <= Newest(S)
  <1> DEFINE Bounds == {x \in Nat : \A g \in S : g <= x}
  <1>1. n \in Bounds
    OBVIOUS
  <1>2. PICK m \in Bounds : \A x \in Bounds : m <= x
    BY <1>1, LeastOf
  <1>3. m \in S
    <2> SUFFICES ASSUME m \notin S PROVE FALSE
      OBVIOUS
    <2>1. PICK s \in S : TRUE
      OBVIOUS
    <2>2. s \in Nat /\ s < m
      BY <1>2, <2>1
    <2>3. \A g \in S : g <= m - 1
      BY <1>2
    <2>4. m - 1 \in Bounds
      BY <1>2, <2>2, <2>3
    <2> QED
      BY <1>2, <2>4
  <1> QED
    BY <1>2, <1>3 DEF Newest

LEMMA BatchType ==
    ASSUME TypeOK
    PROVE  DOMAIN batch \subseteq Nat /\ \A i \in DOMAIN batch : batch[i] \in Change
  BY BatchConstants DEF TypeOK

\* The next change of a group exists, and is the oldest.
LEMMA FirstOf ==
    ASSUME TypeOK, NEW I, I \subseteq DOMAIN batch, I # {}
    PROVE  /\ First(I) \in I
           /\ \A j \in I : batch[First(I)].h < batch[j].h
                          \/ (batch[First(I)].h = batch[j].h /\ First(I) <= j)
  <1>1. I \subseteq Nat /\ \A i \in I : batch[i].h \in Nat
    BY BatchType DEF Change
  <1> DEFINE H == {batch[i].h : i \in I}
  <1>2. H \subseteq Nat /\ H # {}
    BY <1>1
  <1>3. PICK h \in H : \A g \in H : h <= g
    BY <1>2, LeastOf
  <1> DEFINE J == {i \in I : batch[i].h = h}
  <1>4. J \subseteq Nat /\ J # {}
    BY <1>1, <1>3
  <1>5. PICK i \in J : \A j \in J : i <= j
    BY <1>4, LeastOf
  <1>6. \A j \in I : batch[i].h < batch[j].h \/ (batch[i].h = batch[j].h /\ i <= j)
    <2> TAKE j \in I
    <2>1. batch[j].h \in H /\ batch[i].h = h
      BY <1>5
    <2>2. h <= batch[j].h
      BY <1>3, <2>1
    <2>3. CASE batch[j].h = h
      BY <1>5, <2>1, <2>3
    <2>4. CASE batch[j].h # h
      BY <1>1, <1>5, <2>1, <2>2, <2>4
    <2> QED
      BY <2>3, <2>4
  <1> QED
    BY <1>5, <1>6 DEF First

\* A turn of select_staged_columns: the next change loses, or takes the place of
\* the winners of its column.
Rivals == {s \in staged : batch[s].col = batch[First(pending)].col}
LEMMA StageCases ==
    ASSUME TypeOK, StageColumn
    PROVE  /\ First(pending) \in pending
           /\ pending' = pending \ {First(pending)}
           /\ \/ /\ \E x \in {"stale", "superseded"} :
                        skipped' = skipped \cup Skip({First(pending)}, x)
                 /\ staged' = staged
              \/ /\ skipped' = skipped \cup Skip(Rivals, "superseded")
                 /\ staged' = (staged \ Rivals) \cup {First(pending)}
                 /\ batch[First(pending)].full
  <1>1. First(pending) \in pending
    BY FirstOf DEF StageColumn, TypeOK
  <1>2. \/ \E x \in {"stale", "superseded"} :
               skipped' = skipped \cup Skip({First(pending)}, x) /\ staged' = staged
        \/ /\ skipped' = skipped \cup Skip(Rivals, "superseded")
           /\ staged' = (staged \ Rivals) \cup {First(pending)}
           /\ batch[First(pending)].full
    <2> DEFINE i == First(pending)
               running == IF Rivals = {} THEN work[row].at[batch[i].col]
                          ELSE Newest(HlcsOf(batch, Rivals))
    <2>1. CASE ~batch[i].full \/ ~(batch[i].h > running)
      BY <2>1 DEF StageColumn, Rivals
    <2>2. CASE ~(~batch[i].full \/ ~(batch[i].h > running))
      BY <2>2 DEF StageColumn, Rivals
    <2> QED
      BY <2>1, <2>2
  <1>3. pending' = pending \ {First(pending)}
    BY DEF StageColumn
  <1> QED
    BY <1>1, <1>2, <1>3

\* max_hlc of the selected columns.
LEMMA MaxHlcType ==
    ASSUME TypeOK, GroupInv, staged # {}
    PROVE  MaxHlc \in Nat \ {0}
  <1>1. \A i \in staged : batch[i].h \in Nat \ {0} /\ batch[i].h <= Limit
    BY BatchType DEF TypeOK, GroupInv, Preflight, Change
  <1>2. HlcsOf(batch, staged) \subseteq 0..Limit /\ HlcsOf(batch, staged) # {}
    BY <1>1, BatchConstants DEF HlcsOf
  <1>3. Newest(HlcsOf(batch, staged)) \in HlcsOf(batch, staged)
    BY <1>2, NewestOf, BatchConstants
  <1> QED
    BY <1>1, <1>3 DEF MaxHlc, HlcsOf

LEMMA WrittenRowType ==
    ASSUME TypeOK, GroupInv, phase = "stage", staged # {}
    PROVE  /\ WrittenRow \in Row
           /\ WrittenRow.hlc = Later(work[row].hlc, MaxHlc)
  <1>1. MaxHlc \in Nat
    BY MaxHlcType
  <1>2. work[row] \in Row
    BY DEF TypeOK
  <1>3. \A c \in Cols : {s \in staged : batch[s].col = c} # {} =>
            batch[CHOOSE s \in staged : batch[s].col = c] \in Change
    <2> TAKE c \in Cols
    <2> HAVE {s \in staged : batch[s].col = c} # {}
    <2>1. (CHOOSE s \in staged : batch[s].col = c) \in staged
      OBVIOUS
    <2> QED
      BY <2>1, BatchType DEF TypeOK
  <1>4. \A m \in Change, x \in Nat : m.h \in Nat /\ SigAfter(m, x) \in Nat
    BY DEF SigAfter, Change, None
  <1>5. Later(work[row].hlc, MaxHlc) \in Nat
    BY <1>1, <1>2 DEF Later, Row
  <1> DEFINE Won(c) == {s \in staged : batch[s].col = c}
             By(c) == batch[CHOOSE s \in staged : batch[s].col = c]
             at == [c \in Cols |-> IF Won(c) = {} THEN work[row].at[c] ELSE By(c).h]
             sig == [c \in Cols |-> IF Won(c) = {} THEN work[row].sig[c]
                                    ELSE SigAfter(By(c), work[row].sig[c])]
  <1>6. work[row].at \in [Cols -> Nat] /\ work[row].sig \in [Cols -> Nat]
    BY <1>2 DEF Row
  <1>7. \A c \in Cols : Won(c) # {} => By(c) \in Change
    BY <1>3
  <1>8. WrittenRow = [hlc |-> Later(work[row].hlc, MaxHlc), at |-> at, sig |-> sig]
    BY DEF WrittenRow
  <1> HIDE DEF Won, By
  <1>9. at \in [Cols -> Nat]
    BY <1>4, <1>6, <1>7
  <1>10. sig \in [Cols -> Nat]
    BY <1>4, <1>6, <1>7
  <1> HIDE DEF at, sig
  <1> QED
    BY <1>5, <1>8, <1>9, <1>10 DEF Row

-----------------------------------------------------------------------------
(* Types                                                                   *)

LEMMA AbsentType == Absent \in Row
  BY DEF Absent, Row, None

LEMMA InitType == Init => TypeOK
  BY AbsentType DEF Init, TypeOK, Phases, None

LEMMA EndType ==
    ASSUME TypeOK, Cleared, phase' = "idle", disk' \in [Rows -> Row], work' \in [Rows -> Row],
           gate' \in BOOLEAN, fk' \in BOOLEAN, was' \in BOOLEAN, txGate' \in BOOLEAN
    PROVE  TypeOK'
  BY DEF TypeOK, Cleared, Phases, None

LEMMA StepType == TypeOK /\ GroupInv /\ Next => TypeOK'
  <1> SUFFICES ASSUME TypeOK, GroupInv, Next PROVE TypeOK'
    OBVIOUS
  <1>1. ASSUME NEW b \in Batches, Begin(b) PROVE TypeOK'
    <2>1. pending = {} /\ staged = {} /\ skipped = {} /\ applied = {} /\ accepted \subseteq {}
      BY <1>1 DEF Begin, GroupInv, TypeOK
    <2> QED
      BY <1>1, <2>1 DEF Begin, TypeOK, Phases, group, outcome, history
  <1>2. ASSUME NEW r \in Missing, SkipGroup(r) PROVE TypeOK'
    BY <1>2 DEF SkipGroup, TypeOK, connection, group, history, Skip, GroupOf, Reasons
  <1>3. ASSUME NEW r \in Rows, NEW D \in SUBSET GroupOf(r), PrepareRow(r, D) PROVE TypeOK'
    <2>1. GroupOf(r) \subseteq DOMAIN batch
      BY DEF GroupOf, TypeOK
    <2>2. \A I \in SUBSET DOMAIN batch, x \in Reasons : Skip(I, x) \subseteq (DOMAIN batch) \X Reasons
      BY DEF Skip
    <2>3. skipped' \subseteq (DOMAIN batch) \X Reasons
      BY <1>3, <2>1, <2>2 DEF PrepareRow, TypeOK, Reasons
    <2> QED
      BY <1>3, <2>1, <2>3 DEF PrepareRow, TypeOK, connection, Phases
  <1>4. CASE StageColumn
    <2>1. First(pending) \in DOMAIN batch /\ Rivals \subseteq DOMAIN batch
      BY <1>4, StageCases DEF TypeOK, Rivals
    <2>2. \A I \in SUBSET DOMAIN batch, x \in Reasons : Skip(I, x) \subseteq (DOMAIN batch) \X Reasons
      BY DEF Skip
    <2>3. "stale" \in Reasons /\ "superseded" \in Reasons
      BY DEF Reasons
    <2>4. skipped' \subseteq (DOMAIN batch) \X Reasons
      BY <1>4, <2>1, <2>2, <2>3, StageCases DEF TypeOK
    <2>5. staged' \subseteq DOMAIN batch /\ pending' \subseteq DOMAIN batch
      BY <1>4, <2>1, StageCases DEF TypeOK
    <2> QED
      BY <1>4, <2>4, <2>5 DEF StageColumn, TypeOK, connection, history
  <1>5. CASE WriteNothing \/ InsertConstraint
    <2>1. \A x \in Reasons : Skip(staged, x) \subseteq (DOMAIN batch) \X Reasons
      BY DEF Skip, TypeOK
    <2>2. skipped' \subseteq (DOMAIN batch) \X Reasons
      BY <1>5, <2>1 DEF WriteNothing, InsertConstraint, TypeOK, Reasons
    <2> QED
      BY <1>5, <2>2 DEF WriteNothing, InsertConstraint, Selected, TypeOK, connection, history, Phases
  <1>6. CASE WriteRow
    <2>1. WrittenRow \in Row /\ MaxHlc \in Nat
      BY <1>6, WrittenRowType, MaxHlcType DEF WriteRow, Selected
    <2>2. work' \in [Rows -> Row]
      BY <1>6, <2>1 DEF WriteRow, TypeOK
    <2>3. top' \in Nat
      BY <1>6, <2>1 DEF WriteRow, Later, TypeOK
    <2> QED
      BY <1>6, <2>2, <2>3 DEF WriteRow, TypeOK, connection, history, Phases
  <1>7. CASE PropagateDeletes
    BY <1>7, AbsentType DEF PropagateDeletes, TypeOK, connection, group, outcome, history, Phases
  <1>8. CASE Commit
    <2>1. CASE top = None
      BY <1>8, <2>1, EndType DEF Commit, TypeOK
    <2>2. CASE top # None
      BY <1>8, <2>2 DEF Commit, TypeOK, group, outcome, history, Phases
    <2> QED
      BY <2>1, <2>2
  <1>9. CASE Advance \/ Abort \/ Crash
    BY <1>9, EndType DEF Advance, Abort, Crash, TypeOK, connection
  <1> QED
    BY <1>1, <1>2, <1>3, <1>4, <1>5, <1>6, <1>7, <1>8, <1>9 DEF Next

-----------------------------------------------------------------------------
(* Groups                                                                  *)

LEMMA InitGroup == Init => GroupInv
  BY DEF Init, GroupInv, Preflight

LEMMA StepGroup == TypeOK /\ GroupInv /\ Next => GroupInv'
  <1> SUFFICES ASSUME TypeOK, GroupInv, Next PROVE GroupInv'
    OBVIOUS
  <1>1. ASSUME NEW b \in Batches, Begin(b) PROVE GroupInv'
    BY <1>1 DEF Begin, GroupInv, Preflight, group, outcome
  <1>2. ASSUME NEW r \in Missing, SkipGroup(r) PROVE GroupInv'
    BY <1>2 DEF SkipGroup, GroupInv, Preflight, group
  <1>3. ASSUME NEW r \in Rows, NEW D \in SUBSET GroupOf(r), PrepareRow(r, D) PROVE GroupInv'
    BY <1>3 DEF PrepareRow, GroupInv, Preflight, GroupOf
  <1>4. CASE StageColumn
    <2>1. phase = "stage" /\ UNCHANGED <<phase, batch, todo, row>>
      BY <1>4 DEF StageColumn
    <2> QED
      BY <1>4, <2>1, StageCases DEF GroupInv, Preflight
  <1>5. CASE WriteNothing \/ InsertConstraint \/ WriteRow
    BY <1>5 DEF WriteNothing, InsertConstraint, WriteRow, Selected, GroupInv, Preflight
  <1>6. CASE PropagateDeletes
    BY <1>6 DEF PropagateDeletes, GroupInv, Preflight, group, outcome
  <1>7. CASE Commit
    <2>1. CASE top = None
      BY <1>7, <2>1 DEF Commit, Cleared, GroupInv, Preflight
    <2>2. CASE top # None
      BY <1>7, <2>2 DEF Commit, GroupInv, Preflight, group, outcome
    <2> QED
      BY <2>1, <2>2
  <1>8. CASE Advance \/ Abort \/ Crash
    BY <1>8 DEF Advance, Abort, Crash, Cleared, GroupInv, Preflight
  <1> QED
    BY <1>1, <1>2, <1>3, <1>4, <1>5, <1>6, <1>7, <1>8 DEF Next

-----------------------------------------------------------------------------
(* Accounting                                                              *)

LEMMA InitAccount == Init => AccountInv
  BY DEF Init, AccountInv

\* Undecided changes are skipped, each for one reason.
LEMMA SkipAccounts ==
    ASSUME AccountInv, NEW I, NEW J, NEW x \in Reasons, NEW y \in Reasons,
           I \cup J \subseteq Undecided, I \cap J = {},
           Undecided' = Undecided \ (I \cup J),
           skipped' = skipped \cup Skip(I, x) \cup Skip(J, y),
           batch' = batch, applied' = applied
    PROVE  AccountInv'
  <1> SUFFICES ASSUME NEW i \in DOMAIN batch
               PROVE  IF i \in Undecided' THEN i \notin applied /\ Unskipped(i)'
                      ELSE IF i \in applied THEN Unskipped(i)' ELSE SkippedOnce(i)'
    BY DEF AccountInv
  <1>0. \A z : /\ <<i, z>> \in Skip(I, x) <=> i \in I /\ z = x
               /\ <<i, z>> \in Skip(J, y) <=> i \in J /\ z = y
    BY DEF Skip
  <1>1. \A z \in Reasons : <<i, z>> \in skipped' <=>
            (<<i, z>> \in skipped) \/ (i \in I /\ z = x) \/ (i \in J /\ z = y)
    BY <1>0
  <1>2. CASE i \in I
    <2>1. Unskipped(i) /\ i \notin applied
      BY <1>2 DEF AccountInv
    <2>2. SkippedOnce(i)'
      BY <1>1, <1>2, <2>1 DEF SkippedOnce, Unskipped
    <2> QED
      BY <1>2, <2>1, <2>2
  <1>3. CASE i \in J
    <2>1. Unskipped(i) /\ i \notin applied
      BY <1>3 DEF AccountInv
    <2>2. SkippedOnce(i)'
      BY <1>1, <1>3, <2>1 DEF SkippedOnce, Unskipped
    <2> QED
      BY <1>3, <2>1, <2>2
  <1>4. CASE i \notin I \cup J
    <2>1. (Unskipped(i) => Unskipped(i)') /\ (SkippedOnce(i) => SkippedOnce(i)')
      BY <1>1, <1>4 DEF SkippedOnce, Unskipped
    <2> QED
      BY <1>4, <2>1 DEF AccountInv
  <1> QED
    BY <1>2, <1>3, <1>4

LEMMA SameAccount ==
    ASSUME AccountInv, Undecided' = Undecided, UNCHANGED <<batch, skipped, applied>>
    PROVE  AccountInv'
  BY DEF AccountInv, Unskipped, SkippedOnce

LEMMA StepAccount == TypeOK /\ GroupInv /\ AccountInv /\ Next => AccountInv'
  <1> SUFFICES ASSUME TypeOK, GroupInv, AccountInv, Next PROVE AccountInv'
    OBVIOUS
  <1>1. ASSUME NEW b \in Batches, Begin(b) PROVE AccountInv'
    <2>1. skipped' = {} /\ applied' = {} /\ todo' = DOMAIN batch'
      BY <1>1 DEF Begin, GroupInv, outcome
    <2> QED
      BY <2>1 DEF AccountInv, Unskipped, Undecided
  <1>2. ASSUME NEW r \in Missing, SkipGroup(r) PROVE AccountInv'
    <2>1. GroupOf(r) \subseteq todo
      BY DEF GroupOf
    <2>2. pending = {} /\ staged = {} /\ UNCHANGED <<pending, staged, batch, applied>>
      BY <1>2 DEF SkipGroup, GroupInv, group
    <2>3. todo' = todo \ GroupOf(r)
      BY <1>2 DEF SkipGroup
    <2>4. skipped' = skipped \cup Skip(GroupOf(r), "structure") \cup Skip({}, "structure")
      BY <1>2 DEF SkipGroup, Skip
    <2>5. Undecided' = Undecided \ (GroupOf(r) \cup {})
      BY <2>1, <2>2, <2>3 DEF Undecided
    <2>6. GroupOf(r) \cup {} \subseteq Undecided /\ GroupOf(r) \cap {} = {}
      BY <2>1 DEF Undecided
    <2>7. "structure" \in Reasons
      BY DEF Reasons
    <2> QED
      BY <2>2, <2>4, <2>5, <2>6, <2>7, SkipAccounts
  <1>3. ASSUME NEW r \in Rows, NEW D \in SUBSET GroupOf(r), PrepareRow(r, D) PROVE AccountInv'
    <2> DEFINE eligible == {i \in GroupOf(r) : batch[i].col \in Cols}
               I == GroupOf(r) \ eligible
               J == eligible \ D
    <2>1. /\ todo' = todo \ GroupOf(r) /\ pending' = D /\ staged' = {}
          /\ D \subseteq eligible /\ UNCHANGED <<batch, applied>>
          /\ skipped' = skipped \cup Skip(I, "column") \cup Skip(J, "policy")
      BY <1>3 DEF PrepareRow
    <2>2. pending = {} /\ staged = {}
      BY <1>3 DEF PrepareRow, GroupInv
    <2>3. GroupOf(r) \subseteq todo
      BY DEF GroupOf
    <2>4. I \cup J \subseteq Undecided /\ I \cap J = {}
      BY <2>3 DEF Undecided
    <2>5. Undecided' = Undecided \ (I \cup J)
      BY <2>1, <2>2, <2>3 DEF Undecided
    <2>6. "column" \in Reasons /\ "policy" \in Reasons
      BY DEF Reasons
    <2> HIDE DEF I, J
    <2> QED
      BY <2>1, <2>4, <2>5, <2>6, SkipAccounts
  <1>4. CASE StageColumn
    <2> DEFINE i == First(pending)
    <2>1. i \in pending /\ pending' = pending \ {i}
      BY <1>4, StageCases
    <2>2. UNCHANGED <<batch, applied, todo>>
      BY <1>4 DEF StageColumn
    <2>3. "stale" \in Reasons /\ "superseded" \in Reasons
      BY DEF Reasons
    <2>4. Skip({}, "stale") = {}
      BY DEF Skip
    <2> HIDE DEF i
    <2>5. ASSUME NEW x \in {"stale", "superseded"},
                 skipped' = skipped \cup Skip({i}, x), staged' = staged
          PROVE  AccountInv'
      <3>1. /\ {i} \cup {} \subseteq Undecided /\ {i} \cap {} = {}
            /\ Undecided' = Undecided \ ({i} \cup {})
        BY <2>1, <2>2, <2>5 DEF Undecided, GroupInv
      <3>2. skipped' = skipped \cup Skip({i}, x) \cup Skip({}, "stale")
        BY <2>4, <2>5
      <3> QED
        BY <2>2, <2>3, <2>5, <3>1, <3>2, SkipAccounts
    <2>6. ASSUME skipped' = skipped \cup Skip(Rivals, "superseded"),
                 staged' = (staged \ Rivals) \cup {i}
          PROVE  AccountInv'
      <3>0. Rivals \subseteq staged
        BY DEF Rivals
      <3>1. /\ Rivals \cup {} \subseteq Undecided /\ Rivals \cap {} = {}
            /\ Undecided' = Undecided \ (Rivals \cup {})
        BY <2>1, <2>2, <2>6, <3>0 DEF Undecided, GroupInv
      <3>2. skipped' = skipped \cup Skip(Rivals, "superseded") \cup Skip({}, "stale")
        BY <2>4, <2>6
      <3> QED
        BY <2>2, <2>3, <3>1, <3>2, SkipAccounts
    <2> QED
      BY <1>4, <2>5, <2>6, StageCases DEF i
  <1>5. CASE WriteNothing \/ InsertConstraint
    <2>1. PICK x \in Reasons : skipped' = skipped \cup Skip(staged, x)
      BY <1>5 DEF WriteNothing, InsertConstraint, Reasons
    <2>2. pending = {} /\ staged' = {} /\ UNCHANGED <<batch, applied, todo, pending>>
      BY <1>5 DEF WriteNothing, InsertConstraint, Selected
    <2>3. /\ staged \cup {} \subseteq Undecided /\ staged \cap {} = {}
          /\ Undecided' = Undecided \ (staged \cup {})
      BY <2>2 DEF Undecided, GroupInv
    <2>4. skipped' = skipped \cup Skip(staged, x) \cup Skip({}, x)
      BY <2>1 DEF Skip
    <2> QED
      BY <2>2, <2>3, <2>4, SkipAccounts
  <1>6. CASE WriteRow
    <2>1. /\ pending = {} /\ staged' = {} /\ applied' = applied \cup staged
          /\ UNCHANGED <<batch, todo, pending, skipped>>
      BY <1>6 DEF WriteRow, Selected
    <2>2. Undecided' = Undecided \ staged /\ staged \subseteq Undecided
      BY <2>1 DEF Undecided, GroupInv
    <2> QED
      BY <2>1, <2>2 DEF AccountInv, Unskipped, SkippedOnce
  <1>7. CASE PropagateDeletes
    <2>1. Undecided' = Undecided /\ UNCHANGED <<batch, skipped, applied>>
      BY <1>7 DEF PropagateDeletes, Undecided, group, outcome
    <2> QED
      BY <2>1, SameAccount
  <1>8. CASE Commit
    <2>1. CASE top = None
      BY <1>8, <2>1 DEF Commit, Cleared, AccountInv
    <2>2. CASE top # None
      <3>1. Undecided' = Undecided /\ UNCHANGED <<batch, skipped, applied>>
        BY <1>8, <2>2 DEF Commit, Undecided, group, outcome
      <3> QED
        BY <3>1, SameAccount
    <2> QED
      BY <2>1, <2>2
  <1>9. CASE Advance \/ Abort \/ Crash
    BY <1>9 DEF Advance, Abort, Crash, Cleared, AccountInv
  <1> QED
    BY <1>1, <1>2, <1>3, <1>4, <1>5, <1>6, <1>7, <1>8, <1>9 DEF Next

-----------------------------------------------------------------------------
(* Deletes                                                                 *)

LEMMA InitDelete == Init => DeleteInv
  <1> SUFFICES ASSUME Init PROVE DeleteInv
    OBVIOUS
  <1>1. \A e \in Entries : ~Live(disk[e])
    BY DEF Init, Rows, Absent, Live, None
  <1> QED
    BY <1>1 DEF Init, DeleteInv, NoZombie

\* Entries and their targets are rows, and not the same ones.
LEMMA TargetsAreKeys ==
    \A e \in Entries : e \in Rows /\ Target[e] \in Rows /\ Target[e] \notin Entries
  BY BatchConstants DEF Rows

\* The row is written: it is newer than it was, or than every delete of it that
\* the log held before the batch.
LEMMA WriteKeepsNewer ==
    ASSUME TypeOK, GroupInv, DeleteInv, WriteRow
    PROVE  DeleteInv'
  <1>1. /\ phase = "stage" /\ phase' = "rows" /\ staged # {} /\ row \in Rows
        /\ work' = [work EXCEPT ![row] = WrittenRow] /\ applied' = applied \cup staged
        /\ UNCHANGED <<disk, batch>>
    BY DEF WriteRow, Selected, TypeOK
  <1>2. WrittenRow.hlc = Later(work[row].hlc, MaxHlc) /\ MaxHlc \in Nat
    BY <1>1, WrittenRowType, MaxHlcType
  <1>3. \A r \in Rows : work[r].hlc \in Nat /\ disk[r].hlc \in Nat
    BY DEF TypeOK, Row
  <1>4. \A e \in Entries : work'[e] = disk'[e] \/ \E i \in applied' : batch'[i].row = e
    <2> TAKE e \in Entries
    <2>1. CASE e = row
      <3>1. PICK i \in staged : TRUE
        BY <1>1
      <3>2. batch[i].row = e
        BY <2>1, <3>1 DEF GroupInv
      <3> QED
        BY <1>1, <3>1, <3>2
    <2>2. CASE e # row
      BY <1>1, <2>2, TargetsAreKeys DEF DeleteInv, TypeOK
    <2> QED
      BY <2>1, <2>2
  <1>5. NewerThan(work', disk')
    <2> SUFFICES ASSUME NEW e \in Entries, Live(disk[e]), Live(work'[Target[e]])
                 PROVE  work'[Target[e]].hlc >= disk[e].hlc
      BY <1>1 DEF NewerThan
    <2>1. e \in Rows /\ Target[e] \in Rows
      BY TargetsAreKeys
    <2>2. CASE Target[e] # row
      BY <1>1, <2>1, <2>2 DEF DeleteInv, NewerThan, TypeOK
    <2>3. CASE Target[e] = row /\ Live(work[row])
      <3>1. work[row].hlc >= disk[e].hlc
        BY <1>1, <2>3 DEF DeleteInv, NewerThan
      <3>2. work'[row].hlc >= work[row].hlc
        BY <1>1, <1>2, <1>3 DEF Later, TypeOK
      <3>3. work'[row].hlc \in Nat
        BY <1>1, <1>2, <1>3 DEF Later, TypeOK
      <3> QED
        BY <1>1, <1>3, <2>1, <2>3, <3>1, <3>2, <3>3
    <2>4. CASE Target[e] = row /\ ~Live(work[row])
      <3>1. ~(disk[e].hlc >= MaxHlc)
        BY <1>1, <2>4 DEF WriteRow, InsertShadowed
      <3>2. work'[row].hlc >= MaxHlc /\ work'[row].hlc \in Nat
        BY <1>1, <1>2, <1>3 DEF Later, TypeOK
      <3> QED
        BY <1>2, <1>3, <2>1, <2>4, <3>1, <3>2
    <2> QED
      BY <2>2, <2>3, <2>4
  <1> QED
    BY <1>1, <1>4, <1>5 DEF DeleteInv, NoZombie

\* An entry that the batch changed is among InboundDeletes.
LEMMA ChangedIsInbound ==
    ASSUME TypeOK, AccountInv, NEW e \in Entries, NEW i \in applied, batch[i].row = e
    PROVE  e \in InboundDeletes
  <1>1. i \in DOMAIN batch
    BY DEF TypeOK
  <1>2. Unskipped(i)
    BY <1>1 DEF AccountInv
  <1> QED
    BY <1>1, <1>2 DEF InboundDeletes, Unskipped

LEMMA PropagationSweeps ==
    ASSUME TypeOK, AccountInv, DeleteInv, PropagateDeletes
    PROVE  DeleteInv'
  <1>1. /\ phase = "rows" /\ phase' = "propagated" /\ UNCHANGED disk
        /\ work' = [r \in Rows |-> IF \E e \in InboundDeletes : Propagates(e, r)
                                   THEN Absent ELSE work[r]]
    BY DEF PropagateDeletes
  <1>2. \A r \in Rows : work[r].hlc \in Nat /\ disk[r].hlc \in Nat
    BY DEF TypeOK, Row
  <1>3. ~Live(Absent)
    BY DEF Live, Absent, None
  <1>4. NewerThan(work', work')
    <2> SUFFICES ASSUME NEW e \in Entries, Live(work'[e]), Live(work'[Target[e]])
                 PROVE  work'[Target[e]].hlc >= work'[e].hlc
      BY DEF NewerThan
    <2>1. e \in Rows /\ Target[e] \in Rows
      BY TargetsAreKeys
    <2>2. work'[e] = work[e] /\ work'[Target[e]] = work[Target[e]]
      BY <1>1, <1>3, <2>1
    <2>3. CASE work[e] = disk[e]
      BY <1>1, <2>2, <2>3 DEF DeleteInv, NewerThan
    <2>4. CASE work[e] # disk[e]
      <3>1. PICK i \in applied : batch[i].row = e
        BY <1>1, <2>4 DEF DeleteInv
      <3>2. e \in InboundDeletes
        BY <3>1, ChangedIsInbound
      <3>3. ~Propagates(e, Target[e])
        BY <1>1, <1>3, <2>1, <3>2
      <3>4. work[Target[e]].hlc > work[e].hlc
        BY <2>2, <3>3 DEF Propagates
      <3> QED
        BY <1>2, <2>1, <2>2, <3>4
    <2> QED
      BY <2>3, <2>4
  <1> QED
    BY <1>1, <1>4 DEF DeleteInv, NoZombie

LEMMA StepDelete == TypeOK /\ GroupInv /\ AccountInv /\ DeleteInv /\ Next => DeleteInv'
  <1> SUFFICES ASSUME TypeOK, GroupInv, AccountInv, DeleteInv, Next PROVE DeleteInv'
    OBVIOUS
  <1>1. ASSUME NEW b \in Batches, Begin(b) PROVE DeleteInv'
    BY <1>1 DEF Begin, DeleteInv, NoZombie, NewerThan
  <1>2. ASSUME NEW r \in Missing, SkipGroup(r) PROVE DeleteInv'
    BY <1>2 DEF SkipGroup, DeleteInv, NoZombie, NewerThan
  <1>3. ASSUME NEW r \in Rows, NEW D \in SUBSET GroupOf(r), PrepareRow(r, D) PROVE DeleteInv'
    BY <1>3 DEF PrepareRow, DeleteInv, NoZombie, NewerThan
  <1>4. CASE StageColumn
    BY <1>4 DEF StageColumn, DeleteInv, NoZombie, NewerThan
  <1>5. CASE WriteNothing \/ InsertConstraint
    BY <1>5 DEF WriteNothing, InsertConstraint, Selected, DeleteInv, NoZombie, NewerThan
  <1>6. CASE Commit
    <2>1. disk' = work /\ phase = "propagated" /\ phase' \in {"idle", "advance"}
      BY <1>6 DEF Commit
    <2> QED
      BY <2>1 DEF DeleteInv, NoZombie, NewerThan
  <1>7. CASE Advance \/ Abort \/ Crash
    BY <1>7 DEF Advance, Abort, Crash, DeleteInv, NoZombie
  <1> QED
    BY <1>1, <1>2, <1>3, <1>4, <1>5, <1>6, <1>7, WriteKeepsNewer, PropagationSweeps DEF Next

-----------------------------------------------------------------------------
(* Skip reasons                                                            *)

LEMMA InitReason == Init => ReasonInv
  BY DEF Init, ReasonInv, InCall

\* Nothing is skipped as stale or superseded, and nothing else moves.
LEMMA SameReasons ==
    ASSUME ReasonInv, InCall, UNCHANGED <<disk, batch>>,
           pending' \cup staged' \subseteq accepted', accepted' \cap todo' = {},
           accepted \subseteq accepted', pending' \cap accepted \subseteq pending,
           phase' \in {"rows", "stage"} =>
               \A i \in todo' \cup pending' : batch[i].row \in Rows =>
                   work'[batch[i].row] = disk[batch[i].row],
           \A i : /\ <<i, "stale">> \in skipped' <=> <<i, "stale">> \in skipped
                  /\ <<i, "superseded">> \in skipped' <=> <<i, "superseded">> \in skipped
    PROVE  ReasonInv'
  <1>1. \A i, j : Beats(j, i) => Beats(j, i)'
    BY DEF Beats
  <1>2. ASSUME NEW i \in DOMAIN batch, batch[i].full
        PROVE  /\ <<i, "stale">> \in skipped' =>
                      disk[batch[i].row].at[batch[i].col] >= batch[i].h
               /\ <<i, "superseded">> \in skipped' =>
                      \E j \in accepted' \ (pending' \cup {i}) : Beats(j, i)'
    <2>1. <<i, "stale">> \in skipped' => disk[batch[i].row].at[batch[i].col] >= batch[i].h
      BY <1>2 DEF ReasonInv
    <2>2. ASSUME <<i, "superseded">> \in skipped'
          PROVE  \E j \in accepted' \ (pending' \cup {i}) : Beats(j, i)'
      <3>1. PICK j \in accepted \ (pending \cup {i}) : Beats(j, i)
        BY <1>2, <2>2 DEF ReasonInv
      <3>2. j \in accepted' \ (pending' \cup {i})
        BY <3>1
      <3> QED
        BY <1>1, <3>1, <3>2
    <2> QED
      BY <2>1, <2>2
  <1> QED
    BY <1>2 DEF ReasonInv

\* The winners of a column have a newest HLC.
LEMMA NewestRival ==
    ASSUME TypeOK, GroupInv, Rivals # {}
    PROVE  LET n == Newest(HlcsOf(batch, Rivals))
           IN  (\E j \in Rivals : batch[j].h = n) /\ \A j \in Rivals : batch[j].h <= n
  <1>1. \A i \in Rivals : batch[i].h \in Nat \ {0} /\ batch[i].h <= Limit
    BY BatchType DEF TypeOK, GroupInv, Preflight, Change, Rivals
  <1>2. HlcsOf(batch, Rivals) \subseteq 0..Limit /\ HlcsOf(batch, Rivals) # {}
    BY <1>1, BatchConstants DEF HlcsOf
  <1>3. /\ Newest(HlcsOf(batch, Rivals)) \in HlcsOf(batch, Rivals)
        /\ \A g \in HlcsOf(batch, Rivals) : g <= Newest(HlcsOf(batch, Rivals))
    BY <1>2, NewestOf, BatchConstants
  <1> QED
    BY <1>3 DEF HlcsOf

LEMMA StageReason ==
    ASSUME TypeOK, GroupInv, AccountInv, ReasonInv, StageColumn
    PROVE  ReasonInv'
  <1>0. PICK i \in pending : i = First(pending)
    BY StageCases
  <1> DEFINE n == Newest(HlcsOf(batch, Rivals))
  <1>1. /\ phase = "stage" /\ row \in Rows /\ i \in pending /\ pending' = pending \ {i}
        /\ UNCHANGED <<disk, phase, batch, work, todo, row, accepted>>
    BY <1>0, StageCases DEF StageColumn, TypeOK, history
  <1>2. \A j \in pending \cup staged : batch[j].row = row /\ batch[j].col \in Cols
    BY DEF GroupInv
  <1>3. \A j \in pending \cup staged : Unskipped(j) /\ j \in DOMAIN batch
    BY DEF AccountInv, Undecided, TypeOK
  <1>4. \A j \in DOMAIN batch : batch[j].h \in Nat
    BY BatchType DEF Change
  <1>5. work[row] = disk[row] /\ \A c \in Cols : disk[row].at[c] \in Nat
    <2>1. batch[i].row = row
      BY <1>1, <1>2
    <2>2. work[row] = disk[row]
      BY <1>1, <2>1 DEF ReasonInv
    <2>3. disk[row] \in Row
      BY <1>1 DEF TypeOK
    <2> QED
      BY <2>2, <2>3 DEF Row
  <1>6. "stale" \in Reasons /\ "superseded" \in Reasons
    BY DEF Reasons
  <1>7. \A K, x, j, y : <<j, y>> \in Skip(K, x) <=> (j \in K /\ y = x)
    BY DEF Skip
  <1>8. /\ staged' \subseteq staged \cup {i}
        /\ pending' \cup staged' \subseteq accepted' /\ accepted' \cap todo' = {}
        /\ \A j \in todo' \cup pending' : batch[j].row \in Rows =>
               work'[batch[j].row] = disk[batch[j].row]
    BY <1>0, <1>1, StageCases DEF ReasonInv
  <1> SUFFICES ASSUME NEW k \in DOMAIN batch, batch[k].full
               PROVE  /\ <<k, "stale">> \in skipped' =>
                             disk[batch[k].row].at[batch[k].col] >= batch[k].h
                      /\ <<k, "superseded">> \in skipped' =>
                             \E j \in accepted \ (pending' \cup {k}) : Beats(j, k)'
    BY <1>1, <1>8 DEF ReasonInv
  <1>9. /\ <<k, "stale">> \in skipped => disk[batch[k].row].at[batch[k].col] >= batch[k].h
        /\ <<k, "superseded">> \in skipped => \E j \in accepted \ (pending \cup {k}) : Beats(j, k)
    BY <1>1 DEF ReasonInv, InCall
  <1> HIDE DEF n
  \* It loses against the stored column.
  <1>10. CASE /\ skipped' = skipped \cup Skip({i}, "stale")
              /\ batch[i].full => ~(batch[i].h > work[row].at[batch[i].col])
    <2>1. <<k, "stale">> \in skipped' => disk[batch[k].row].at[batch[k].col] >= batch[k].h
      BY <1>1, <1>2, <1>4, <1>5, <1>7, <1>9, <1>10
    <2>2. \A j : j # i => (<<j, "stale">> \in skipped' <=> <<j, "stale">> \in skipped)
      BY <1>7, <1>10
    <2>3. \A j : <<j, "superseded">> \in skipped' <=> <<j, "superseded">> \in skipped
      BY <1>7, <1>10
    <2>4. \A j \in accepted \ (pending \cup {k}) :
             Beats(j, k) => Beats(j, k)' /\ j \in accepted \ (pending' \cup {k})
      BY <1>1, <2>2, <2>3 DEF Beats
    <2> QED
      BY <1>9, <2>1, <2>3, <2>4
  \* It loses against a winner.
  <1>11. CASE /\ Rivals # {} /\ skipped' = skipped \cup Skip({i}, "superseded")
              /\ batch[i].full => ~(batch[i].h > n)
    <2>1. \A j : <<j, "stale">> \in skipped' <=> <<j, "stale">> \in skipped
      BY <1>7, <1>11
    <2>2. \A j : j # i => (<<j, "superseded">> \in skipped' <=> <<j, "superseded">> \in skipped)
      BY <1>7, <1>11
    <2>3. \A j \in accepted \ (pending \cup {k}) :
             Beats(j, k) => Beats(j, k)' /\ j \in accepted \ (pending' \cup {k})
      BY <1>1, <2>1, <2>2 DEF Beats
    <2>4. CASE k # i
      BY <1>9, <2>1, <2>2, <2>3, <2>4
    <2>5. CASE k = i
      <3>1. PICK j \in Rivals : batch[j].h = n
        BY <1>11, NewestRival DEF n
      <3>2. j \in staged /\ j # i /\ j \notin pending /\ batch[j].col = batch[i].col
        BY <1>0, <1>1, <3>1 DEF Rivals, GroupInv
      <3>3. <<j, "stale">> \notin skipped' /\ <<j, "superseded">> \notin skipped'
        BY <1>3, <1>6, <2>1, <2>2, <3>2 DEF Unskipped
      <3>4. batch[j].h >= batch[i].h
        BY <1>1, <1>3, <1>4, <1>11, <2>5, <3>1, <3>2
      <3>5. Beats(j, k)' /\ j \in accepted \ (pending' \cup {k})
        BY <1>1, <1>2, <2>5, <3>2, <3>3, <3>4 DEF Beats, ReasonInv
      <3>6. <<i, "stale">> \notin skipped
        BY <1>1, <1>3, <1>6 DEF Unskipped
      <3> QED
        BY <2>1, <2>5, <3>5, <3>6
    <2> QED
      BY <2>4, <2>5
  \* It takes the place of its rivals.
  <1>12. CASE /\ skipped' = skipped \cup Skip(Rivals, "superseded")
              /\ batch[i].full /\ (Rivals # {} => batch[i].h > n)
    <2>1. \A j : <<j, "stale">> \in skipped' <=> <<j, "stale">> \in skipped
      BY <1>7, <1>12
    <2>2. \A j : j \notin Rivals =>
             (<<j, "superseded">> \in skipped' <=> <<j, "superseded">> \in skipped)
      BY <1>7, <1>12
    <2>3. i \notin Rivals /\ \A j \in Rivals : j \in staged /\ batch[j].col = batch[i].col
      BY <1>0, <1>1 DEF Rivals, GroupInv
    <2>4. <<i, "stale">> \notin skipped' /\ <<i, "superseded">> \notin skipped'
      BY <1>1, <1>3, <1>6, <2>1, <2>2, <2>3 DEF Unskipped
    <2>5. i \in accepted \ pending'
      BY <1>1 DEF ReasonInv
    <2>6. \A j \in Rivals : batch[i].h >= batch[j].h /\ batch[j].row = batch[i].row
      <3> SUFFICES ASSUME NEW j \in Rivals
                   PROVE  batch[i].h >= batch[j].h /\ batch[j].row = batch[i].row
        OBVIOUS
      <3>1. batch[j].h <= n /\ n \in Nat
        BY <1>3, <1>4, <2>3, NewestRival DEF n
      <3>2. batch[i].h > n /\ batch[i].h \in Nat /\ batch[j].h \in Nat
        BY <1>1, <1>3, <1>4, <1>12, <2>3
      <3> QED
        BY <1>1, <1>2, <2>3, <3>1, <3>2
    <2>7. CASE k \in Rivals
      <3>1. Beats(i, k)' /\ i # k
        BY <1>1, <2>3, <2>4, <2>6, <2>7 DEF Beats
      <3>2. <<k, "stale">> \notin skipped'
        BY <1>3, <1>6, <2>1, <2>3, <2>7 DEF Unskipped
      <3> QED
        BY <2>5, <3>1, <3>2
    <2>8. CASE k \notin Rivals
      <3>1. ASSUME <<k, "superseded">> \in skipped'
            PROVE  \E j \in accepted \ (pending' \cup {k}) : Beats(j, k)'
        <4>1. PICK j \in accepted \ (pending \cup {k}) : Beats(j, k)
          BY <1>9, <2>2, <2>8, <3>1
        <4>2. CASE j \notin Rivals
          BY <1>1, <2>1, <2>2, <4>1, <4>2 DEF Beats
        <4>3. CASE j \in Rivals
          <5>1. batch[i].h >= batch[k].h
            BY <1>1, <1>3, <1>4, <2>3, <2>6, <4>1, <4>3 DEF Beats
          <5>2. batch[i].row = batch[k].row /\ batch[i].col = batch[k].col
            BY <2>3, <2>6, <4>1, <4>3 DEF Beats
          <5>3. i # k
            BY <2>4, <3>1
          <5> QED
            BY <1>1, <2>4, <2>5, <5>1, <5>2, <5>3 DEF Beats
        <4> QED
          BY <4>2, <4>3
      <3> QED
        BY <1>9, <2>1, <3>1
    <2> QED
      BY <2>7, <2>8
  <1>13. \/ /\ skipped' = skipped \cup Skip({i}, "stale")
            /\ batch[i].full => ~(batch[i].h > work[row].at[batch[i].col])
         \/ /\ Rivals # {} /\ skipped' = skipped \cup Skip({i}, "superseded")
            /\ batch[i].full => ~(batch[i].h > n)
         \/ /\ skipped' = skipped \cup Skip(Rivals, "superseded")
            /\ batch[i].full /\ (Rivals # {} => batch[i].h > n)
    BY <1>0 DEF StageColumn, Rivals, n
  <1> QED
    BY <1>10, <1>11, <1>12, <1>13

LEMMA StepReason == TypeOK /\ GroupInv /\ AccountInv /\ ReasonInv /\ Next => ReasonInv'
  <1> SUFFICES ASSUME TypeOK, GroupInv, AccountInv, ReasonInv, Next PROVE ReasonInv'
    OBVIOUS
  <1>0. \A K, x, j, y : <<j, y>> \in Skip(K, x) <=> (j \in K /\ y = x)
    BY DEF Skip
  <1>1. ASSUME NEW b \in Batches, Begin(b) PROVE ReasonInv'
    <2>1. /\ skipped' = {} /\ pending' = {} /\ staged' = {} /\ accepted' = {}
          /\ phase' = "rows" /\ work' = disk' /\ batch' = b
      BY <1>1 DEF Begin, GroupInv, TypeOK, group, outcome, history
    <2> QED
      BY <2>1 DEF ReasonInv
  <1>2. ASSUME NEW r \in Missing, SkipGroup(r) PROVE ReasonInv'
    <2>1. /\ phase = "rows" /\ todo' \subseteq todo
          /\ UNCHANGED <<disk, phase, batch, work, pending, staged, accepted>>
      BY <1>2 DEF SkipGroup, group, history
    <2>2. \A i : /\ <<i, "stale">> \in skipped' <=> <<i, "stale">> \in skipped
                 /\ <<i, "superseded">> \in skipped' <=> <<i, "superseded">> \in skipped
      BY <1>0, <1>2 DEF SkipGroup
    <2>3. InCall /\ pending' \cup staged' \subseteq accepted' /\ accepted' \cap todo' = {}
      BY <2>1 DEF ReasonInv, InCall
    <2>4. \A i \in todo' \cup pending' : batch[i].row \in Rows =>
                   work'[batch[i].row] = disk[batch[i].row]
      BY <2>1 DEF ReasonInv
    <2> QED
      BY <2>1, <2>2, <2>3, <2>4, SameReasons
  <1>3. ASSUME NEW r \in Rows, NEW D \in SUBSET GroupOf(r), PrepareRow(r, D) PROVE ReasonInv'
    <2>1. /\ phase = "rows" /\ phase' = "stage" /\ todo' = todo \ GroupOf(r)
          /\ pending' = D /\ staged' = {} /\ accepted' = accepted \cup D
          /\ UNCHANGED <<disk, batch, work>>
      BY <1>3 DEF PrepareRow
    <2>2. \A i : /\ <<i, "stale">> \in skipped' <=> <<i, "stale">> \in skipped
                 /\ <<i, "superseded">> \in skipped' <=> <<i, "superseded">> \in skipped
      BY <1>0, <1>3 DEF PrepareRow
    <2>3. D \subseteq todo /\ D \subseteq GroupOf(r)
      BY DEF GroupOf
    <2>4. /\ InCall /\ pending' \cup staged' \subseteq accepted' /\ accepted' \cap todo' = {}
          /\ pending' \cap accepted \subseteq pending
      BY <2>1, <2>3 DEF ReasonInv, InCall
    <2>5. \A i \in todo' \cup pending' : batch[i].row \in Rows =>
                   work'[batch[i].row] = disk[batch[i].row]
      BY <2>1, <2>3 DEF ReasonInv
    <2> QED
      BY <2>1, <2>2, <2>4, <2>5, SameReasons
  <1>4. CASE WriteNothing \/ InsertConstraint
    <2>1. /\ phase = "stage" /\ phase' = "rows" /\ staged' = {} /\ pending = {}
          /\ UNCHANGED <<disk, batch, work, todo, pending, accepted>>
      BY <1>4 DEF WriteNothing, InsertConstraint, Selected, history
    <2>2. \A i : /\ <<i, "stale">> \in skipped' <=> <<i, "stale">> \in skipped
                 /\ <<i, "superseded">> \in skipped' <=> <<i, "superseded">> \in skipped
      BY <1>0, <1>4 DEF WriteNothing, InsertConstraint
    <2>3. InCall /\ pending' \cup staged' \subseteq accepted' /\ accepted' \cap todo' = {}
      BY <2>1 DEF ReasonInv, InCall
    <2>4. \A i \in todo' \cup pending' : batch[i].row \in Rows =>
                   work'[batch[i].row] = disk[batch[i].row]
      BY <2>1 DEF ReasonInv
    <2> QED
      BY <2>1, <2>2, <2>3, <2>4, SameReasons
  <1>5. CASE WriteRow
    <2>1. /\ phase = "stage" /\ phase' = "rows" /\ staged' = {} /\ pending = {}
          /\ UNCHANGED <<disk, batch, todo, pending, accepted, skipped>>
          /\ work' = [work EXCEPT ![row] = WrittenRow]
      BY <1>5 DEF WriteRow, Selected, history
    <2>2. InCall /\ pending' \cup staged' \subseteq accepted' /\ accepted' \cap todo' = {}
      BY <2>1 DEF ReasonInv, InCall
    <2>3. \A i \in todo' \cup pending' : batch[i].row \in Rows =>
                   work'[batch[i].row] = disk[batch[i].row]
      BY <2>1 DEF ReasonInv, GroupInv, TypeOK
    <2> QED
      BY <2>1, <2>2, <2>3, SameReasons
  <1>6. CASE PropagateDeletes
    <2>1. /\ phase = "rows" /\ phase' = "propagated"
          /\ UNCHANGED <<disk, batch, todo, pending, staged, accepted, skipped>>
      BY <1>6 DEF PropagateDeletes, group, outcome, history
    <2>2. InCall /\ pending' \cup staged' \subseteq accepted' /\ accepted' \cap todo' = {}
      BY <2>1 DEF ReasonInv, InCall
    <2> QED
      BY <2>1, <2>2, SameReasons
  <1>7. CASE Commit
    <2>1. CASE top = None
      BY <1>7, <2>1 DEF Commit, Cleared, ReasonInv, InCall
    <2>2. CASE top # None
      BY <1>7, <2>2 DEF Commit, ReasonInv, InCall, group, history
    <2> QED
      BY <2>1, <2>2
  <1>8. CASE Advance \/ Abort \/ Crash
    BY <1>8 DEF Advance, Abort, Crash, Cleared, ReasonInv, InCall
  <1> QED
    BY <1>1, <1>2, <1>3, <1>4, <1>5, <1>6, <1>7, <1>8, StageReason DEF Next

-----------------------------------------------------------------------------
(* The theorems                                                            *)

LEMMA StepRestore == TypeOK /\ RestoreInv /\ Next => RestoreInv'
  <1> SUFFICES ASSUME TypeOK, RestoreInv, Next PROVE RestoreInv'
    OBVIOUS
  <1>1. CASE \/ \E b \in Batches : Begin(b)
             \/ \E r \in Missing : SkipGroup(r)
             \/ \E r \in Rows : \E D \in SUBSET GroupOf(r) : PrepareRow(r, D)
    BY <1>1 DEF Begin, SkipGroup, PrepareRow, RestoreInv, connection
  <1>2. CASE StageColumn \/ WriteNothing \/ WriteRow \/ InsertConstraint \/ PropagateDeletes
    BY <1>2 DEF StageColumn, WriteNothing, WriteRow, InsertConstraint, PropagateDeletes,
       Selected, RestoreInv, connection
  <1>3. CASE Commit \/ Advance \/ Abort \/ Crash
    BY <1>3 DEF Commit, Advance, Abort, Crash, RestoreInv, connection
  <1> QED
    BY <1>1, <1>2, <1>3 DEF Next

LEMMA InitInv == Init => Inv
  BY InitType, InitGroup, InitAccount, InitDelete, InitReason DEF Inv, RestoreInv, Init

LEMMA StutterInv == Inv /\ UNCHANGED vars => Inv'
  <1> SUFFICES ASSUME Inv, UNCHANGED vars PROVE Inv'
    OBVIOUS
  <1> USE DEF vars, connection, group, outcome, history
  <1>1. TypeOK' /\ RestoreInv'
    BY DEF Inv, TypeOK, RestoreInv
  <1>2. GroupInv'
    BY DEF Inv, GroupInv, Preflight
  <1>3. AccountInv'
    BY SameAccount DEF Inv, Undecided
  <1>4. DeleteInv'
    BY DEF Inv, DeleteInv, NoZombie, NewerThan
  <1>5. ReasonInv'
    BY DEF Inv, ReasonInv, InCall, Beats
  <1> QED
    BY <1>1, <1>2, <1>3, <1>4, <1>5 DEF Inv

LEMMA StepInv == Inv /\ [Next]_vars => Inv'
  BY StepType, StepGroup, StepAccount, StepDelete, StepReason, StepRestore, StutterInv DEF Inv

\* Inv is an invariant of every sequence of calls.
THEOREM Invariance == Spec => []Inv
  BY InitInv, StepInv, PTL DEF Spec

\* Every step of apply_remote_changes keeps the types.
THEOREM TypeCorrect == Spec => []TypeOK
  <1>1. Inv => TypeOK
    BY DEF Inv
  <1> QED
    BY <1>1, Invariance, PTL

\* Before the commit every change of the batch is applied or skipped for exactly
\* one reason, for every batch and every policy.
THEOREM AllAccounted == Spec => []NoSilentDrop
  <1>1. Inv => NoSilentDrop
    <2> SUFFICES ASSUME Inv, phase = "propagated", NEW i \in DOMAIN batch
                 PROVE  LET why == {x \in Reasons : <<i, x>> \in skipped} IN
                        IF i \in applied THEN why = {} ELSE \E x \in Reasons : why = {x}
      BY DEF NoSilentDrop
    <2>1. i \notin Undecided
      BY DEF Inv, GroupInv, Undecided
    <2>2. IF i \in applied THEN Unskipped(i) ELSE SkippedOnce(i)
      BY <2>1 DEF Inv, AccountInv
    <2> QED
      BY <2>2 DEF Unskipped, SkippedOnce
  <1> QED
    BY <1>1, Invariance, PTL

\* A change reported as stale lost against the stored column, one reported as
\* superseded against a change of the batch that did not lose itself.
THEOREM ReasonsAreTrue == Spec => []SkipReasonsTrue
  <1>1. Inv => SkipReasonsTrue
    BY DEF Inv, ReasonInv, InCall, Beats, SkipReasonsTrue
  <1> QED
    BY <1>1, Invariance, PTL

\* with_fk_disabled and the trigger gate are undone by every call, however it ends.
THEOREM ConnectionRestored == Spec => []RestoredAtRest
  <1>1. Inv => RestoredAtRest
    BY DEF Inv, RestoreInv, RestoredAtRest
  <1> QED
    BY <1>1, Invariance, PTL

\* No committed row is older than a committed delete of it, whatever the policy
\* accepts and the constraints reject.
THEOREM NoResurrection == Spec => []NoZombie
  <1>1. Inv => NoZombie
    BY DEF Inv, DeleteInv
  <1> QED
    BY <1>1, Invariance, PTL

-----------------------------------------------------------------------------
(* Apply implements Merge: a call commits exactly the merge of what the    *)
(* policy accepted, and every other step of it is invisible.               *)

\* i is the winner rather than j: it is newer, or as new and earlier in the batch.
Leads(i, j) == batch[j].h < batch[i].h \/ (batch[j].h = batch[i].h /\ i <= j)

\* The winner of every column among the changes K.
Leading(K) == {i \in K : \A j \in K : batch[j].col = batch[i].col => Leads(i, j)}

\* What Merge says of the batch and of what the policy has answered so far.
Winners(r) == M!Wins(disk, batch, accepted, r)
Written(r) == M!Lands(disk, batch, accepted, blocked, r)
Merged == M!MergedRows(disk, batch, accepted, blocked)

\* The row whose columns are being compared is not written yet.
Open(r) == phase = "stage" /\ r = row

\* A call has a batch, and nothing is left over between calls.
CallInv ==
    /\ phase # "idle" => batch \in Batches
    /\ phase = "idle" => top = None /\ blocked = {}

\* The policy has seen each row at most once, and a constraint only the INSERT of
\* a row that was not there.
PolicyInv ==
    InCall =>
        /\ \A i \in accepted : batch[i].row \in Rows /\ batch[i].col \in Cols
        /\ \A i \in todo, j \in accepted : batch[i].row # batch[j].row
        /\ \A r \in blocked : ~Live(disk[r]) /\ \A i \in todo : batch[i].row # r
        /\ phase = "stage" => row \notin blocked

\* What the policy did not accept was rejected for good; of what it accepted only
\* shadowed rows and rows that met a constraint are, the first never entries.
Rejections == {"structure", "column", "policy"}
RejectInv ==
    InCall =>
        /\ \A i \in (DOMAIN batch) \ (todo \cup accepted) :
              \E x \in Rejections : <<i, x>> \in skipped
        /\ \A i \in accepted : \A x \in Rejections : <<i, x>> \notin skipped
        /\ \A i \in DOMAIN batch :
              /\ <<i, "shadowed">> \in skipped => batch[i].row \notin Entries
              /\ <<i, "constraint">> \in skipped => batch[i].row \in blocked

\* Changes are compared from the oldest on; the staged ones are the winners among
\* those compared.
StageInv ==
    phase = "stage" =>
        /\ work[row] = disk[row]
        /\ \A i \in pending, j \in accepted \ pending :
              batch[j].row = row => batch[j].h < batch[i].h \/ (batch[j].h = batch[i].h /\ j <= i)
        /\ staged = Leading(Winners(row) \ pending)

\* Every row that is done is merged, and after the propagation all are swept.
RowsInv ==
    /\ phase \in {"rows", "stage"} => \A r \in Rows : ~Open(r) => work[r] = Merged[r]
    /\ phase = "propagated" => work = M!Swept(Merged, batch, accepted)

\* max_accepted_hlc is the newest HLC that won in a row that was written.
TopInv ==
    InCall =>
        /\ \A r \in Rows : ~Open(r) /\ Written(r) => \A i \in Winners(r) : batch[i].h <= top
        /\ top # None => \E r \in Rows : /\ ~Open(r) /\ Written(r)
                                         /\ \E i \in Winners(r) : batch[i].h = top

MergeInv == CallInv /\ PolicyInv /\ RejectInv /\ StageInv /\ RowsInv /\ TopInv

-----------------------------------------------------------------------------
(* Merge's operators in the terms of Apply                                 *)

LEMMA SameTerms ==
    /\ M!Rows = Rows /\ M!None = None /\ M!Absent = Absent
    /\ \A S : M!Newest(S) = Newest(S)
    /\ \A b, I : M!HlcsOf(b, I) = HlcsOf(b, I)
    /\ \A r : M!Live(r) <=> Live(r)
    /\ \A a, b : M!Later(a, b) = Later(a, b)
  BY DEF M!Rows, M!None, M!Absent, M!Newest, M!HlcsOf, M!Live, M!Later,
         Rows, None, Absent, Newest, HlcsOf, Live, Later

LEMMA WinnersAre ==
    \A r, i : i \in Winners(r) <=> /\ i \in accepted
                                   /\ batch[i].row = r /\ batch[i].full
                                   /\ batch[i].h > disk[r].at[batch[i].col]
  BY DEF Winners, M!Wins

LEMMA WrittenIs ==
    \A r : Written(r) <=> /\ Winners(r) # {}
                          /\ r \notin blocked
                          /\ Live(disk[r]) \/ ~M!Hidden(disk, r, Newest(HlcsOf(batch, Winners(r))))
  BY SameTerms DEF Written, M!Lands, Winners

LEMMA HiddenIs ==
    \A r, h : M!Hidden(disk, r, h) <=>
        \E e \in Entries : Target[e] = r /\ Live(disk[e]) /\ disk[e].hlc >= h
  BY SameTerms DEF M!Hidden

LEMMA MergedIs ==
    \A r \in Rows : Merged[r] = IF Written(r) THEN M!MergedRow(disk, batch, accepted, r)
                                ELSE disk[r]
  BY SameTerms DEF Merged, M!MergedRows, Written

\* A row's merge depends on the changes accepted for that row only.
LEMMA SameRow ==
    ASSUME NEW r, UNCHANGED <<disk, batch>>,
           \A i : batch[i].row = r => (i \in accepted' <=> i \in accepted),
           r \in blocked' <=> r \in blocked
    PROVE  /\ Winners(r)' = Winners(r)
           /\ Written(r)' <=> Written(r)
           /\ r \in Rows => Merged'[r] = Merged[r]
  <1>1. M!Wins(disk, batch, accepted, r)' = M!Wins(disk, batch, accepted, r)
    BY DEF M!Wins
  <1>2. Winners(r)' = Winners(r)
    BY <1>1 DEF Winners
  <1>3. Written(r)' <=> Written(r)
    BY <1>1 DEF Written, M!Lands, M!Hidden
  <1>4. M!MergedRow(disk, batch, accepted, r)' = M!MergedRow(disk, batch, accepted, r)
    BY <1>1 DEF M!MergedRow
  <1>5. ASSUME r \in Rows PROVE Merged'[r] = Merged[r]
    BY <1>3, <1>4, <1>5, SameTerms DEF Merged, M!MergedRows, Written
  <1> QED
    BY <1>2, <1>3, <1>5

-----------------------------------------------------------------------------
(* The winner of a column                                                  *)

\* Changes that passed preflight with their node part have bounded HLCs.
LEMMA Bounded ==
    ASSUME TypeOK, GroupInv, NEW i \in DOMAIN batch, batch[i].full
    PROVE  i \in Nat /\ batch[i].h \in 1..Limit
  BY BatchType, BatchConstants DEF GroupInv, Preflight, Change

\* Every change loses to a leading one of its column, or leads.
LEMMA LeaderExists ==
    ASSUME TypeOK, GroupInv,
           NEW K, \A i \in K : i \in DOMAIN batch /\ batch[i].full,
           NEW i \in K
    PROVE  \E l \in Leading(K) : batch[l].col = batch[i].col /\ Leads(l, i)
  <1>1. \A j \in K : j \in Nat /\ batch[j].h \in 1..Limit
    BY Bounded
  <1> DEFINE On == {j \in K : batch[j].col = batch[i].col}
             H == HlcsOf(batch, On)
  <1>2. H \subseteq 0..Limit /\ H # {}
    BY <1>1, BatchConstants DEF HlcsOf
  <1>3. Newest(H) \in H /\ \A g \in H : g <= Newest(H)
    BY <1>2, NewestOf, BatchConstants
  <1> DEFINE J == {j \in On : batch[j].h = Newest(H)}
  <1>4. J \subseteq Nat /\ J # {}
    BY <1>1, <1>3 DEF HlcsOf
  <1>5. PICK l \in J : \A j \in J : l <= j
    BY <1>4, LeastOf
  <1>6. ASSUME NEW j \in On PROVE Leads(l, j)
    <2>1. batch[j].h \in H /\ batch[l].h = Newest(H)
      BY <1>5 DEF HlcsOf
    <2>2. batch[j].h <= batch[l].h /\ batch[j].h \in Nat /\ batch[l].h \in Nat
      BY <1>1, <1>3, <1>5, <2>1
    <2>3. batch[j].h = batch[l].h => l <= j
      BY <1>5, <2>1
    <2> QED
      BY <2>2, <2>3 DEF Leads
  <1>7. l \in Leading(K)
    BY <1>5, <1>6 DEF Leading
  <1> QED
    BY <1>5, <1>6, <1>7

\* One leader per column.
LEMMA OneLeader ==
    ASSUME TypeOK, GroupInv,
           NEW K, \A i \in K : i \in DOMAIN batch /\ batch[i].full,
           NEW i \in Leading(K), NEW j \in Leading(K), batch[i].col = batch[j].col
    PROVE  i = j
  <1>1. i \in K /\ j \in K /\ Leads(i, j) /\ Leads(j, i)
    BY DEF Leading
  <1>2. i \in Nat /\ j \in Nat /\ batch[i].h \in Nat /\ batch[j].h \in Nat
    BY <1>1, Bounded
  <1> QED
    BY <1>1, <1>2 DEF Leads

\* The newest HLC of the leaders is the newest of all.
LEMMA NewestLeads ==
    ASSUME TypeOK, GroupInv, NEW K, \A i \in K : i \in DOMAIN batch /\ batch[i].full, K # {}
    PROVE  /\ Leading(K) # {}
           /\ Newest(HlcsOf(batch, Leading(K))) = Newest(HlcsOf(batch, K))
           /\ Newest(HlcsOf(batch, K)) \in HlcsOf(batch, K)
           /\ \A i \in K : batch[i].h <= Newest(HlcsOf(batch, K))
  <1>1. \A i \in K : batch[i].h \in 0..Limit
    BY Bounded
  <1>2. Leading(K) # {} /\ Leading(K) \subseteq K
    BY LeaderExists DEF Leading
  <1> DEFINE H == HlcsOf(batch, K)
             G == HlcsOf(batch, Leading(K))
  <1>3. H \subseteq 0..Limit /\ H # {} /\ G \subseteq 0..Limit /\ G # {} /\ G \subseteq H
    BY <1>1, <1>2 DEF HlcsOf
  <1>4. Newest(H) \in H /\ \A g \in H : g <= Newest(H)
    BY <1>3, NewestOf, BatchConstants
  <1>5. Newest(G) \in G /\ \A g \in G : g <= Newest(G)
    BY <1>3, NewestOf, BatchConstants
  <1>6. PICK i \in K : batch[i].h = Newest(H)
    BY <1>4 DEF HlcsOf
  <1>7. PICK l \in Leading(K) : Leads(l, i)
    BY LeaderExists
  <1>8. batch[l].h \in G /\ batch[i].h <= batch[l].h
    BY <1>1, <1>2, <1>7 DEF HlcsOf, Leads
  <1>9. Newest(G) <= Newest(H) /\ Newest(H) <= Newest(G)
    BY <1>1, <1>2, <1>3, <1>4, <1>5, <1>6, <1>8
  <1>10. Newest(G) = Newest(H)
    BY <1>3, <1>4, <1>5, <1>9
  <1>11. \A k \in K : batch[k].h <= Newest(H)
    BY <1>4 DEF HlcsOf
  <1> QED
    BY <1>2, <1>4, <1>10, <1>11

\* Adding a change that leads all of its column, or none of them.
LEMMA AddLeader ==
    ASSUME NEW K, NEW i, i \notin K, Leads(i, i),
           \A j \in K : batch[j].col = batch[i].col => Leads(i, j) /\ ~Leads(j, i)
    PROVE  Leading(K \cup {i}) = {j \in Leading(K) : batch[j].col # batch[i].col} \cup {i}
  <1>1. \A j \in K : j \in Leading(K \cup {i}) <=>
                        j \in Leading(K) /\ batch[j].col # batch[i].col
    BY DEF Leading
  <1>2. i \in Leading(K \cup {i})
    BY DEF Leading
  <1>3. Leading(K \cup {i}) \subseteq K \cup {i} /\ Leading(K) \subseteq K
    BY DEF Leading
  <1> QED
    BY <1>1, <1>2, <1>3

LEMMA AddLoser ==
    ASSUME NEW K, NEW i, i \notin K,
           \A j \in Leading(K) : batch[j].col = batch[i].col => Leads(j, i),
           \E j \in K : batch[j].col = batch[i].col /\ ~Leads(i, j)
    PROVE  Leading(K \cup {i}) = Leading(K)
  <1>1. i \notin Leading(K \cup {i})
    BY DEF Leading
  <1>2. \A j \in K : j \in Leading(K \cup {i}) <=> j \in Leading(K)
    BY DEF Leading
  <1>3. Leading(K \cup {i}) \subseteq K \cup {i} /\ Leading(K) \subseteq K
    BY DEF Leading
  <1> QED
    BY <1>1, <1>2, <1>3

-----------------------------------------------------------------------------
(* select_staged_columns                                                   *)

\* What may win is complete and within the batch.
LEMMA WinnersBounded ==
    ASSUME TypeOK, NEW r
    PROVE  \A i \in Winners(r) : i \in DOMAIN batch /\ batch[i].full
  BY WinnersAre DEF TypeOK

\* A turn keeps the staged changes the winners among those compared.
LEMMA StageKeepsLeading ==
    ASSUME TypeOK, GroupInv, ReasonInv, StageInv, StageColumn
    PROVE  staged' = Leading(Winners(row) \ pending')
  <1> DEFINE i == First(pending)
             K == Winners(row) \ pending
             running == IF Rivals = {} THEN work[row].at[batch[i].col]
                        ELSE Newest(HlcsOf(batch, Rivals))
  <1>1. i \in pending /\ pending' = pending \ {i}
    BY StageCases
  <1>2. /\ phase = "stage" /\ work[row] = disk[row] /\ staged = Leading(K)
        /\ \A j \in accepted \ pending : batch[j].row = row =>
              batch[j].h < batch[i].h \/ (batch[j].h = batch[i].h /\ j <= i)
    BY <1>1 DEF StageColumn, StageInv
  <1>3. i \in DOMAIN batch /\ i \in accepted /\ i \notin K /\ batch[i].row = row /\ batch[i].col \in Cols
    BY <1>1 DEF TypeOK, ReasonInv, GroupInv
  <1>4. \A j \in K : j \in DOMAIN batch /\ batch[j].full
    BY WinnersBounded
  <1>5. \A j \in K : /\ j \in Nat /\ batch[j].h \in 1..Limit
                     /\ batch[j].h > disk[row].at[batch[j].col]
                     /\ batch[j].h < batch[i].h \/ (batch[j].h = batch[i].h /\ j <= i)
    BY <1>2, <1>4, Bounded, WinnersAre
  <1>6. i \in Nat /\ batch[i].h \in Nat /\ disk[row].at[batch[i].col] \in Nat
    <2>1. batch[i] \in Change /\ i \in Nat
      BY <1>3, BatchType
    <2>2. disk[row] \in Row
      BY <1>2 DEF TypeOK
    <2> QED
      BY <1>3, <2>1, <2>2 DEF Change, Row
  <1>7. Winners(row) \ pending' = IF i \in Winners(row) THEN K \cup {i} ELSE K
    BY <1>1
  <1>8. i \in Winners(row) <=> batch[i].full /\ batch[i].h > disk[row].at[batch[i].col]
    BY <1>3, WinnersAre
  <1>9. Rivals = {s \in Leading(K) : batch[s].col = batch[i].col}
    BY <1>2 DEF Rivals
  <1>10. ASSUME Rivals # {}
         PROVE  /\ Newest(HlcsOf(batch, Rivals)) \in HlcsOf(batch, Rivals)
                /\ \A s \in Rivals : batch[s].h <= Newest(HlcsOf(batch, Rivals))
    <2>1. Rivals \subseteq K
      BY <1>9 DEF Leading
    <2>2. HlcsOf(batch, Rivals) \subseteq 0..Limit /\ HlcsOf(batch, Rivals) # {}
      BY <1>5, <1>10, <2>1 DEF HlcsOf
    <2>3. /\ Newest(HlcsOf(batch, Rivals)) \in HlcsOf(batch, Rivals)
          /\ \A g \in HlcsOf(batch, Rivals) : g <= Newest(HlcsOf(batch, Rivals))
      BY <2>2, NewestOf, BatchConstants
    <2> QED
      BY <2>3 DEF HlcsOf
  <1>11. CASE ~batch[i].full \/ ~(batch[i].h > running)
    <2>1. staged' = staged
      BY <1>11 DEF StageColumn, Rivals
    <2>2. CASE i \notin Winners(row)
      BY <1>2, <1>7, <2>1, <2>2
    <2>3. CASE i \in Winners(row)
      <3>1. Rivals # {}
        BY <1>2, <1>8, <1>11, <2>3
      <3>2. PICK s \in Rivals : batch[s].h = Newest(HlcsOf(batch, Rivals))
        BY <1>10, <3>1 DEF HlcsOf
      <3>3. s \in K /\ s \in Leading(K) /\ batch[s].col = batch[i].col
        BY <1>9, <3>2 DEF Leading
      <3>4. batch[s].h = batch[i].h /\ s <= i /\ s # i
        BY <1>3, <1>5, <1>6, <1>8, <1>11, <2>3, <3>1, <3>2, <3>3
      <3>5. ~Leads(i, s)
        BY <1>5, <1>6, <3>3, <3>4 DEF Leads
      <3>6. ASSUME NEW j \in Leading(K), batch[j].col = batch[i].col PROVE Leads(j, i)
        <4>1. j \in K /\ Leads(j, s)
          BY <3>3, <3>6 DEF Leading
        <4> QED
          BY <1>5, <1>6, <3>3, <3>4, <4>1 DEF Leads
      <3>7. Leading(K \cup {i}) = Leading(K)
        BY <1>3, <3>3, <3>5, <3>6, AddLoser
      <3> QED
        BY <1>2, <1>7, <2>1, <2>3, <3>7
    <2> QED
      BY <2>2, <2>3
  <1>12. CASE ~(~batch[i].full \/ ~(batch[i].h > running))
    <2>1. staged' = (staged \ Rivals) \cup {i}
      BY <1>12 DEF StageColumn, Rivals
    <2>2. ASSUME NEW j \in K, batch[j].col = batch[i].col PROVE batch[j].h < batch[i].h
      <3>1. PICK l \in Leading(K) : batch[l].col = batch[j].col /\ Leads(l, j)
        BY <1>4, LeaderExists
      <3>2. l \in Rivals /\ l \in K
        BY <1>9, <2>2, <3>1 DEF Leading
      <3>3. batch[l].h <= Newest(HlcsOf(batch, Rivals)) /\ running = Newest(HlcsOf(batch, Rivals))
        BY <1>10, <3>2
      <3>4. Newest(HlcsOf(batch, Rivals)) \in Nat
        <4>1. PICK s \in Rivals : batch[s].h = Newest(HlcsOf(batch, Rivals))
          BY <1>10, <3>2 DEF HlcsOf
        <4>2. s \in K
          BY <1>9, <4>1 DEF Leading
        <4> QED
          BY <1>5, <4>1, <4>2
      <3>5. batch[j].h <= batch[l].h
        BY <1>5, <3>1, <3>2 DEF Leads
      <3> HIDE DEF running
      <3> QED
        BY <1>5, <1>6, <1>12, <3>2, <3>3, <3>4, <3>5
    <2>3. i \in Winners(row)
      <3>1. CASE Rivals = {}
        BY <1>2, <1>8, <1>12, <3>1
      <3>2. CASE Rivals # {}
        <4>1. PICK s \in Rivals : TRUE
          BY <3>2
        <4>2. s \in K /\ batch[s].col = batch[i].col
          BY <1>9, <4>1 DEF Leading
        <4>3. batch[s].h < batch[i].h /\ batch[s].h > disk[row].at[batch[i].col]
          BY <1>5, <2>2, <4>2
        <4> QED
          BY <1>5, <1>6, <1>8, <1>12, <4>2, <4>3
      <3> QED
        BY <3>1, <3>2
    <2>4. \A j \in K : batch[j].col = batch[i].col => Leads(i, j) /\ ~Leads(j, i)
      BY <1>5, <1>6, <2>2 DEF Leads
    <2>5. Leads(i, i)
      BY <1>6 DEF Leads
    <2>6. Leading(K \cup {i}) = {j \in Leading(K) : batch[j].col # batch[i].col} \cup {i}
      BY <1>3, <2>4, <2>5, AddLeader
    <2> QED
      BY <1>2, <1>7, <1>9, <2>1, <2>3, <2>6
  <1> QED
    BY <1>11, <1>12

\* The written row is Merge's row, column by column.
LEMMA WrittenIsMerged ==
    ASSUME TypeOK, GroupInv, StageInv, Selected, staged # {}
    PROVE  /\ WrittenRow = M!MergedRow(disk, batch, accepted, row)
           /\ MaxHlc = Newest(HlcsOf(batch, Winners(row)))
           /\ Winners(row) # {}
  <1> DEFINE W == Winners(row)
             Won(c) == {s \in staged : batch[s].col = c}
             By(c) == CHOOSE s \in staged : batch[s].col = c
             On(c) == {i \in W : batch[i].col = c}
             Best(c) == CHOOSE i \in On(c) : \A j \in On(c) :
                            batch[j].h < batch[i].h \/ (batch[j].h = batch[i].h /\ i <= j)
  <1>1. staged = Leading(W) /\ work[row] = disk[row]
    BY DEF Selected, StageInv
  <1>2. \A i \in W : i \in DOMAIN batch /\ batch[i].full
    BY WinnersBounded
  <1>3. W # {} /\ staged \subseteq W
    BY <1>1 DEF Leading
  <1>4. MaxHlc = Newest(HlcsOf(batch, W))
    BY <1>1, <1>2, <1>3, NewestLeads DEF MaxHlc
  <1>5. \A c : Won(c) = {} <=> On(c) = {}
    BY <1>1, <1>2, <1>3, LeaderExists
  <1>6. ASSUME NEW c, On(c) # {} PROVE By(c) = Best(c)
    <2>1. By(c) \in staged /\ batch[By(c)].col = c
      BY <1>5, <1>6
    <2>2. By(c) \in On(c) /\ \A j \in On(c) : Leads(By(c), j)
      BY <1>1, <1>3, <2>1 DEF Leading
    <2> HIDE DEF By
    <2>3. \E i \in On(c) : \A j \in On(c) :
              batch[j].h < batch[i].h \/ (batch[j].h = batch[i].h /\ i <= j)
      BY <2>2 DEF Leads
    <2>4. Best(c) \in On(c) /\ \A j \in On(c) : Leads(Best(c), j)
      BY <2>3 DEF Leads
    <2> HIDE DEF Best
    <2>5. Leads(By(c), Best(c)) /\ Leads(Best(c), By(c))
      BY <2>2, <2>4
    <2>6. /\ By(c) \in Nat /\ Best(c) \in Nat
          /\ batch[By(c)].h \in Nat /\ batch[Best(c)].h \in Nat
      BY <1>2, <2>2, <2>4, Bounded
    <2> QED
      BY <2>5, <2>6 DEF Leads
  <1>7. ASSUME NEW c \in Cols, On(c) # {} PROVE batch[Best(c)].col = c
    BY <1>5, <1>6, <1>7
  <1> DEFINE at1 == [c \in Cols |-> IF Won(c) = {} THEN work[row].at[c] ELSE batch[By(c)].h]
             at2 == [c \in Cols |-> IF On(c) = {} THEN disk[row].at[c] ELSE batch[Best(c)].h]
             sig1 == [c \in Cols |-> IF Won(c) = {} THEN work[row].sig[c]
                                     ELSE SigAfter(batch[By(c)], work[row].sig[c])]
             sig2 == [c \in Cols |-> IF On(c) = {} \/ c \in Kept THEN disk[row].sig[c]
                                     ELSE IF batch[Best(c)].sig THEN batch[Best(c)].h ELSE None]
  <1>8. WrittenRow = [hlc |-> Later(work[row].hlc, MaxHlc), at |-> at1, sig |-> sig1]
    BY DEF WrittenRow
  <1>9. M!MergedRow(disk, batch, accepted, row) =
            [hlc |-> Later(disk[row].hlc, Newest(HlcsOf(batch, W))), at |-> at2, sig |-> sig2]
    BY DEF M!MergedRow, Winners, M!Later, M!Newest, M!HlcsOf, M!None, Later, Newest, HlcsOf, None
  <1> HIDE DEF Won, By, On, Best, W
  <1>10. at1 = at2
    BY <1>1, <1>5, <1>6
  <1>11. sig1 = sig2
    BY <1>1, <1>5, <1>6, <1>7 DEF SigAfter
  <1> HIDE DEF at1, at2, sig1, sig2
  <1> QED
    BY <1>1, <1>3, <1>4, <1>8, <1>9, <1>10, <1>11 DEF W

\* InsertShadowed is Merge's Hidden for a row that is not there.
LEMMA ShadowedIsHidden ==
    ASSUME TypeOK, GroupInv, StageInv, Selected, staged # {}
    PROVE  InsertShadowed <=> /\ ~Live(disk[row])
                              /\ M!Hidden(disk, row, Newest(HlcsOf(batch, Winners(row))))
  <1>1. work[row] = disk[row]
    BY DEF Selected, StageInv
  <1> QED
    BY <1>1, WrittenIsMerged, HiddenIs DEF InsertShadowed

\* Nothing staged means nothing won.
LEMMA NothingStaged ==
    ASSUME TypeOK, GroupInv, StageInv, Selected, staged = {}
    PROVE  Winners(row) = {}
  <1>1. staged = Leading(Winners(row))
    BY DEF Selected, StageInv
  <1> QED
    BY <1>1, WinnersBounded, NewestLeads

-----------------------------------------------------------------------------
(* Steps: MergeInv is inductive                                            *)

LEMMA InitMerge == Init => MergeInv
  BY DEF Init, MergeInv, CallInv, PolicyInv, RejectInv, StageInv, RowsInv, TopInv, InCall

\* The policy and the constraints have not answered again.
LEMMA SameMerge ==
    ASSUME UNCHANGED <<disk, batch, accepted, blocked>>
    PROVE  \A r : /\ Winners(r)' = Winners(r)
                  /\ Written(r)' <=> Written(r)
                  /\ r \in Rows => Merged'[r] = Merged[r]
  BY SameRow

LEMMA BeginMerge ==
    ASSUME TypeOK, GroupInv, MergeInv, NEW b \in Batches, Begin(b)
    PROVE  MergeInv'
  <1>1. /\ phase = "idle" /\ phase' = "rows" /\ batch' = b /\ work' = disk /\ disk' = disk
        /\ todo' = DOMAIN b
        /\ UNCHANGED <<row, pending, staged, skipped, top, accepted, blocked>>
    BY DEF Begin, group, outcome, history
  <1>2. accepted' = {} /\ blocked' = {} /\ top' = None /\ skipped' = {}
    BY <1>1 DEF TypeOK, GroupInv, MergeInv, CallInv
  <1>3. \A r : Winners(r)' = {} /\ ~Written(r)'
    <2>1. \A r : M!Wins(disk, batch, accepted, r)' = {}
      BY <1>2 DEF M!Wins
    <2> QED
      BY <2>1 DEF Winners, Written, M!Lands
  <1>4. \A r \in Rows : Merged'[r] = disk'[r]
    BY <1>3, SameTerms DEF Merged, M!MergedRows, Written
  <1>5. RowsInv' /\ TopInv'
    BY <1>1, <1>2, <1>3, <1>4 DEF RowsInv, TopInv, Open
  <1>6. CallInv' /\ PolicyInv' /\ RejectInv' /\ StageInv'
    BY <1>1, <1>2 DEF CallInv, PolicyInv, RejectInv, StageInv
  <1> QED
    BY <1>5, <1>6 DEF MergeInv

LEMMA SkipGroupMerge ==
    ASSUME TypeOK, GroupInv, MergeInv, NEW r \in Missing, SkipGroup(r)
    PROVE  MergeInv'
  <1>1. /\ phase = "rows" /\ todo' = todo \ GroupOf(r)
        /\ skipped' = skipped \cup Skip(GroupOf(r), "structure")
        /\ UNCHANGED <<disk, phase, batch, work, row, pending, staged, top, accepted, blocked>>
    BY DEF SkipGroup, group, history
  <1>2. \A j, y : <<j, y>> \in Skip(GroupOf(r), "structure") <=> (j \in GroupOf(r) /\ y = "structure")
    BY DEF Skip
  <1>3. \A i \in accepted : i \notin GroupOf(r)
    BY <1>1, BatchConstants DEF MergeInv, PolicyInv, InCall, GroupOf, Rows
  <1>4. RejectInv'
    <2>1. \A i \in DOMAIN batch : i \notin todo' /\ i \notin accepted =>
              \E x \in Rejections : <<i, x>> \in skipped'
      <3> TAKE i \in DOMAIN batch
      <3> HAVE i \notin todo' /\ i \notin accepted
      <3>1. CASE i \in todo
        BY <1>1, <1>2, <3>1 DEF Rejections
      <3>2. CASE i \notin todo
        BY <1>1, <3>2 DEF MergeInv, RejectInv, InCall
      <3> QED
        BY <3>1, <3>2
    <2>2. \A i \in accepted : \A x \in Rejections : <<i, x>> \notin skipped'
      BY <1>1, <1>2, <1>3 DEF MergeInv, RejectInv, InCall
    <2>3. \A i \in DOMAIN batch :
              /\ <<i, "shadowed">> \in skipped' => batch[i].row \notin Entries
              /\ <<i, "constraint">> \in skipped' => batch[i].row \in blocked
      <3>1. \A i : \A x \in {"shadowed", "constraint"} : <<i, x>> \in skipped' => <<i, x>> \in skipped
        BY <1>1, <1>2
      <3> QED
        BY <1>1, <3>1 DEF MergeInv, RejectInv, InCall
    <2> QED
      BY <1>1, <2>1, <2>2, <2>3 DEF RejectInv
  <1>5. PolicyInv' /\ CallInv' /\ StageInv'
    BY <1>1 DEF MergeInv, PolicyInv, CallInv, StageInv, InCall
  <1>6. RowsInv' /\ TopInv'
    BY <1>1, SameMerge DEF MergeInv, RowsInv, TopInv, Open, InCall
  <1> QED
    BY <1>4, <1>5, <1>6 DEF MergeInv

LEMMA PrepareRowMerge ==
    ASSUME TypeOK, GroupInv, AccountInv, ReasonInv, MergeInv,
           NEW r \in Rows, NEW D \in SUBSET GroupOf(r), PrepareRow(r, D)
    PROVE  MergeInv'
  <1> DEFINE eligible == {i \in GroupOf(r) : batch[i].col \in Cols}
  <1>1. /\ phase = "rows" /\ phase' = "stage" /\ todo' = todo \ GroupOf(r)
        /\ row' = r /\ pending' = D /\ staged' = {} /\ accepted' = accepted \cup D
        /\ D \subseteq eligible
        /\ skipped' = skipped \cup Skip(GroupOf(r) \ eligible, "column")
                              \cup Skip(eligible \ D, "policy")
        /\ UNCHANGED <<disk, batch, work, top, blocked>>
    BY DEF PrepareRow
  <1>2. \A J, x, j, y : <<j, y>> \in Skip(J, x) <=> (j \in J /\ y = x)
    BY DEF Skip
  <1>3. PICK n \in todo : batch[n].row = r
    BY DEF PrepareRow, IsNextRow
  <1>4. \A i \in D : i \in todo /\ i \in DOMAIN batch /\ batch[i].row = r /\ batch[i].col \in Cols
    BY <1>1 DEF GroupOf, TypeOK
  <1>5. /\ \A i \in accepted : batch[i].row # r /\ i \notin todo
        /\ r \notin blocked
    BY <1>1, <1>3 DEF MergeInv, PolicyInv, InCall, ReasonInv
  <1>6. CallInv'
    BY <1>1 DEF MergeInv, CallInv
  <1>7. PolicyInv'
    BY <1>1, <1>4, <1>5 DEF MergeInv, PolicyInv, InCall, GroupOf
  <1>8. RejectInv'
    <2>1. \A i \in DOMAIN batch : i \notin todo' /\ i \notin accepted' =>
              \E x \in Rejections : <<i, x>> \in skipped'
      <3> TAKE i \in DOMAIN batch
      <3> HAVE i \notin todo' /\ i \notin accepted'
      <3>1. CASE i \in todo
        <4>1. i \in GroupOf(r) /\ i \notin D
          BY <1>1, <3>1
        <4>2. <<i, "column">> \in skipped' \/ <<i, "policy">> \in skipped'
          BY <1>1, <1>2, <4>1
        <4> QED
          BY <4>2 DEF Rejections
      <3>2. CASE i \notin todo
        BY <1>1, <3>2 DEF MergeInv, RejectInv, InCall
      <3> QED
        BY <3>1, <3>2
    <2>2. ASSUME NEW i \in accepted', NEW x \in Rejections PROVE <<i, x>> \notin skipped'
      <3>1. <<i, x>> \notin skipped
        <4>1. CASE i \in accepted
          BY <1>1, <2>2, <4>1 DEF MergeInv, RejectInv, InCall
        <4>2. CASE i \in D
          <5>1. Unskipped(i)
            BY <1>4, <4>2 DEF AccountInv, Undecided
          <5> QED
            BY <5>1 DEF Unskipped, Rejections, Reasons
        <4> QED
          BY <1>1, <4>1, <4>2
      <3>2. i \notin GroupOf(r) \ D
        BY <1>1, <1>5 DEF GroupOf
      <3> QED
        BY <1>1, <1>2, <3>1, <3>2
    <2>3. \A i \in DOMAIN batch :
              /\ <<i, "shadowed">> \in skipped' => batch[i].row \notin Entries
              /\ <<i, "constraint">> \in skipped' => batch[i].row \in blocked
      <3>1. \A i : \A x \in {"shadowed", "constraint"} : <<i, x>> \in skipped' => <<i, x>> \in skipped
        BY <1>1, <1>2
      <3> QED
        BY <1>1, <3>1 DEF MergeInv, RejectInv, InCall
    <2> QED
      BY <1>1, <2>1, <2>2, <2>3 DEF RejectInv
  <1>9. StageInv'
    <2>1. work[r] = disk[r]
      BY <1>1, <1>3 DEF ReasonInv
    <2>2. \A j \in accepted' \ pending' : batch'[j].row # row'
      BY <1>1, <1>5
    <2>3. (Winners(row) \ pending)' = {}
      BY <1>1, <1>5 DEF Winners, M!Wins
    <2>4. Leading(Winners(row) \ pending)' = {}
      BY <2>3 DEF Leading
    <2> QED
      BY <1>1, <2>1, <2>2, <2>4 DEF StageInv
  <1>10. \A q \in Rows : q # r => /\ Winners(q)' = Winners(q) /\ (Written(q)' <=> Written(q))
                                  /\ Merged'[q] = Merged[q]
    <2> TAKE q \in Rows
    <2> HAVE q # r
    <2>1. \A i : batch[i].row = q => (i \in accepted' <=> i \in accepted)
      BY <1>1, <1>4
    <2> QED
      BY <1>1, <2>1, SameRow
  <1>11. ~Written(r)
    BY <1>5, WrittenIs, WinnersAre
  <1>12. RowsInv'
    BY <1>1, <1>10 DEF MergeInv, RowsInv, Open
  <1>13. TopInv'
    BY <1>1, <1>10, <1>11 DEF MergeInv, TopInv, Open, InCall
  <1> QED
    BY <1>6, <1>7, <1>8, <1>9, <1>12, <1>13 DEF MergeInv

LEMMA StageColumnMerge ==
    ASSUME TypeOK, GroupInv, ReasonInv, MergeInv, StageColumn
    PROVE  MergeInv'
  <1>1. /\ phase = "stage" /\ pending' = pending \ {First(pending)} /\ First(pending) \in pending
        /\ UNCHANGED <<disk, phase, batch, work, todo, row, top, accepted, blocked>>
    BY StageCases DEF StageColumn, history
  <1>2. \A i \in DOMAIN batch : \A x \in Reasons \ {"stale", "superseded"} :
            <<i, x>> \in skipped' <=> <<i, x>> \in skipped
    <2>1. \A J, x, j, y : <<j, y>> \in Skip(J, x) <=> (j \in J /\ y = x)
      BY DEF Skip
    <2>2. \E J, x : /\ x \in {"stale", "superseded"}
                    /\ skipped' = skipped \cup Skip(J, x)
      BY StageCases
    <2> QED
      BY <2>1, <2>2
  <1>3. Rejections \cup {"shadowed", "constraint"} = Reasons \ {"stale", "superseded"}
    BY DEF Rejections, Reasons
  <1>4. RejectInv'
    BY <1>1, <1>2, <1>3 DEF MergeInv, RejectInv, InCall, TypeOK
  <1>5. PolicyInv' /\ CallInv'
    BY <1>1 DEF MergeInv, PolicyInv, CallInv, InCall
  <1>6. StageInv'
    <2>1. staged' = Leading(Winners(row) \ pending')
      BY StageKeepsLeading DEF MergeInv
    <2>2. Leading(Winners(row) \ pending)' = Leading(Winners(row) \ pending')
      BY <1>1, SameMerge DEF Leading, Leads
    <2>3. ASSUME NEW i \in pending', NEW j \in accepted \ pending', batch[j].row = row
          PROVE  batch[j].h < batch[i].h \/ (batch[j].h = batch[i].h /\ j <= i)
      <3>1. CASE j \in pending
        <4>1. j = First(pending) /\ i \in pending
          BY <1>1, <2>3, <3>1
        <4> QED
          BY <4>1, FirstOf DEF TypeOK
      <3>2. CASE j \notin pending
        BY <1>1, <2>3, <3>2 DEF MergeInv, StageInv
      <3> QED
        BY <3>1, <3>2
    <2> QED
      BY <1>1, <2>1, <2>2, <2>3 DEF MergeInv, StageInv
  <1>7. RowsInv' /\ TopInv'
    BY <1>1, SameMerge DEF MergeInv, RowsInv, TopInv, Open, InCall
  <1> QED
    BY <1>4, <1>5, <1>6, <1>7 DEF MergeInv

LEMMA WriteNothingMerge ==
    ASSUME TypeOK, GroupInv, MergeInv, WriteNothing
    PROVE  MergeInv'
  <1>1. /\ phase = "stage" /\ phase' = "rows" /\ Selected /\ row \in Rows
        /\ staged = {} \/ InsertShadowed
        /\ skipped' = skipped \cup Skip(staged, "shadowed")
        /\ UNCHANGED <<disk, batch, work, todo, row, pending, top, accepted, blocked>>
    BY DEF WriteNothing, Selected, history, TypeOK
  <1>2. ~Written(row)
    <2>1. CASE staged = {}
      BY <1>1, <2>1, NothingStaged, WrittenIs DEF MergeInv
    <2>2. CASE staged # {}
      BY <1>1, <2>2, ShadowedIsHidden, WrittenIs DEF MergeInv
    <2> QED
      BY <2>1, <2>2
  <1>3. work[row] = Merged[row]
    BY <1>1, <1>2, MergedIs DEF MergeInv, StageInv
  <1>4. RowsInv'
    BY <1>1, <1>3, SameMerge DEF MergeInv, RowsInv, Open
  <1>5. TopInv'
    BY <1>1, <1>2, SameMerge DEF MergeInv, TopInv, Open, InCall
  <1>6. RejectInv'
    <2>1. \A j, y : <<j, y>> \in Skip(staged, "shadowed") <=> (j \in staged /\ y = "shadowed")
      BY DEF Skip
    <2>2. \A i : \A x \in Rejections \cup {"constraint"} : <<i, x>> \in skipped' <=> <<i, x>> \in skipped
      BY <1>1, <2>1 DEF Rejections
    <2>3. \A i \in staged : batch[i].row \notin Entries
      BY <1>1, TargetsAreKeys DEF InsertShadowed, GroupInv
    <2>4. \A i \in DOMAIN batch : <<i, "shadowed">> \in skipped' => batch[i].row \notin Entries
      BY <1>1, <2>1, <2>3 DEF MergeInv, RejectInv, InCall
    <2> QED
      BY <1>1, <2>2, <2>4 DEF MergeInv, RejectInv, InCall, TypeOK
  <1>7. CallInv' /\ PolicyInv' /\ StageInv'
    BY <1>1 DEF MergeInv, CallInv, PolicyInv, StageInv, InCall
  <1> QED
    BY <1>4, <1>5, <1>6, <1>7 DEF MergeInv

LEMMA InsertConstraintMerge ==
    ASSUME TypeOK, GroupInv, MergeInv, InsertConstraint
    PROVE  MergeInv'
  <1>1. /\ phase = "stage" /\ phase' = "rows" /\ Selected /\ row \in Rows /\ ~Live(work[row])
        /\ skipped' = skipped \cup Skip(staged, "constraint")
        /\ blocked' = blocked \cup {row}
        /\ UNCHANGED <<disk, batch, work, todo, row, pending, top, accepted>>
    BY DEF InsertConstraint, Selected, TypeOK
  <1>2. work[row] = disk[row]
    BY <1>1 DEF MergeInv, StageInv
  <1>3. \A q \in Rows : q # row => /\ Winners(q)' = Winners(q) /\ (Written(q)' <=> Written(q))
                                   /\ Merged'[q] = Merged[q]
    BY <1>1, SameRow
  <1>4. ~Written(row)'
    BY <1>1 DEF Written, M!Lands
  <1>5. Merged'[row] = disk[row]
    BY <1>1, <1>4, SameTerms DEF Merged, M!MergedRows, Written
  <1>6. RowsInv'
    BY <1>1, <1>2, <1>3, <1>5 DEF MergeInv, RowsInv, Open
  <1>7. TopInv'
    BY <1>1, <1>3, <1>4 DEF MergeInv, TopInv, Open, InCall
  <1>8. RejectInv'
    <2>1. \A j, y : <<j, y>> \in Skip(staged, "constraint") <=> (j \in staged /\ y = "constraint")
      BY DEF Skip
    <2>2. \A i : \A x \in Rejections \cup {"shadowed"} : <<i, x>> \in skipped' <=> <<i, x>> \in skipped
      BY <1>1, <2>1 DEF Rejections
    <2>3. \A i \in staged : batch[i].row \in blocked'
      BY <1>1 DEF GroupInv
    <2>4. \A i \in DOMAIN batch : <<i, "constraint">> \in skipped' => batch[i].row \in blocked'
      BY <1>1, <2>1, <2>3 DEF MergeInv, RejectInv, InCall
    <2> QED
      BY <1>1, <2>2, <2>4 DEF MergeInv, RejectInv, InCall, TypeOK
  <1>9. PolicyInv'
    BY <1>1, <1>2 DEF MergeInv, PolicyInv, InCall, GroupInv
  <1>10. CallInv' /\ StageInv'
    BY <1>1 DEF MergeInv, CallInv, StageInv
  <1> QED
    BY <1>6, <1>7, <1>8, <1>9, <1>10 DEF MergeInv

LEMMA WriteRowMerge ==
    ASSUME TypeOK, GroupInv, MergeInv, WriteRow
    PROVE  MergeInv'
  <1>1. /\ phase = "stage" /\ phase' = "rows" /\ Selected /\ row \in Rows
        /\ staged # {} /\ ~InsertShadowed
        /\ work' = [work EXCEPT ![row] = WrittenRow] /\ top' = Later(top, MaxHlc)
        /\ UNCHANGED <<disk, batch, todo, row, pending, skipped, accepted, blocked>>
    BY DEF WriteRow, Selected, history, TypeOK
  <1>2. /\ WrittenRow = M!MergedRow(disk, batch, accepted, row)
        /\ MaxHlc = Newest(HlcsOf(batch, Winners(row))) /\ Winners(row) # {}
    BY <1>1, WrittenIsMerged DEF MergeInv
  <1>3. Written(row)
    BY <1>1, <1>2, ShadowedIsHidden, WrittenIs DEF MergeInv, PolicyInv, InCall
  <1>4. work'[row] = Merged[row] /\ \A q \in Rows : q # row => work'[q] = work[q]
    BY <1>1, <1>2, <1>3, MergedIs DEF TypeOK
  <1>5. RowsInv'
    BY <1>1, <1>4, SameMerge DEF MergeInv, RowsInv, Open
  <1>6. TopInv'
    <2>1. /\ \A i \in Winners(row) : batch[i].h <= MaxHlc
          /\ \E i \in Winners(row) : batch[i].h = MaxHlc
      <3>1. /\ MaxHlc \in HlcsOf(batch, Winners(row))
            /\ \A i \in Winners(row) : batch[i].h <= MaxHlc
        BY <1>2, WinnersBounded, NewestLeads
      <3> QED
        BY <3>1 DEF HlcsOf
    <2>2. top \in Nat /\ MaxHlc \in Nat \ {0}
      BY <1>1, MaxHlcType DEF TypeOK
    <2>3. top' \in Nat /\ top' >= top /\ top' >= MaxHlc /\ top' \in {top, MaxHlc}
      BY <1>1, <2>2 DEF Later
    <2>4. \A q, i : i \in Winners(q) => batch[i].h \in Nat
      BY WinnersBounded, Bounded
    <2>5. ASSUME NEW q \in Rows, Written(q), NEW i \in Winners(q) PROVE batch[i].h <= top'
      <3>1. CASE q = row
        BY <2>1, <2>2, <2>3, <2>4, <3>1
      <3>2. CASE q # row
        <4>1. batch[i].h <= top
          BY <1>1, <2>5, <3>2 DEF MergeInv, TopInv, Open, InCall
        <4> QED
          BY <2>2, <2>3, <2>4, <4>1
      <3> QED
        BY <3>1, <3>2
    <2>6. \E q \in Rows : Written(q) /\ \E i \in Winners(q) : batch[i].h = top'
      <3>1. CASE top' = MaxHlc
        BY <1>1, <1>3, <2>1, <3>1
      <3>2. CASE top' = top /\ top # None
        BY <1>1, <3>2 DEF MergeInv, TopInv, InCall
      <3>3. CASE top' = top /\ top = None
        BY <2>2, <2>3, <3>3 DEF None
      <3> QED
        BY <2>3, <3>1, <3>2, <3>3
    <2> QED
      BY <1>1, <2>5, <2>6, SameMerge DEF TopInv, Open
  <1>7. CallInv' /\ PolicyInv' /\ RejectInv' /\ StageInv'
    BY <1>1 DEF MergeInv, CallInv, PolicyInv, RejectInv, StageInv, InCall
  <1> QED
    BY <1>5, <1>6, <1>7 DEF MergeInv

\* The entries that fan out are Merge's: a rejected change of an entry means that
\* the entry is not there, or that the policy did not accept the change.
LEMMA PropagateMerge ==
    ASSUME TypeOK, GroupInv, AccountInv, MergeInv, PropagateDeletes
    PROVE  MergeInv'
  <1>1. /\ phase = "rows" /\ phase' = "propagated" /\ todo = {}
        /\ work' = [r \in Rows |-> IF \E e \in InboundDeletes : Propagates(e, r)
                                   THEN Absent ELSE work[r]]
        /\ UNCHANGED <<disk, batch, todo, row, pending, staged, skipped, top, accepted, blocked>>
    BY DEF PropagateDeletes, group, outcome, history
  <1>2. \A r \in Rows : work[r] = Merged[r] /\ work[r].hlc \in Nat
    BY <1>1 DEF MergeInv, RowsInv, Open, TypeOK, Row
  <1>3. ASSUME NEW e \in InboundDeletes
        PROVE  e \in Entries /\ \E i \in accepted : batch[i].row = e
    <2>1. PICK i \in DOMAIN batch :
              batch[i].row = e /\ \A x \in Reasons \ {"stale", "superseded"} : <<i, x>> \notin skipped
      BY DEF InboundDeletes
    <2>2. \A x \in Rejections : <<i, x>> \notin skipped
      BY <2>1 DEF Rejections, Reasons
    <2>3. i \in accepted
      BY <1>1, <2>2 DEF MergeInv, RejectInv, InCall
    <2> QED
      BY <2>1, <2>3 DEF InboundDeletes
  <1>4. ASSUME NEW i \in accepted, batch[i].row \in Entries, Live(work[batch[i].row])
        PROVE  batch[i].row \in InboundDeletes
    <2>1. i \in DOMAIN batch /\ batch[i].row \in Rows
      BY <1>4, TargetsAreKeys DEF TypeOK
    <2>2. batch[i].row \notin blocked
      <3> SUFFICES ASSUME batch[i].row \in blocked PROVE FALSE
        OBVIOUS
      <3>1. ~Live(disk[batch[i].row])
        BY <1>1 DEF MergeInv, PolicyInv, InCall
      <3>2. ~Written(batch[i].row)
        BY WrittenIs
      <3> QED
        BY <1>2, <1>4, <2>1, <3>1, <3>2, MergedIs
    <2>3. <<i, "shadowed">> \notin skipped /\ <<i, "constraint">> \notin skipped
      BY <1>1, <1>4, <2>1, <2>2 DEF MergeInv, RejectInv, InCall
    <2>4. \A x \in Rejections : <<i, x>> \notin skipped
      BY <1>1, <1>4 DEF MergeInv, RejectInv, InCall
    <2>5. \A x \in Reasons \ {"stale", "superseded"} : <<i, x>> \notin skipped
      BY <2>3, <2>4 DEF Rejections, Reasons
    <2> QED
      BY <1>4, <2>1, <2>5 DEF InboundDeletes
  <1> DEFINE Falls(r) == \E i \in accepted : /\ batch[i].row \in Entries
                                             /\ Target[batch[i].row] = r
                                             /\ Live(Merged[batch[i].row])
                                             /\ Merged[r].hlc <= Merged[batch[i].row].hlc
  <1>5. \A r \in Rows : (\E e \in InboundDeletes : Propagates(e, r)) <=> Falls(r)
    <2> TAKE r \in Rows
    <2>1. ASSUME NEW e \in InboundDeletes, Propagates(e, r) PROVE Falls(r)
      <3>1. PICK i \in accepted : batch[i].row = e
        BY <1>3
      <3>2. e \in Entries /\ e \in Rows /\ Target[e] = r /\ Live(work[e]) /\ ~(work[r].hlc > work[e].hlc)
        BY <1>3, <2>1, TargetsAreKeys DEF Propagates
      <3>3. work[r].hlc <= work[e].hlc
        BY <1>2, <3>2
      <3> QED
        BY <1>2, <3>1, <3>2, <3>3
    <2>2. ASSUME NEW i \in accepted, batch[i].row \in Entries, Target[batch[i].row] = r,
                 Live(Merged[batch[i].row]), Merged[r].hlc <= Merged[batch[i].row].hlc
          PROVE  \E e \in InboundDeletes : Propagates(e, r)
      <3>1. batch[i].row \in Rows
        BY <2>2, TargetsAreKeys
      <3>2. batch[i].row \in InboundDeletes
        BY <1>2, <1>4, <2>2, <3>1
      <3>3. Propagates(batch[i].row, r)
        BY <1>2, <2>2, <3>1 DEF Propagates
      <3> QED
        BY <3>2, <3>3
    <2> QED
      BY <2>1, <2>2
  <1>6. M!Swept(Merged, batch, accepted) = [r \in Rows |-> IF Falls(r) THEN Absent ELSE Merged[r]]
    BY SameTerms DEF M!Swept
  <1> HIDE DEF Falls
  <1>7. work' = M!Swept(Merged, batch, accepted)
    BY <1>1, <1>2, <1>5, <1>6
  <1>8. Merged' = Merged
    BY <1>1 DEF Merged, M!MergedRows, M!Lands, M!Hidden, M!Wins, M!MergedRow
  <1>9. RowsInv'
    BY <1>1, <1>7, <1>8 DEF RowsInv
  <1>10. TopInv'
    BY <1>1, SameMerge DEF MergeInv, TopInv, Open, InCall
  <1>11. CallInv' /\ PolicyInv' /\ RejectInv' /\ StageInv'
    BY <1>1 DEF MergeInv, CallInv, PolicyInv, RejectInv, StageInv, InCall
  <1> QED
    BY <1>9, <1>10, <1>11 DEF MergeInv

LEMMA EndMerge ==
    ASSUME TypeOK, MergeInv, Commit \/ Advance \/ Abort \/ Crash
    PROVE  MergeInv'
  <1>1. /\ phase' \in {"idle", "advance"}
        /\ phase' = "idle" => top' = None /\ blocked' = {}
        /\ phase' = "advance" => batch' = batch /\ phase # "idle"
    BY DEF Commit, Advance, Abort, Crash, Cleared
  <1> QED
    BY <1>1 DEF MergeInv, CallInv, PolicyInv, RejectInv, StageInv, RowsInv, TopInv, InCall

LEMMA StutterMerge == MergeInv /\ UNCHANGED vars => MergeInv'
  <1> SUFFICES ASSUME MergeInv, UNCHANGED vars PROVE MergeInv'
    OBVIOUS
  <1> USE DEF vars, connection, group, outcome, history
  <1>1. CallInv' /\ PolicyInv' /\ RejectInv'
    BY DEF MergeInv, CallInv, PolicyInv, RejectInv, InCall
  <1>2. StageInv'
    BY SameMerge DEF MergeInv, StageInv, Leading, Leads
  <1>3. Merged' = Merged
    BY DEF Merged, M!MergedRows, M!Lands, M!Hidden, M!Wins, M!MergedRow
  <1>4. RowsInv'
    BY <1>3 DEF MergeInv, RowsInv, Open, M!Swept
  <1>5. TopInv'
    BY SameMerge DEF MergeInv, TopInv, Open, InCall
  <1> QED
    BY <1>1, <1>2, <1>4, <1>5 DEF MergeInv

LEMMA StepMerge == Inv /\ MergeInv /\ [Next]_vars => MergeInv'
  BY BeginMerge, SkipGroupMerge, PrepareRowMerge, StageColumnMerge, WriteNothingMerge,
     WriteRowMerge, InsertConstraintMerge, PropagateMerge, EndMerge, StutterMerge
  DEF Next, Inv

\* MergeInv is an invariant of every sequence of calls.
THEOREM MergeInvariance == Spec => []MergeInv
  BY InitMerge, StepMerge, Invariance, PTL DEF Spec

-----------------------------------------------------------------------------
(* The step simulation                                                     *)

LEMMA InitSimulated == Init => M!Init
  BY SameTerms DEF Init, M!Init, None

\* The commit is Merge's Land: what is stored is the merge, and what the clock is
\* told is the newest HLC that landed.
LEMMA CommitLands ==
    ASSUME TypeOK, GroupInv, MergeInv, Commit
    PROVE  M!Land
  <1> DEFINE H == M!LandedHlcs(disk, batch, accepted, blocked)
  <1>1. phase = "propagated" /\ disk' = work /\ batch \in Batches /\ batch # <<>>
    BY BatchConstants DEF Commit, MergeInv, CallInv
  <1>2. disk' = M!Swept(M!MergedRows(disk, batch, accepted, blocked), batch, accepted)
    BY <1>1 DEF MergeInv, RowsInv, Merged
  <1>3. \A h : h \in H <=> \E r \in Rows : Written(r) /\ \E i \in Winners(r) : h = batch[i].h
    <2>1. H = UNION {HlcsOf(batch, Winners(r)) : r \in {r \in Rows : Written(r)}}
      BY SameTerms DEF M!LandedHlcs, Winners, Written
    <2> HIDE DEF H
    <2> QED
      BY <2>1 DEF HlcsOf
  <1> HIDE DEF H
  <1>4. \A h \in H : h \in Nat \ {0} /\ h <= top
    <2> TAKE h \in H
    <2>1. PICK r \in Rows : Written(r) /\ \E i \in Winners(r) : h = batch[i].h
      BY <1>3
    <2>2. PICK i \in Winners(r) : h = batch[i].h
      BY <2>1
    <2>3. batch[i].h \in 1..Limit
      BY <2>2, WinnersBounded, Bounded
    <2>4. batch[i].h <= top
      BY <1>1, <2>1, <2>2 DEF MergeInv, TopInv, InCall, Open
    <2> QED
      BY <2>2, <2>3, <2>4, BatchConstants
  <1>5. top # None => top \in H
    BY <1>1, <1>3 DEF MergeInv, TopInv, InCall
  <1>6. CASE top = None
    <2>1. H = {}
      BY <1>4, <1>6 DEF None
    <2>2. M!Returned
      BY <1>6, SameTerms DEF Commit, Cleared, M!Returned, None
    <2> QED
      BY <1>1, <1>2, <2>1, <2>2, SameTerms DEF M!Land, H, None
  <1>7. CASE top # None
    <2>1. Newest(H) = top
      <3>1. top \in H /\ \A g \in H : g <= top
        BY <1>4, <1>5, <1>7
      <3>2. \A t \in H : (\A g \in H : g <= t) => t = top
        BY <1>4, <3>1
      <3> QED
        BY <3>1, <3>2 DEF Newest
    <2>2. phase' = "advance" /\ UNCHANGED <<batch, accepted, blocked, top>>
      BY <1>7 DEF Commit, outcome, history
    <2>3. H # {}
      BY <1>5, <1>7
    <2> QED
      BY <1>1, <1>2, <2>1, <2>2, <2>3, SameTerms DEF M!Land, H, None
  <1> QED
    BY <1>6, <1>7

\* Every step of the engine is a step of Merge or changes nothing that Merge sees.
LEMMA StepSimulated == Inv /\ MergeInv /\ [Next]_vars => [M!Next]_M!mvars
  <1> SUFFICES ASSUME Inv, MergeInv, [Next]_vars PROVE M!Next \/ UNCHANGED M!mvars
    OBVIOUS
  <1>1. TypeOK /\ GroupInv
    BY DEF Inv
  <1>2. phase # "idle" => batch # <<>>
    BY BatchConstants DEF MergeInv, CallInv
  <1>3. ASSUME NEW b \in Batches, Begin(b) PROVE M!Submit
    <2>1. batch = <<>> /\ batch' = b /\ phase = "idle" /\ phase' = "rows"
      BY <1>1, <1>3 DEF GroupInv, Begin
    <2>2. \A i \in DOMAIN b : b[i].full => b[i].h <= Limit
      BY <1>3 DEF Begin, Preflight
    <2> QED
      BY <1>3, <2>1, <2>2 DEF Begin, history, M!Submit
  <1>4. ASSUME NEW r \in Rows, NEW D \in SUBSET GroupOf(r), PrepareRow(r, D) PROVE M!Accept
    <2>1. D \in SUBSET {i \in DOMAIN batch : batch[i].row \in M!Rows /\ batch[i].col \in Cols}
      BY <1>1, <1>4, SameTerms DEF PrepareRow, GroupOf, TypeOK
    <2>2. phase = "rows" /\ phase' = "stage" /\ accepted' = accepted \cup D
          /\ UNCHANGED <<disk, batch, blocked>>
      BY <1>4 DEF PrepareRow
    <2> QED
      BY <1>2, <2>1, <2>2, SameTerms DEF M!Accept, None
  <1>5. CASE InsertConstraint
    <2>1. /\ phase = "stage" /\ phase' = "rows" /\ row \in Rows /\ ~Live(work[row])
          /\ blocked' = blocked \cup {row} /\ UNCHANGED <<disk, batch, accepted>>
      BY <1>1, <1>5 DEF InsertConstraint, Selected, TypeOK
    <2>2. work[row] = disk[row]
      BY <2>1 DEF MergeInv, StageInv
    <2>3. M!Refuse
      BY <1>2, <2>1, <2>2, SameTerms DEF M!Refuse, None
    <2> QED
      BY <2>3 DEF M!Next
  <1>6. CASE Advance \/ Abort \/ Crash
    <2>1. /\ phase # "idle" /\ phase' = "idle" /\ disk' = disk
          /\ batch' = <<>> /\ accepted' = {} /\ blocked' = {}
      BY <1>6 DEF Advance, Abort, Crash, Cleared
    <2>2. M!Return
      BY <1>2, <2>1, SameTerms DEF M!Return, M!Returned, None
    <2> QED
      BY <2>2 DEF M!Next
  <1>7. CASE \/ \E r \in Missing : SkipGroup(r)
             \/ StageColumn \/ WriteNothing \/ WriteRow \/ PropagateDeletes
    <2>1. /\ phase \in {"rows", "stage"} /\ phase' # "advance"
          /\ UNCHANGED <<disk, batch, accepted, blocked>>
      BY <1>7 DEF SkipGroup, StageColumn, WriteNothing, WriteRow, PropagateDeletes, Selected, history
    <2> QED
      BY <2>1 DEF M!mvars
  <1>8. CASE UNCHANGED vars
    BY <1>8 DEF vars, outcome, history, M!mvars
  <1> QED
    BY <1>1, <1>3, <1>4, <1>5, <1>6, <1>7, <1>8, CommitLands DEF Next, M!Next

\* apply_remote_changes is the atomic merge that Merge specifies: for every batch,
\* every answer of the policy, every constraint, failure, panic or crash, a call
\* commits the last-writer-wins merge of exactly what the policy accepted, with the
\* deletes it admitted swept, and asks the clock to pass exactly what landed, or it
\* changes nothing.
THEOREM ApplyImplementsMerge == Spec => MergesAtomically
  BY InitSimulated, StepSimulated, Invariance, MergeInvariance, PTL
  DEF Spec, MergesAtomically, M!Spec
=============================================================================
