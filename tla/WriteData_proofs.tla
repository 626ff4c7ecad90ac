-------------------------- MODULE WriteData_proofs --------------------------
(***************************************************************************)
(* Proofs about the data that Write's calls leave, for any tables, rows,   *)
(* statements and limits: triggers in step with the schema, foreign keys,  *)
(* the change observer, silent migrations and marked rows. Each is about   *)
(* every database the connection has or could fall back to: the file, the  *)
(* open transaction and its savepoint.                                     *)
(***************************************************************************)
EXTENDS Write_proofs

-----------------------------------------------------------------------------
(* Triggers                                                                *)

\* The statement under way is the closure's but for the stamp, and a guarded ALTER of a
\* synced table is stamped, so that it gets its savepoint.
Asked(x, s) ==
    x.op = s.op /\ x.table = s.table /\ x.other = s.other /\ x.key = s.key /\ x.col = s.col
OriginInv ==
    pc \in Handling =>
        /\ \E s \in Statements : Asked(stmt, s)
        /\ call.guard /\ stmt.op \in {"add", "remove", "rename"} /\ Synced(stmt.table)
             => stmt.hlc # 0

LEMMA InitOrigin == Init => OriginInv
  BY DEF Init, OriginInv, Handling

LEMMA StepOrigin == TypeInv /\ Control /\ OriginInv /\ [Next]_vars => OriginInv'
  <1> SUFFICES ASSUME TypeInv, Control, OriginInv, [Next]_vars PROVE OriginInv'
    OBVIOUS
  <1>0. clock \in Nat /\ txHlc \in Nat
    BY DEF TypeInv, TypeOK
  <1> USE DEF OriginInv
  <1>1. CASE \E g, s, l \in BOOLEAN : BeginWrite(g, s, l)
    BY <1>1 DEF BeginWrite, Handling
  <1>2. ASSUME NEW s \in Statements, Query(s) \/ PrepareLocal(s) \/ BeginCopy(s)
        PROVE  OriginInv'
    <2>1. stmt' = s
      BY <1>2 DEF Query, PrepareLocal, BeginCopy, Start
    <2>2. \E x \in Statements : Asked(stmt', x)
      BY <2>1 DEF Asked
    <2> QED
      BY <1>2, <2>2 DEF Query, PrepareLocal, BeginCopy, Start, Transforms, TransformsInLocalMode
  <1>3. ASSUME NEW s \in Statements, PrepareStamped(s) PROVE OriginInv'
    <2> DEFINE h == IF txHlc = 0 THEN clock + 1 ELSE txHlc
               n == IF Synced(s.table) THEN h ELSE 0
    <2>1. h \in Nat /\ n \in Nat /\ h # 0
      BY <1>0
    <2>2. stmt' = [s EXCEPT !.hlc = n]
      BY <1>3 DEF PrepareStamped, Start
    <2>3. Synced(s.table) => n # 0
      BY <2>1
    <2> HIDE DEF h, n
    <2>4. stmt'.hlc = n /\ stmt'.table = s.table
      BY <2>1, <2>2, StampedIsStatement
    <2>5. Asked(stmt', s)
      BY <2>2, WriteConstants DEF Asked, Statement
    <2> QED
      BY <2>3, <2>4, <2>5 DEF Synced
  <1>4. ASSUME NEW s \in Statements,
               Refuse(s) \/ RefuseCopy(s) \/ BeginCopyFails(s) \/ PersistFailsHard(s)
        PROVE  OriginInv'
    BY <1>4 DEF Refuse, RefuseCopy, BeginCopyFails, PersistFailsHard, NextStatement, Refused, Handling
  <1>5. CASE BeginSchemaChange \/ Execute
    BY <1>5 DEF BeginSchemaChange, Execute, Start, ToClosure, Handling, Synced
  <1>6. CASE BeginSchemaChangeFails \/ ExecuteFails \/ ExecuteFailsHard \/ Interrupt
             \/ CompleteSchemaChange \/ CompleteSchemaChangeFails \/ EndCopy \/ EndCopyFails
    BY <1>6 DEF BeginSchemaChangeFails, ExecuteFails, ExecuteFailsHard, Interrupt,
       CompleteSchemaChange, CompleteSchemaChangeFails, EndCopy, EndCopyFails, ToClosure, Handling
  <1>7. CASE Commit \/ CommitFails \/ Abandon \/ Crash \/ Reopen
    BY <1>7 DEF Commit, CommitFails, Abandon, Return, Crash, Reopen, Handling
  <1>8. CASE (\E t \in Names : InstallCrdt(t)) \/ InstallCrdtFails
    BY <1>8 DEF InstallCrdt, InstallCrdtFails, Handling
  <1>9. CASE (\E g \in BOOLEAN : BeginRead(g)) \/ ReadStatement \/ ReadStatementEnds \/ EndRead
    BY <1>9 DEF BeginRead, ReadStatement, ReadStatementEnds, EndRead, Handling
  <1>10. CASE UNCHANGED vars
    BY <1>10 DEF vars, Synced
  <1> QED
    BY <1>1, <1>2, <1>3, <1>4, <1>5, <1>6, <1>7, <1>8, <1>9, <1>10 DEF Next

\* A table is tidy when its triggers are in step; of a _no_sync table with CRDT columns
\* nothing is said. Between the two halves of a schema change the table is bare.
Tidy(db, t) == Synced(t) \/ ~db.tab[t].crdt => TableInStep(db, t)
Bare(db, t) == Exists(db, t) /\ ~db.tab[t].loose => db.tab[t].trig = {}
AllTidy(db) == \A t \in Names : Tidy(db, t)

\* The triggers in every database the connection could fall back to.
TriggerInv ==
    /\ AllTidy(disk)
    /\ savepoint = None => AllTidy(work)
    /\ savepoint # None =>
        /\ AllTidy(savepoint)
        /\ stmt.op = "copy" => AllTidy(work)
        /\ pc = "running" /\ stmt.op # "copy" => \A t \in Names :
             IF t = stmt.table /\ stmt.op # "create" THEN Bare(work, t) ELSE Tidy(work, t)
        /\ pc = "ran" /\ stmt.op # "copy" => \A t \in Names :
             IF t = NameAfter THEN Bare(work, t) ELSE Tidy(work, t)

LEMMA SameTidy ==
    ASSUME NEW db, NEW d, NEW t \in Names, Tidy(db, t),
           Exists(d, t) => Exists(db, t) /\ SameSchema(d.tab[t], db.tab[t])
    PROVE  Tidy(d, t)
  BY DEF Tidy, TableInStep, SameSchema

LEMMA RowsKeepTidy ==
    ASSUME NEW db, NEW d, NEW ts, RowsOnly(db, d, ts), AllTidy(db)
    PROVE  AllTidy(d)
  BY SameTidy DEF RowsOnly, AllTidy

LEMMA RowsKeepTable ==
    ASSUME NEW db \in Database, NEW d, NEW ts, RowsOnly(db, d, ts), NEW t \in Names, Tidy(db, t)
    PROVE  Tidy(d, t)
  BY SameTidy DEF RowsOnly

\* A statement that runs without a savepoint leaves the triggers in step.
LEMMA EffectTidy ==
    ASSUME NEW db \in Database, NEW s \in Statement, s.hlc <= MaxHlc, Runs(db, s), AllTidy(db),
           call.guard \in BOOLEAN, ~ChangesSchema(s), ~CrossesBoundary(s),
           call.guard /\ s.op \in {"add", "remove", "rename"} /\ Synced(s.table) => s.hlc # 0
    PROVE  AllTidy(Effect(db, s))
  <1> DEFINE t == s.table
             u == s.other
             d == Effect(db, s)
  <1>0. t \in Names /\ u \in Names
    BY DEF Statement
  <1>1. CASE s.op = "query"
    BY <1>1 DEF Effect
  <1>2. CASE s.op \in {"insert", "upsert", "update"}
    BY <1>2, EffectWrites, RowsKeepTidy DEF WritesRow
  <1>3. CASE s.op = "delete"
    <2>1. Exists(db, t)
      BY <1>3, RunsNeeds
    <2>2. \E ts : RemovesRows(db, Effect(db, s), ts)
      BY <1>3, <2>1, EffectDeletes
    <2> QED
      BY <2>2, RowsKeepTidy DEF RemovesRows
  <1>4. CASE s.op = "create"
    <2>1. /\ d.tab[t] \in Table /\ d.tab[t].crdt = (s.hlc # 0) /\ d.tab[t].trig = {}
          /\ d.tab[t].loose = (s.hlc # 0 /\ Unguarded)
          /\ \A n \in Names \ {t} : d.tab[n] = db.tab[n]
      BY <1>4, CreatePuts
    <2>2. s.hlc # 0 => Unguarded
      BY <1>4 DEF ChangesSchema, Unguarded
    <2> HIDE DEF d
    <2>3. Tidy(d, t)
      BY <2>1, <2>2 DEF Tidy, TableInStep
    <2>4. \A n \in Names \ {t} : Tidy(d, n)
      BY <2>1 DEF AllTidy, Tidy, TableInStep, Exists
    <2> QED
      BY <2>3, <2>4 DEF AllTidy, d
  <1>5. CASE s.op \in {"add", "remove"}
    <2>0. Exists(db, t) /\ db.tab[t] \in Table
      BY <1>0, <1>5, RunsNeeds, TableOf
    <2>1. /\ Reshapes(db, d, t)
          /\ d.tab[t].crdt = db.tab[t].crdt /\ d.tab[t].trig = db.tab[t].trig
          /\ d.tab[t].loose = (db.tab[t].loose \/ (db.tab[t].crdt /\ Unguarded))
      BY <1>5, <2>0, EffectAlters
    <2>2. Synced(t) => Unguarded
      BY <1>5 DEF ChangesSchema, Unguarded
    <2> HIDE DEF d
    <2>3. Tidy(d, t)
      <3>1. CASE db.tab[t].crdt
        BY <2>0, <2>1, <2>2, <3>1 DEF Tidy, TableInStep, Table
      <3>2. CASE ~db.tab[t].crdt
        <4>1. TableInStep(db, t)
          BY <1>0, <3>2 DEF AllTidy, Tidy
        <4> QED
          BY <2>0, <2>1, <3>2, <4>1 DEF Tidy, TableInStep
      <3> QED
        BY <3>1, <3>2
    <2>4. \A n \in Names \ {t} : Tidy(d, n)
      BY <2>1 DEF AllTidy, Tidy, TableInStep, Exists, Reshapes
    <2> QED
      BY <2>3, <2>4 DEF AllTidy, d
  <1>6. CASE s.op = "rename"
    <2>0. Exists(db, t) /\ ~Exists(db, u) /\ db.tab[t] \in Table
      BY <1>0, <1>6, RunsNeeds, TableOf
    <2>1. /\ d.tab[u] \in Table /\ d.tab[t] = None
          /\ \A n \in Names \ {t, u} : d.tab[n] = db.tab[n]
          /\ d.tab[u].crdt = db.tab[t].crdt /\ d.tab[u].trig = db.tab[t].trig
          /\ d.tab[u].loose = (db.tab[t].loose \/ (db.tab[t].crdt /\ Unguarded))
      BY <1>6, <2>0, EffectRenames
    <2>2. Synced(u) => Unguarded
      BY <1>6 DEF ChangesSchema, Unguarded, CrossesBoundary
    <2> HIDE DEF d
    <2>3. Tidy(d, u)
      <3>1. CASE db.tab[t].crdt
        BY <2>0, <2>1, <2>2, <3>1 DEF Tidy, TableInStep, Table
      <3>2. CASE ~db.tab[t].crdt
        <4>1. TableInStep(db, t)
          BY <1>0, <3>2 DEF AllTidy, Tidy
        <4> QED
          BY <2>0, <2>1, <3>2, <4>1 DEF Tidy, TableInStep
      <3> QED
        BY <3>1, <3>2
    <2>4. \A n \in Names \ {t, u} : Tidy(d, n)
      BY <2>1 DEF AllTidy, Tidy, TableInStep, Exists
    <2>5. Tidy(d, t)
      BY <2>1 DEF Tidy, TableInStep, Exists
    <2> QED
      BY <2>3, <2>4, <2>5 DEF AllTidy, d
  <1>7. CASE s.op = "drop"
    <2> DEFINE e == Cascade(db, t, RowKeys(db, t))
    <2>1. RowKeys(db, t) \in SUBSET Keys
      BY <1>0, TableOf
    <2>2. AllTidy(e)
      BY <1>0, <2>1, CascadeRemoves, RowsKeepTidy DEF RemovesRows
    <2>3. d.tab[t] = None /\ \A n \in Names \ {t} : d.tab[n] = e.tab[n]
      BY <1>7, RunsNeeds, DropPuts
    <2> HIDE DEF d, e
    <2> QED
      BY <2>2, <2>3 DEF AllTidy, Tidy, TableInStep, Exists, d
  <1>8. CASE s.op = "copy"
    <2>1. Exists(db, t) /\ Exists(db, u)
      BY <1>8, RunsNeeds
    <2>2. Copies(db, d, t, u)
      BY <1>0, <1>8, <2>1, CopyCopies DEF Effect
    <2> HIDE DEF d
    <2>3. /\ \A n \in Names \ {t} : d.tab[n] = db.tab[n]
          /\ d.tab[t].crdt = db.tab[t].crdt /\ d.tab[t].cols = db.tab[t].cols
          /\ d.tab[t].trig = db.tab[t].trig
          /\ d.tab[t].loose = (db.tab[t].loose \/ db.tab[u].loose)
      BY <2>2 DEF Copies
    <2>4. Tidy(d, t)
      BY <1>0, <2>1, <2>3 DEF AllTidy, Tidy, TableInStep
    <2>5. \A n \in Names \ {t} : Tidy(d, n)
      BY <2>3 DEF AllTidy, Tidy, TableInStep, Exists
    <2> QED
      BY <2>4, <2>5 DEF AllTidy, d
  <1> QED
    BY <1>1, <1>2, <1>3, <1>4, <1>5, <1>6, <1>7, <1>8 DEF Statement, Ops

\* A schema change in its savepoint leaves the table bare under its new name.
LEMMA EffectBare ==
    ASSUME NEW db \in Database, NEW s \in Statement, s.hlc <= MaxHlc, Runs(db, s),
           call.guard \in BOOLEAN, ChangesSchema(s),
           \A n \in Names : IF n = s.table /\ s.op # "create" THEN Bare(db, n) ELSE Tidy(db, n)
    PROVE  \A n \in Names :
             IF n = (IF s.op = "rename" THEN s.other ELSE s.table)
             THEN Bare(Effect(db, s), n) ELSE Tidy(Effect(db, s), n)
  <1> DEFINE t == s.table
             u == s.other
             d == Effect(db, s)
  <1>0. t \in Names /\ u \in Names /\ ~Unguarded /\ s.op \in {"create", "add", "remove", "rename"}
    BY DEF Statement, ChangesSchema, Unguarded
  <1>1. CASE s.op = "create"
    <2>1. d.tab[t].trig = {} /\ \A n \in Names \ {t} : d.tab[n] = db.tab[n]
      BY <1>1, CreatePuts
    <2> HIDE DEF d
    <2> QED
      BY <1>1, <2>1 DEF Bare, Tidy, TableInStep, Exists, d
  <1>2. CASE s.op \in {"add", "remove"}
    <2>0. Exists(db, t) /\ db.tab[t] \in Table
      BY <1>0, <1>2, RunsNeeds, TableOf
    <2>1. /\ Reshapes(db, d, t)
          /\ d.tab[t].crdt = db.tab[t].crdt /\ d.tab[t].trig = db.tab[t].trig
          /\ d.tab[t].loose = (db.tab[t].loose \/ (db.tab[t].crdt /\ Unguarded))
      BY <1>2, <2>0, EffectAlters
    <2> HIDE DEF d
    <2>2. Bare(d, t)
      BY <1>0, <1>2, <2>0, <2>1 DEF Bare
    <2>3. \A n \in Names \ {t} : Tidy(d, n)
      BY <1>2, <2>1 DEF Tidy, TableInStep, Exists, Reshapes
    <2> QED
      BY <1>2, <2>2, <2>3 DEF d
  <1>3. CASE s.op = "rename"
    <2>0. Exists(db, t) /\ ~Exists(db, u) /\ db.tab[t] \in Table
      BY <1>0, <1>3, RunsNeeds, TableOf
    <2>1. /\ d.tab[u] \in Table /\ d.tab[t] = None
          /\ \A n \in Names \ {t, u} : d.tab[n] = db.tab[n]
          /\ d.tab[u].crdt = db.tab[t].crdt /\ d.tab[u].trig = db.tab[t].trig
          /\ d.tab[u].loose = (db.tab[t].loose \/ (db.tab[t].crdt /\ Unguarded))
      BY <1>3, <2>0, EffectRenames
    <2> HIDE DEF d
    <2>2. Bare(d, u)
      BY <1>0, <1>3, <2>0, <2>1 DEF Bare
    <2>3. \A n \in Names \ {t, u} : Tidy(d, n)
      BY <1>3, <2>1 DEF Tidy, TableInStep, Exists
    <2>4. Tidy(d, t)
      BY <2>1 DEF Tidy, TableInStep, Exists
    <2> QED
      BY <1>3, <2>2, <2>3, <2>4 DEF d
  <1> QED
    BY <1>0, <1>1, <1>2, <1>3

\* Stamps leave the triggers in step.
LEMMA StampsKeepTidy ==
    ASSUME NEW db \in Database, NEW d, NEW ts \in SUBSET Names, \A n \in ts : Exists(db, n),
           NEW h, Stamps(db, d, ts, h), AllTidy(db)
    PROVE  AllTidy(d)
  <1>1. \A n \in Names : Exists(d, n) => Exists(db, n) /\ SameSchema(d.tab[n], db.tab[n])
    BY DEF Stamps, Exists, SameSchema
  <1> QED
    BY <1>1, SameTidy DEF AllTidy

LEMMA ReopenTidy ==
    ASSUME TypeInv, Reopen, AllTidy(disk)
    PROVE  AllTidy(disk')
  <1> DEFINE ts == {t \in Names : IsCrdt(disk, t) /\ Unstamped(disk, t) # {}}
  <1>1. disk.hlc + 1 <= MaxHlc /\ disk \in Database
    BY RoomForHlc, MaxHlcNat DEF Reopen, TypeInv, BoundInv, TypeOK
  <1>2. disk' = disk \/ Stamps(disk, disk', ts, disk.hlc + 1)
    BY <1>1, StampUnstampedTyped DEF Reopen
  <1>3. ts \in SUBSET Names /\ \A n \in ts : Exists(disk, n)
    BY DEF IsCrdt
  <1> HIDE DEF ts
  <1> QED
    BY <1>1, <1>2, <1>3, StampsKeepTidy

LEMMA InstallTidy ==
    ASSUME TypeInv, NEW t \in Names, InstallCrdt(t), AllTidy(disk)
    PROVE  AllTidy(disk')
  <1> DEFINE on == EnsureCrdt(disk, t)
  <1>1. disk \in Database /\ Exists(disk, t)
    BY DEF TypeInv, TypeOK, InstallCrdt
  <1>2. /\ Reshapes(disk, on, t)
        /\ on.tab[t].crdt /\ on.tab[t].cols = disk.tab[t].cols
        /\ on.tab[t].loose = disk.tab[t].loose
        /\ IF \E g \in disk.tab[t].trig : g.of = t
           THEN on.tab[t].trig = disk.tab[t].trig
           ELSE on.tab[t].trig = disk.tab[t].trig \cup {[of |-> t, cols |-> Shipped(disk.tab[t].cols)]}
    BY <1>1, EnsureCrdtReshapes
  <1>3. disk' = on \/ Stamps(on, disk', {t}, clock + 1)
    BY InstallTyped
  <1> HIDE DEF on
  <1>4. Tidy(on, t)
    <2>1. SUFFICES ASSUME Synced(t), ~on.tab[t].loose
                   PROVE  on.tab[t].trig = {[of |-> t, cols |-> Shipped(disk.tab[t].cols)]}
      BY <1>2 DEF Tidy, TableInStep
    <2>2. disk.tab[t].trig = IF disk.tab[t].crdt THEN {[of |-> t, cols |-> Shipped(disk.tab[t].cols)]} ELSE {}
      BY <1>1, <1>2, <2>1 DEF AllTidy, Tidy, TableInStep
    <2>3. [of |-> t, cols |-> Shipped(disk.tab[t].cols)].of = t
      OBVIOUS
    <2> QED
      BY <1>2, <2>2, <2>3
  <1>5. \A n \in Names \ {t} : Tidy(on, n)
    BY <1>2 DEF AllTidy, Tidy, TableInStep, Exists, Reshapes
  <1>6. AllTidy(on) /\ on \in Database /\ Exists(on, t)
    BY <1>2, <1>4, <1>5 DEF AllTidy, Reshapes
  <1>7. {t} \in SUBSET Names /\ \A n \in {t} : Exists(on, n)
    BY <1>6
  <1>8. Stamps(on, disk', {t}, clock + 1) => AllTidy(disk')
    BY <1>6, <1>7, StampsKeepTidy
  <1> QED
    BY <1>3, <1>6, <1>8

LEMMA GateAndHlcKeepTidy ==
    ASSUME NEW db \in Database, AllTidy(db), NEW x
    PROVE  AllTidy([db EXCEPT !.hlc = x]) /\ AllTidy([db EXCEPT !.gate = x])
  <1>1. [db EXCEPT !.hlc = x].tab = db.tab /\ [db EXCEPT !.gate = x].tab = db.tab
    BY DEF Database
  <1> QED
    BY <1>1 DEF AllTidy, Tidy, TableInStep, Exists

LEMMA StepTriggers ==
    TypeInv /\ Control /\ OriginInv /\ TriggerInv /\ [Next]_vars => TriggerInv'
  <1> SUFFICES ASSUME TypeInv, Control, OriginInv, TriggerInv, [Next]_vars PROVE TriggerInv'
    OBVIOUS
  <1>0. /\ disk \in Database /\ work \in Database /\ savepoint \in Database \cup {None}
        /\ AllTidy(disk) /\ (savepoint = None => AllTidy(work))
        /\ savepoint # None => AllTidy(savepoint)
    BY DEF TypeInv, TypeOK, TriggerInv
  <1>1. FileInv /\ GateInv /\ TxInv /\ UndoInv /\ ConnInv /\ ShapeInv /\ call.guard \in BOOLEAN
    BY DEF Control, ShapeInv
  <1>2. Moves
    BY StepMoves DEF TypeInv
  <1>a. ASSUME AllTidy(disk'), AllTidy(work'), savepoint' = None PROVE TriggerInv'
    BY <1>a DEF TriggerInv
  <1>3. CASE Stays
    <2>1. CASE savepoint = None
      BY <1>0, <1>3, <2>1, <1>a DEF Stays
    <2>2. CASE savepoint # None
      BY <1>3, <2>2 DEF Stays, TriggerInv, NameAfter
    <2> QED
      BY <2>1, <2>2
  <1>4. CASE Declines
    <2>1. savepoint = None
      BY <1>1, <1>4 DEF Declines, TxInv, Writing
    <2> QED
      BY <1>0, <1>4, <1>a, <2>1 DEF Declines
  <1>5. CASE RollsBack \/ BacksUp
    BY <1>0, <1>5, <1>a DEF RollsBack, RolledBack, BacksUp
  <1>6. CASE SetsHlc
    <2>1. AllTidy(work')
      BY <1>0, <1>6, GateAndHlcKeepTidy DEF SetsHlc
    <2> QED
      BY <1>0, <1>6, <1>a, <2>1 DEF SetsHlc
  <1>7. CASE BeginSchemaChange
    <2> DEFINE t == stmt.table
               d == DropTriggers(work, t)
    <2>1. /\ pc = "prepared" /\ savepoint = None /\ stmt \in Statement /\ t \in Names /\ Synced(t)
          /\ stmt.op \in {"create", "add", "remove", "rename"}
      BY <1>1, <1>7 DEF BeginSchemaChange, TxInv, ShapeInv, UndoInv, Handling, Statement,
         ChangesSchema
    <2>2. /\ savepoint' = work /\ UNCHANGED <<disk, stmt>> /\ pc' = "running"
          /\ work' = IF stmt.op # "create" /\ IsCrdt(work, t) THEN d ELSE work
      BY <1>7 DEF BeginSchemaChange, Start, Settle
    <2>3. AllTidy(work)
      BY <1>0, <2>1
    <2>4. CASE stmt.op # "create" /\ IsCrdt(work, t)
      <3>1. /\ Reshapes(work, d, t) /\ d.tab[t].loose = work.tab[t].loose
            /\ d.tab[t].trig = {g \in work.tab[t].trig : g.of # t}
        BY <1>0, <2>1, <2>4, TriggersReshape DEF IsCrdt
      <3>2. work' = d
        BY <2>2, <2>4
      <3> HIDE DEF d
      <3>3. Bare(d, t)
        <4>1. SUFFICES ASSUME ~work.tab[t].loose PROVE {g \in work.tab[t].trig : g.of # t} = {}
          BY <3>1 DEF Bare
        <4>2. work.tab[t].trig = {[of |-> t, cols |-> Shipped(work.tab[t].cols)]}
          BY <2>1, <2>3, <2>4, <4>1 DEF AllTidy, Tidy, TableInStep, IsCrdt
        <4> QED
          BY <4>2
      <3>4. \A n \in Names \ {t} : Tidy(d, n)
        BY <2>3, <3>1 DEF AllTidy, Tidy, TableInStep, Exists, Reshapes
      <3>5. savepoint' # None /\ UNCHANGED stmt /\ stmt.op # "copy"
        BY <1>0, <2>1, <2>2, NotNone
      <3> HIDE DEF t
      <3>6. \A n \in Names : IF n = t /\ stmt.op # "create" THEN Bare(work', n) ELSE Tidy(work', n)
        BY <2>4, <3>2, <3>3, <3>4
      <3> QED
        BY <1>0, <2>2, <2>3, <3>5, <3>6 DEF TriggerInv, t
    <2>5. CASE ~(stmt.op # "create" /\ IsCrdt(work, t))
      <3>1. work' = work
        BY <2>2, <2>5
      <3>2. stmt.op # "create" => Bare(work, t)
        <4>1. TableInStep(work, t)
          BY <2>1, <2>3 DEF AllTidy, Tidy
        <4> QED
          BY <2>5, <4>1 DEF Bare, TableInStep, IsCrdt
      <3>3. savepoint' # None /\ UNCHANGED stmt /\ stmt.op # "copy"
        BY <1>0, <2>1, <2>2, NotNone
      <3> HIDE DEF t
      <3>4. \A n \in Names : IF n = t /\ stmt.op # "create" THEN Bare(work, n) ELSE Tidy(work, n)
        BY <2>3, <3>2 DEF AllTidy
      <3> QED
        BY <1>0, <2>2, <2>3, <3>1, <3>3, <3>4 DEF TriggerInv, t
    <2> QED
      BY <2>4, <2>5
  <1>8. ASSUME NEW s \in Statements, BeginCopy(s) PROVE TriggerInv'
    <2>1. pc = "closure" /\ savepoint' = work /\ UNCHANGED disk /\ stmt'.op = "copy"
          /\ work' = [work EXCEPT !.gate = FALSE]
      BY <1>8 DEF BeginCopy, NextStatement, Start, Settle
    <2>2. AllTidy(work)
      BY <1>0, <1>1, <2>1 DEF TxInv
    <2>3. AllTidy(work')
      BY <1>0, <2>1, <2>2, GateAndHlcKeepTidy
    <2>4. savepoint' # None
      BY <1>0, <2>1, NotNone
    <2> QED
      BY <1>0, <2>1, <2>2, <2>3, <2>4 DEF TriggerInv
  <1>9. CASE Execute
    <2>1. /\ pc = "running" /\ Runs(work, stmt) /\ UNCHANGED <<savepoint, auto>>
          /\ work' = Effect(work, stmt)
          /\ disk' = IF Held THEN disk ELSE work'
          /\ InSavepoint => pc' = "ran" /\ UNCHANGED stmt
      BY <1>9 DEF Execute, Settle
    <2>2. stmt \in Statement /\ stmt.hlc <= clock
      BY <1>1, <2>1 DEF ShapeInv, TypeInv, BoundInv, Handling
    <2>3. stmt.hlc <= MaxHlc
      BY <2>2, MaxHlcNat DEF Statement, TypeInv, TypeOK
    <2>4. ~CrossesBoundary(stmt)
          /\ (call.guard /\ stmt.op \in {"add", "remove", "rename"} /\ Synced(stmt.table)
                => stmt.hlc # 0)
      BY <1>1, <2>1 DEF ShapeInv, Handling, OriginInv
    <2>5. CASE savepoint = None
      <3>1. ~InSavepoint
        BY <1>1, <2>1, <2>5, NoneHasNoGate DEF GateInv
      <3>2. AllTidy(work')
        BY <1>0, <1>1, <2>1, <2>2, <2>3, <2>4, <2>5, <3>1, EffectTidy DEF InSavepoint
      <3> QED
        BY <1>0, <1>a, <2>1, <2>5, <3>2
    <2>6. CASE savepoint # None
      <3>1. InSavepoint /\ disk' = disk
        BY <1>1, <2>1, <2>6 DEF TxInv, Held
      <3>2. CASE stmt.op = "copy"
        <4>1. AllTidy(work) /\ ~ChangesSchema(stmt)
          BY <2>1, <2>6, <3>2 DEF TriggerInv, ChangesSchema
        <4>2. AllTidy(work')
          BY <1>0, <1>1, <2>1, <2>2, <2>3, <2>4, <4>1, EffectTidy
        <4> QED
          BY <1>0, <2>1, <2>6, <3>1, <3>2, <4>2 DEF TriggerInv
      <3>3. CASE stmt.op # "copy"
        <4>1. ChangesSchema(stmt)
          BY <3>1, <3>3 DEF InSavepoint
        <4>2. \A n \in Names : IF n = stmt.table /\ stmt.op # "create" THEN Bare(work, n)
                               ELSE Tidy(work, n)
          BY <2>1, <2>6, <3>3 DEF TriggerInv
        <4>3. \A n \in Names : IF n = NameAfter THEN Bare(work', n) ELSE Tidy(work', n)
          <5>1. \A n \in Names : IF n = (IF stmt.op = "rename" THEN stmt.other ELSE stmt.table)
                                 THEN Bare(Effect(work, stmt), n)
                                 ELSE Tidy(Effect(work, stmt), n)
            BY <1>0, <1>1, <2>1, <2>2, <2>3, <4>1, <4>2, EffectBare
          <5> QED
            BY <2>1, <5>1 DEF NameAfter
        <4>4. NameAfter' = NameAfter
          BY <2>1, <3>1 DEF NameAfter
        <4> QED
          BY <1>0, <2>1, <2>6, <3>1, <3>3, <4>3, <4>4 DEF TriggerInv
      <3> QED
        BY <3>2, <3>3
    <2> QED
      BY <2>5, <2>6
  <1>10. CASE CompleteSchemaChange
    <2> DEFINE t == NameAfter
               d == SetupTriggers(work, t)
    <2>1. /\ pc = "ran" /\ stmt.op # "copy" /\ savepoint' = None
          /\ work' = (IF IsCrdt(work, t) THEN d ELSE work) /\ disk' \in {disk, work'}
      BY <1>10 DEF CompleteSchemaChange, Settle
    <2>2. savepoint # None /\ stmt \in Statement /\ ChangesSchema(stmt) /\ Synced(stmt.table)
          /\ ~CrossesBoundary(stmt)
      BY <1>1, <2>1, NoneHasNoGate DEF GateInv, ShapeInv, Handling, InSavepoint, ChangesSchema
    <2>3. t \in Names /\ Synced(t)
      BY <2>2 DEF NameAfter, Statement, CrossesBoundary, ChangesSchema
    <2>4. \A n \in Names : IF n = t THEN Bare(work, n) ELSE Tidy(work, n)
      BY <2>1, <2>2 DEF TriggerInv
    <2>5. AllTidy(work')
      <3>1. CASE IsCrdt(work, t)
        <4>1. /\ Reshapes(work, d, t)
              /\ d.tab[t].crdt = work.tab[t].crdt /\ d.tab[t].cols = work.tab[t].cols
              /\ d.tab[t].loose = work.tab[t].loose
              /\ d.tab[t].trig = {g \in work.tab[t].trig : g.of # t}
                                   \cup {[of |-> t, cols |-> Shipped(work.tab[t].cols)]}
          BY <1>0, <2>3, <3>1, TriggersReshape DEF IsCrdt
        <4>2. work' = d
          BY <2>1, <3>1
        <4> HIDE DEF d, t
        <4>3. Tidy(d, t)
          BY <2>3, <2>4, <3>1, <4>1 DEF Tidy, TableInStep, Bare, IsCrdt
        <4>4. \A n \in Names \ {t} : Tidy(d, n)
          BY <2>4, <4>1 DEF Tidy, TableInStep, Exists, Reshapes
        <4> QED
          BY <4>2, <4>3, <4>4 DEF AllTidy
      <3>2. CASE ~IsCrdt(work, t)
        <4>1. work' = work
          BY <2>1, <3>2
        <4>2. Tidy(work, t)
          BY <2>3, <2>4, <3>2 DEF Tidy, TableInStep, Bare, IsCrdt
        <4> HIDE DEF t
        <4> QED
          BY <2>4, <4>1, <4>2 DEF AllTidy
      <3> QED
        BY <3>1, <3>2
    <2> QED
      BY <1>0, <1>a, <2>1, <2>5
  <1>11. CASE EndCopy
    <2>1. /\ pc = "ran" /\ stmt.op = "copy" /\ savepoint' = None
          /\ work' = [work EXCEPT !.gate = savepoint.gate] /\ disk' \in {disk, work'}
      BY <1>11 DEF EndCopy, Settle
    <2>2. savepoint # None
      BY <1>1, <2>1, NoneHasNoGate DEF GateInv
    <2>3. AllTidy(work)
      BY <2>1, <2>2 DEF TriggerInv
    <2>4. AllTidy(work')
      BY <1>0, <2>1, <2>3, GateAndHlcKeepTidy
    <2> QED
      BY <1>0, <1>a, <2>1, <2>4
  <1>12. CASE Commit \/ CommitFails
    <2>1. pc = "closure" /\ UNCHANGED savepoint /\ disk' \in {disk, work} /\ work' \in {disk, work}
      BY <1>12 DEF Commit, CommitFails, Settle
    <2>2. savepoint = None
      BY <1>1, <2>1 DEF TxInv
    <2> QED
      BY <1>0, <1>a, <2>1, <2>2
  <1>13. CASE Reopen
    <2>1. UNCHANGED savepoint /\ work' = disk' /\ savepoint = None
      BY <1>1, <1>13 DEF Reopen, TxInv, Writing
    <2>2. AllTidy(disk')
      BY <1>0, <1>13, ReopenTidy
    <2> QED
      BY <1>a, <2>1, <2>2
  <1>14. ASSUME NEW t \in Names, InstallCrdt(t) PROVE TriggerInv'
    <2>1. UNCHANGED savepoint /\ work' = disk' /\ savepoint = None
      BY <1>1, <1>14 DEF InstallCrdt, TxInv, Writing
    <2>2. AllTidy(disk')
      BY <1>0, <1>14, InstallTidy
    <2> QED
      BY <1>a, <2>1, <2>2
  <1>15. CASE Begins
    <2>1. UNCHANGED <<disk, work, savepoint>> /\ savepoint = None
      BY <1>1, <1>15 DEF Begins, BeginWrite, TxInv, Writing
    <2> QED
      BY <1>0, <1>a, <2>1
  <1> QED
    BY <1>2, <1>3, <1>4, <1>5, <1>6, <1>7, <1>8, <1>9, <1>10, <1>11, <1>12, <1>13, <1>14, <1>15
       DEF Moves, Writes, Ends

\* The triggers of every synced table match its schema after every statement and in the
\* file, if they did when the handle was opened (TriggersInStep).
THEOREM TriggersKept ==
    ASSUME \A t \in Names : TableInStep(FirstDb, t)
    PROVE  Spec => []TriggersInStep
  <1> DEFINE I == TypeInv /\ Control /\ OriginInv /\ TriggerInv
  <1>1. Init => I
    <2> SUFFICES ASSUME Init PROVE I
      OBVIOUS
    <2>1. AllTidy(FirstDb)
      BY DEF AllTidy, Tidy
    <2>2. TriggerInv
      BY <2>1 DEF Init, TriggerInv
    <2> QED
      BY <2>2, InitTypes, InitControl, InitOrigin
  <1>2. I /\ [Next]_vars => I'
    BY StepTypes, StepControl, StepOrigin, StepTriggers
  <1>3. I => TriggersInStep
    <2> SUFFICES ASSUME I PROVE TriggersInStep
      OBVIOUS
    <2>1. AllTidy(disk) /\ (pc = "closure" => AllTidy(work))
      BY DEF TriggerInv, Control, TxInv
    <2> QED
      BY <2>1 DEF TriggersInStep, InStep, AllTidy, Tidy, Synced
  <1> QED
    BY <1>1, <1>2, <1>3, PTL DEF Spec

-----------------------------------------------------------------------------
(* Foreign keys                                                            *)

LEMMA RowsOfOthers ==
    ASSUME NEW db, NEW d, NEW n, d.tab[n] = db.tab[n]
    PROVE  RowKeys(d, n) = RowKeys(db, n)
  BY DEF RowKeys, Exists

LEMMA WritesKeys ==
    ASSUME NEW db \in Database, NEW d, NEW t \in Names, NEW k \in Keys, NEW c, NEW h,
           Exists(db, t), WritesRow(db, d, t, k, c, h)
    PROVE  /\ RowKeys(d, t) = RowKeys(db, t) \cup {k}
           /\ \A n \in Names \ {t} : RowKeys(d, n) = RowKeys(db, n)
           /\ d.ref = db.ref
  <1>1. RowsOnly(db, d, {t}) /\ d.tab[t].rows[k] \in Row
        /\ \A j \in Keys \ {k} : d.tab[t].rows[j] = db.tab[t].rows[j]
    BY DEF WritesRow
  <1>2. Exists(d, t) /\ d.ref = db.ref /\ \A n \in Names \ {t} : d.tab[n] = db.tab[n]
    BY <1>1 DEF RowsOnly
  <1>3. RowKeys(d, t) = RowKeys(db, t) \cup {k}
    BY <1>1, <1>2, NotNone DEF RowKeys
  <1> QED
    BY <1>2, <1>3, RowsOfOthers

LEMMA RemovesKeys ==
    ASSUME NEW db, NEW d, NEW ts, RemovesRows(db, d, ts)
    PROVE  /\ \A n \in Names : RowKeys(d, n) \subseteq RowKeys(db, n)
           /\ \A n \in Names \ ts : RowKeys(d, n) = RowKeys(db, n)
           /\ d.ref = db.ref
  <1>1. RowsOnly(db, d, ts)
    BY DEF RemovesRows
  <1>2. \A n \in Names : RowKeys(d, n) \subseteq RowKeys(db, n)
    BY <1>1 DEF RemovesRows, RowsOnly, RowKeys
  <1> QED
    BY <1>1, <1>2, RowsOfOthers DEF RowsOnly

\* With foreign keys on no statement leaves a child row without its parent.
LEMMA EffectOrphans ==
    ASSUME NEW db \in Database, NEW s \in Statement, s.hlc <= MaxHlc, Runs(db, s), conn.fk,
           s.op # "copy", s.op = "rename" => s.other # Child, Orphans(db) = {}
    PROVE  Orphans(Effect(db, s)) = {}
  <1> DEFINE t == s.table
             u == s.other
             d == Effect(db, s)
  <1>0. t \in Names /\ u \in Names /\ Child \in Names /\ db.ref \in Names /\ s.key \in Keys
        /\ s.col \in Cols
    BY WriteConstants DEF Statement, Database
  <1>1. CASE s.op = "query"
    BY <1>1 DEF Effect
  <1>2. CASE s.op \in {"insert", "upsert", "update"}
    <2>1. Exists(db, t) /\ WritesRow(db, d, t, s.key, s.col, s.hlc)
      BY <1>2, RunsNeeds, EffectWrites
    <2> HIDE DEF d
    <2>2. /\ RowKeys(d, t) = RowKeys(db, t) \cup {s.key}
          /\ \A n \in Names \ {t} : RowKeys(d, n) = RowKeys(db, n)
          /\ d.ref = db.ref
      BY <1>0, <2>1, WritesKeys
    <2>3. t = Child => s.key \in RowKeys(db, db.ref) \cup RowKeys(db, Child)
      BY <1>2, RunsNeeds
    <2> QED
      BY <1>0, <2>2, <2>3 DEF Orphans, d
  <1>3. CASE s.op = "delete"
    <2> DEFINE ks == {s.key} \cap RowKeys(db, t)
               e == DeleteRows(db, t, ks)
               cs == Cascaded(e, t, ks)
    <2>1. Exists(db, t)
      BY <1>3, RunsNeeds
    <2>2. /\ t # Child => RowKeys(d, t) = RowKeys(db, t) \ ks
          /\ RowKeys(d, Child) = IF t = Child THEN RowKeys(db, Child) \ ks
                                 ELSE RowKeys(db, Child) \ cs
          /\ RemovesRows(db, d, {t} \cup (IF cs = {} THEN {} ELSE {Child}))
      BY <1>3, <2>1, EffectDeletes
    <2>3. ks \in SUBSET Keys
      BY <1>0
    <2>4. e.ref = db.ref /\ (t # Child => RowKeys(e, Child) = RowKeys(db, Child))
      <3> HIDE DEF ks
      <3>1. RemovesRows(db, e, {t})
        BY <1>0, <2>1, <2>3, DeleteRemoves
      <3> HIDE DEF e
      <3> QED
        BY <1>0, <3>1, RemovesKeys
    <2>5. t = db.ref /\ t # Child => cs = ks \cap RowKeys(db, Child)
      BY <2>4 DEF Cascaded
    <2> HIDE DEF d, cs, ks, e
    <2>6. /\ \A n \in Names : RowKeys(d, n) \subseteq RowKeys(db, n)
          /\ \A n \in Names \ {t, Child} : RowKeys(d, n) = RowKeys(db, n)
          /\ d.ref = db.ref
      BY <2>2, RemovesKeys
    <2>7. CASE db.ref = Child
      BY <2>6, <2>7 DEF Orphans, d
    <2>8. CASE db.ref # Child /\ t = Child
      BY <1>0, <2>6, <2>8 DEF Orphans, d
    <2>9. CASE db.ref # Child /\ t # Child /\ t # db.ref
      BY <1>0, <2>6, <2>9 DEF Orphans, d
    <2>10. CASE db.ref # Child /\ t # Child /\ t = db.ref
      BY <1>0, <2>2, <2>5, <2>6, <2>10 DEF Orphans, d
    <2> QED
      BY <2>7, <2>8, <2>9, <2>10
  <1>4. CASE s.op = "create"
    <2>1. /\ SameRest(db, d) /\ d.tab[t].rows = NoRows
          /\ \A n \in Names \ {t} : d.tab[n] = db.tab[n]
      BY <1>4, CreatePuts
    <2>2. ~Exists(db, t)
      BY <1>4, RunsNeeds
    <2> HIDE DEF d
    <2>3. RowKeys(d, t) = {} /\ RowKeys(db, t) = {}
      BY <2>1, <2>2 DEF RowKeys, NoRows
    <2>4. \A n \in Names : RowKeys(d, n) = RowKeys(db, n)
      BY <2>1, <2>3, RowsOfOthers
    <2> QED
      BY <1>0, <2>1, <2>4 DEF Orphans, SameRest, d
  <1>5. CASE s.op \in {"add", "remove"}
    <2>1. Exists(db, t)
      BY <1>5, RunsNeeds
    <2>2. Reshapes(db, d, t)
      BY <1>5, <2>1, EffectAlters
    <2> HIDE DEF d
    <2>3. RowKeys(d, t) = RowKeys(db, t)
      BY <2>1, <2>2 DEF RowKeys, Reshapes
    <2>4. \A n \in Names : RowKeys(d, n) = RowKeys(db, n)
      BY <2>2, <2>3, RowsOfOthers DEF Reshapes
    <2> QED
      BY <1>0, <2>2, <2>4 DEF Orphans, SameRest, Reshapes, d
  <1>6. CASE s.op = "rename"
    <2>1. Exists(db, t) /\ ~Exists(db, u) /\ u # Child
      BY <1>6, RunsNeeds
    <2>2. /\ d.ref = (IF db.ref = t THEN u ELSE db.ref)
          /\ d.tab[u] \in Table /\ d.tab[t] = None /\ d.tab[u].rows = db.tab[t].rows
          /\ \A n \in Names \ {t, u} : d.tab[n] = db.tab[n]
      BY <1>6, <2>1, EffectRenames
    <2> HIDE DEF d
    <2>3. RowKeys(d, t) = {} /\ RowKeys(d, u) = RowKeys(db, t) /\ RowKeys(db, u) = {}
      BY <2>1, <2>2, NotNone DEF RowKeys, Exists
    <2>4. \A n \in Names \ {t, u} : RowKeys(d, n) = RowKeys(db, n)
      BY <2>2, RowsOfOthers
    <2> QED
      BY <1>0, <2>1, <2>2, <2>3, <2>4 DEF Orphans, d
  <1>7. CASE s.op = "drop"
    <2> DEFINE ks == RowKeys(db, t)
               e == Cascade(db, t, ks)
               cs == Cascaded(db, t, ks)
    <2>1. ks \in SUBSET Keys
      BY <1>0, TableOf
    <2>2. d.tab[t] = None /\ SameRest(e, d) /\ \A n \in Names \ {t} : d.tab[n] = e.tab[n]
      BY <1>7, RunsNeeds, DropPuts
    <2>3. /\ RemovesRows(db, e, IF cs = {} THEN {} ELSE {Child})
          /\ RowKeys(e, Child) = RowKeys(db, Child) \ cs
      <3> HIDE DEF ks
      <3> QED
        BY <1>0, <2>1, CascadeRemoves
    <2>4. t = db.ref => cs = ks \cap RowKeys(db, Child)
      BY DEF Cascaded
    <2> HIDE DEF d, e, cs
    <2>5. RowKeys(d, t) = {} /\ \A n \in Names \ {t} : RowKeys(d, n) = RowKeys(e, n)
      BY <2>2, RowsOfOthers DEF RowKeys, Exists
    <2>6. /\ \A n \in Names \ {Child} : RowKeys(e, n) = RowKeys(db, n)
          /\ d.ref = db.ref
      BY <2>2, <2>3, RemovesKeys DEF SameRest
    <2>7. CASE t = Child
      BY <2>5, <2>7 DEF Orphans, d
    <2>8. CASE t # Child /\ t = db.ref
      BY <1>0, <2>3, <2>4, <2>5, <2>6, <2>8 DEF Orphans, d
    <2>9. CASE t # Child /\ t # db.ref
      <3>1. RowKeys(d, Child) \subseteq RowKeys(db, Child)
        BY <1>0, <2>3, <2>5, <2>9
      <3>2. CASE db.ref = Child
        BY <2>6, <3>2 DEF Orphans, d
      <3>3. CASE db.ref # Child
        BY <1>0, <2>5, <2>6, <2>9, <3>1, <3>3 DEF Orphans, d
      <3> QED
        BY <3>2, <3>3
    <2> QED
      BY <2>7, <2>8, <2>9
  <1> QED
    BY <1>1, <1>2, <1>3, <1>4, <1>5, <1>6, <1>7 DEF Statement, Ops

\* While the handle knows of every rollback, a call that is not in schema mode keeps the
\* foreign keys in all it could commit.
OrphanInv ==
    ~unnoted =>
        /\ Orphans(disk) = {}
        /\ pc \in Writing /\ ~call.schema =>
             Orphans(work) = {} /\ (savepoint # None => Orphans(savepoint) = {})

LEMMA SameOrphans ==
    ASSUME NEW db, NEW d, d.ref = db.ref, \A n \in Names : RowKeys(d, n) = RowKeys(db, n),
           db.ref \in Names
    PROVE  Orphans(d) = Orphans(db)
  BY WriteConstants DEF Orphans

LEMMA GateAndHlcKeepRows ==
    ASSUME NEW db \in Database, NEW x
    PROVE  /\ Orphans([db EXCEPT !.hlc = x]) = Orphans(db)
           /\ Orphans([db EXCEPT !.gate = x]) = Orphans(db)
  <1>1. /\ [db EXCEPT !.hlc = x].tab = db.tab /\ [db EXCEPT !.gate = x].tab = db.tab
        /\ [db EXCEPT !.hlc = x].ref = db.ref /\ [db EXCEPT !.gate = x].ref = db.ref
    BY DEF Database
  <1> QED
    BY <1>1 DEF Orphans, RowKeys, Exists

LEMMA ReshapesKeepRows ==
    ASSUME NEW db \in Database, NEW d, NEW t \in Names, Exists(db, t), Reshapes(db, d, t)
    PROVE  Orphans(d) = Orphans(db)
  <1>1. RowKeys(d, t) = RowKeys(db, t)
    BY DEF RowKeys, Reshapes
  <1>2. \A n \in Names : RowKeys(d, n) = RowKeys(db, n)
    BY <1>1, RowsOfOthers DEF Reshapes
  <1>3. d.ref = db.ref /\ db.ref \in Names
    BY DEF Reshapes, SameRest, Database
  <1> QED
    BY <1>2, <1>3, SameOrphans

LEMMA StampsKeepRows ==
    ASSUME NEW db \in Database, NEW d, NEW ts \in SUBSET Names, \A n \in ts : Exists(db, n),
           NEW h, Stamps(db, d, ts, h)
    PROVE  Orphans(d) = Orphans(db)
  <1>1. \A n \in ts : RowKeys(d, n) = RowKeys(db, n)
    <2> SUFFICES ASSUME NEW n \in ts PROVE RowKeys(d, n) = RowKeys(db, n)
      OBVIOUS
    <2>1. d.tab[n] \in Table /\ Exists(d, n) /\ Exists(db, n)
      BY NotNone DEF Stamps, Exists
    <2>2. \A k \in Keys : IF k \in Unstamped(db, n) THEN d.tab[n].rows[k] # None
                          ELSE d.tab[n].rows[k] = db.tab[n].rows[k]
      BY NotNone DEF Stamps
    <2>3. Unstamped(db, n) \subseteq RowKeys(db, n)
      BY DEF Unstamped
    <2> QED
      BY <2>1, <2>2, <2>3 DEF RowKeys
  <1>2. \A n \in Names : RowKeys(d, n) = RowKeys(db, n)
    BY <1>1, RowsOfOthers DEF Stamps
  <1>3. d.ref = db.ref /\ db.ref \in Names
    BY DEF Stamps, Database
  <1> QED
    BY <1>2, <1>3, SameOrphans

LEMMA ReopenOrphans ==
    ASSUME TypeInv, Reopen
    PROVE  Orphans(disk') = Orphans(disk)
  <1> DEFINE ts == {t \in Names : IsCrdt(disk, t) /\ Unstamped(disk, t) # {}}
  <1>1. disk.hlc + 1 <= MaxHlc /\ disk \in Database
    BY RoomForHlc, MaxHlcNat DEF Reopen, TypeInv, BoundInv, TypeOK
  <1>2. disk' = disk \/ Stamps(disk, disk', ts, disk.hlc + 1)
    BY <1>1, StampUnstampedTyped DEF Reopen
  <1>3. ts \in SUBSET Names /\ \A n \in ts : Exists(disk, n)
    BY DEF IsCrdt
  <1> HIDE DEF ts
  <1> QED
    BY <1>1, <1>2, <1>3, StampsKeepRows

LEMMA InstallOrphans ==
    ASSUME TypeInv, NEW t \in Names, InstallCrdt(t)
    PROVE  Orphans(disk') = Orphans(disk)
  <1> DEFINE on == EnsureCrdt(disk, t)
  <1>1. disk \in Database /\ Exists(disk, t)
    BY DEF TypeInv, TypeOK, InstallCrdt
  <1>2. Reshapes(disk, on, t) /\ (disk' = on \/ Stamps(on, disk', {t}, clock + 1))
    BY InstallTyped
  <1> HIDE DEF on
  <1>3. on \in Database /\ {t} \in SUBSET Names /\ \A n \in {t} : Exists(on, n)
    BY <1>2 DEF Reshapes
  <1>4. Orphans(on) = Orphans(disk)
    BY <1>1, <1>2, ReshapesKeepRows
  <1>5. Stamps(on, disk', {t}, clock + 1) => Orphans(disk') = Orphans(on)
    BY <1>3, StampsKeepRows
  <1> QED
    BY <1>2, <1>4, <1>5

LEMMA StepOrphans ==
    ASSUME \A s \in Statements : s.op = "rename" => s.other # Child
    PROVE  TypeInv /\ Control /\ OriginInv /\ OrphanInv /\ [Next]_vars => OrphanInv'
  <1> SUFFICES ASSUME TypeInv, Control, OriginInv, OrphanInv, [Next]_vars PROVE OrphanInv'
    OBVIOUS
  <1>0. /\ disk \in Database /\ work \in Database /\ savepoint \in Database \cup {None}
        /\ call.schema \in BOOLEAN
    BY DEF TypeInv, TypeOK
  <1>1. FileInv /\ GateInv /\ TxInv /\ UndoInv /\ ConnInv /\ ShapeInv
    BY DEF Control
  <1>2. Moves
    BY StepMoves DEF TypeInv
  <1>3. ~unnoted' => ~unnoted
    <2>1. CASE Stays \/ Declines \/ RollsBack \/ BacksUp \/ SetsHlc
      BY <2>1 DEF Stays, Declines, RollsBack, BacksUp, SetsHlc
    <2>2. CASE Writes
      BY <2>2 DEF Writes, BeginSchemaChange, BeginCopy, Execute, CompleteSchemaChange, EndCopy,
         history
    <2>3. CASE Ends \/ Begins
      BY <2>3 DEF Ends, Begins, Commit, CommitFails, Return, Reopen, InstallCrdt, BeginWrite
    <2> QED
      BY <1>2, <2>1, <2>2, <2>3 DEF Moves
  <1>4. SUFFICES ASSUME ~unnoted, ~unnoted' PROVE OrphanInv'
    BY <1>3 DEF OrphanInv
  <1>5. /\ Orphans(disk) = {}
        /\ pc \in Writing /\ ~call.schema =>
             Orphans(work) = {} /\ (savepoint # None => Orphans(savepoint) = {})
    BY <1>4 DEF OrphanInv
  <1>6. pc \in {"prepared", "running", "ran"} => ~auto
    BY <1>1, <1>4 DEF FileInv, Writing
  <1>7. pc \in Writing /\ ~call.schema => conn.fk
    BY <1>1 DEF ConnInv
  <1>a. ASSUME Orphans(disk') = {},
               pc' \in Writing /\ ~call'.schema =>
                 Orphans(work') = {} /\ (savepoint' # None => Orphans(savepoint') = {})
        PROVE  OrphanInv'
    BY <1>a DEF OrphanInv
  <1>8. CASE Stays
    BY <1>5, <1>8, <1>a DEF Stays
  <1>9. CASE Declines
    BY <1>5, <1>9, <1>a DEF Declines, Writing
  <1>10. CASE RollsBack
    BY <1>5, <1>10, <1>a DEF RollsBack, RolledBack
  <1>11. CASE BacksUp
    BY <1>5, <1>6, <1>11, <1>a DEF BacksUp, Writing
  <1>12. CASE SetsHlc
    <2>1. Orphans(work') = Orphans(work)
      BY <1>0, <1>12, GateAndHlcKeepRows DEF SetsHlc
    <2>2. auto => work = disk
      BY <1>1, <1>12 DEF SetsHlc, ShapeInv
    <2> QED
      BY <1>5, <1>12, <1>a, <2>1, <2>2 DEF SetsHlc, Writing
  <1>13. CASE BeginSchemaChange
    <2> DEFINE t == stmt.table
    <2>1. t \in Names
      BY <1>1, <1>13 DEF BeginSchemaChange, ShapeInv, Handling, Statement
    <2>2. /\ savepoint' = work /\ UNCHANGED <<disk, call>> /\ pc = "prepared"
          /\ work' = work \/ (IsCrdt(work, t) /\ work' = DropTriggers(work, t))
      BY <1>13 DEF BeginSchemaChange, Settle
    <2>3. IsCrdt(work, t) => Orphans(DropTriggers(work, t)) = Orphans(work)
      <3> HIDE DEF t
      <3>1. IsCrdt(work, t) => Reshapes(work, DropTriggers(work, t), t)
        BY <1>0, <2>1, TriggersReshape DEF IsCrdt
      <3> QED
        BY <1>0, <2>1, <3>1, ReshapesKeepRows DEF IsCrdt
    <2> QED
      BY <1>5, <1>a, <2>2, <2>3 DEF Writing
  <1>14. ASSUME NEW s \in Statements, BeginCopy(s) PROVE OrphanInv'
    BY <1>5, <1>14, <1>a DEF BeginCopy, NextStatement, Settle
  <1>15. CASE Execute
    <2>1. /\ pc = "running" /\ Runs(work, stmt) /\ UNCHANGED <<savepoint, auto, call>>
          /\ work' = Effect(work, stmt) /\ disk' = IF Held THEN disk ELSE work'
      BY <1>15 DEF Execute, Settle
    <2>2. disk' = disk
      BY <1>6, <2>1 DEF Held
    <2>3. stmt \in Statement /\ stmt.hlc <= clock /\ (stmt.op = "copy" => call.schema)
      BY <1>1, <2>1 DEF ShapeInv, TypeInv, BoundInv, Handling
    <2>4. stmt.hlc <= MaxHlc
      BY <2>3, MaxHlcNat DEF Statement, TypeInv, TypeOK
    <2>5. stmt.op = "rename" => stmt.other # Child
      BY <2>1 DEF OriginInv, Asked, Handling
    <2>6. ~call.schema => Orphans(work') = {}
      BY <1>0, <1>5, <1>7, <2>1, <2>3, <2>4, <2>5, EffectOrphans DEF Writing
    <2> QED
      BY <1>5, <1>a, <2>1, <2>2, <2>6 DEF Writing
  <1>16. CASE CompleteSchemaChange
    <2> DEFINE t == NameAfter
    <2>1. /\ pc = "ran" /\ savepoint' = None /\ UNCHANGED call
          /\ work' = work \/ (IsCrdt(work, t) /\ work' = SetupTriggers(work, t))
          /\ ~auto => UNCHANGED disk
      BY <1>16 DEF CompleteSchemaChange, Settle
    <2>2. t \in Names
      BY <1>1, <2>1 DEF ShapeInv, Handling, Statement, NameAfter
    <2>3. IsCrdt(work, t) => Orphans(SetupTriggers(work, t)) = Orphans(work)
      <3> HIDE DEF t
      <3>1. IsCrdt(work, t) => Reshapes(work, SetupTriggers(work, t), t)
        BY <1>0, <2>2, TriggersReshape DEF IsCrdt
      <3> QED
        BY <1>0, <2>2, <3>1, ReshapesKeepRows DEF IsCrdt
    <2> QED
      BY <1>5, <1>6, <1>a, <2>1, <2>3 DEF Writing
  <1>17. CASE EndCopy
    <2>1. /\ pc = "ran" /\ savepoint' = None /\ UNCHANGED call
          /\ work' = [work EXCEPT !.gate = savepoint.gate] /\ (~auto => UNCHANGED disk)
      BY <1>17 DEF EndCopy, Settle
    <2>2. Orphans(work') = Orphans(work)
      BY <1>0, <2>1, GateAndHlcKeepRows
    <2> QED
      BY <1>5, <1>6, <1>a, <2>1, <2>2 DEF Writing
  <1>18. CASE Commit \/ CommitFails
    <2>1. /\ pc = "closure" /\ pc' = "idle" /\ MayCommit
          /\ disk' = work \/ disk' = disk
      BY <1>18 DEF Commit, CommitFails, Return, Settle
    <2>2. Orphans(work) = {}
      BY <1>0, <1>5, <2>1 DEF MayCommit, Writing
    <2> QED
      BY <1>5, <1>a, <2>1, <2>2 DEF Writing
  <1>19. CASE Reopen
    BY <1>5, <1>19, <1>a, ReopenOrphans DEF Reopen, Writing
  <1>20. ASSUME NEW t \in Names, InstallCrdt(t) PROVE OrphanInv'
    BY <1>5, <1>20, <1>a, InstallOrphans DEF InstallCrdt, Writing
  <1>21. CASE Begins
    <2>1. UNCHANGED <<disk, work, savepoint>> /\ savepoint = None /\ auto
      BY <1>1, <1>21 DEF Begins, BeginWrite, TxInv, Writing
    <2>2. work = disk
      BY <1>1, <2>1 DEF ShapeInv
    <2> QED
      BY <1>5, <1>a, <2>1, <2>2
  <1> QED
    BY <1>2, <1>8, <1>9, <1>10, <1>11, <1>12, <1>13, <1>14, <1>15, <1>16, <1>17, <1>18, <1>19,
       <1>20, <1>21 DEF Moves, Writes, Ends

\* No committed child row is without its parent, unless SQLite once rolled back without
\* the handle noticing (NoOrphans). Child names the table with the foreign key, so no
\* other table may be renamed to it.
THEOREM ForeignKeysKept ==
    ASSUME Orphans(FirstDb) = {}, \A s \in Statements : s.op = "rename" => s.other # Child
    PROVE  Spec => []NoOrphans
  <1> DEFINE I == TypeInv /\ Control /\ OriginInv /\ OrphanInv
  <1>1. Init => I
    <2>1. Init => OrphanInv
      BY DEF Init, OrphanInv, Writing
    <2> QED
      BY <2>1, InitTypes, InitControl, InitOrigin
  <1>2. I /\ [Next]_vars => I'
    BY StepTypes, StepControl, StepOrigin, StepOrphans
  <1>3. I => NoOrphans
    BY DEF OrphanInv, NoOrphans
  <1> QED
    BY <1>1, <1>2, <1>3, PTL DEF Spec

-----------------------------------------------------------------------------
(* The change observer                                                     *)

SameRows(b, db, t) ==
    (Exists(db, t) <=> Exists(b, t)) /\ (Exists(db, t) => db.tab[t].rows = b.tab[t].rows)

\* Records of a call that a table came to be, and that it went.
Up(x, t) == (x[1] = "create" /\ x[2] = t) \/ (x[1] = "rename" /\ x[3] = t)
Down(x, t) == (x[1] = "drop" /\ x[2] = t) \/ (x[1] = "rename" /\ x[2] = t)
Recorded(db, D, t) == IF Exists(db, t) THEN \E x \in D : Up(x, t) ELSE \E x \in D : Down(x, t)

\* Every table whose rows differ between b and db is in ch, or a statement of D made it
\* what it is now.
Covered(b, db, D, ch) ==
    /\ db.log # b.log => DeletedRows \in ch
    /\ \A t \in Names : t \in ch \/ SameRows(b, db, t) \/ Recorded(db, D, t)

Rec(s) == <<s.op, s.table, s.other>>
SameTables(a, b) == \A t \in Names : Exists(a, t) <=> Exists(b, t)

LEMMA CoveredByMore ==
    ASSUME NEW b, NEW db, NEW D, NEW ch, Covered(b, db, D, ch), NEW more, ch \subseteq more
    PROVE  Covered(b, db, D, more)
  BY DEF Covered

\* Nothing that a peer or the observer sees.
LEMMA CoveredSame ==
    ASSUME NEW b, NEW db, NEW D, NEW ch, Covered(b, db, D, ch), NEW d, d.log = db.log,
           \A t \in Names : SameRows(db, d, t)
    PROVE  Covered(b, d, D, ch)
  BY DEF Covered, SameRows, Recorded

LEMMA CoveredReshaped ==
    ASSUME NEW b, NEW db \in Database, NEW D, NEW ch, Covered(b, db, D, ch), NEW t \in Names,
           Exists(db, t), NEW d, Reshapes(db, d, t)
    PROVE  Covered(b, d, D, ch) /\ SameTables(d, db)
  <1>1. d.log = db.log
    BY DEF Reshapes, SameRest
  <1>2. \A n \in Names : SameRows(db, d, n)
    BY DEF Reshapes, SameRows, Exists
  <1> QED
    BY <1>1, <1>2, CoveredSame DEF SameRows, SameTables

LEMMA CoveredTables ==
    ASSUME NEW b, NEW db \in Database, NEW D, NEW ch, Covered(b, db, D, ch), NEW x
    PROVE  /\ Covered(b, [db EXCEPT !.hlc = x], D, ch)
           /\ Covered(b, [db EXCEPT !.gate = x], D, ch)
           /\ SameTables([db EXCEPT !.gate = x], db)
  <1>1. /\ [db EXCEPT !.hlc = x].tab = db.tab /\ [db EXCEPT !.gate = x].tab = db.tab
        /\ [db EXCEPT !.hlc = x].log = db.log /\ [db EXCEPT !.gate = x].log = db.log
    BY DEF Database
  <1> QED
    BY <1>1 DEF Covered, SameRows, Recorded, SameTables, Exists

\* Writing rows of tables that are in the new set.
LEMMA CoveredRows ==
    ASSUME NEW b, NEW db, NEW D, NEW ch, Covered(b, db, D, ch), NEW d, NEW ts, NEW us,
           RowsOnly(db, d, ts), ts \subseteq us, d.log # db.log => DeletedRows \in us, NEW E,
           D \subseteq E
    PROVE  Covered(b, d, E, ch \cup us)
  <1>1. \A t \in Names : (Exists(d, t) <=> Exists(db, t))
                         /\ (t \notin ts => d.tab[t] = db.tab[t])
    BY DEF RowsOnly
  <1>2. d.log # b.log => DeletedRows \in ch \cup us
    BY DEF Covered
  <1>3. ASSUME NEW t \in Names PROVE t \in ch \cup us \/ SameRows(b, d, t) \/ Recorded(d, E, t)
    <2>1. CASE t \in ts
      BY <2>1
    <2>2. CASE t \notin ts
      <3>1. t \in ch \/ SameRows(b, db, t) \/ Recorded(db, D, t)
        BY DEF Covered
      <3>2. SameRows(b, db, t) => SameRows(b, d, t)
        BY <1>1, <2>2 DEF SameRows
      <3>3. Recorded(db, D, t) => Recorded(d, E, t)
        BY <1>1 DEF Recorded
      <3> QED
        BY <3>1, <3>2, <3>3
    <2> QED
      BY <2>1, <2>2
  <1> QED
    BY <1>2, <1>3 DEF Covered

\* What a statement does to the rows, preupdate_hook sees.
LEMMA EffectCovered ==
    ASSUME NEW db \in Database, NEW s \in Statement, s.hlc <= MaxHlc, Runs(db, s),
           NEW b, NEW D, NEW ch, Covered(b, db, D, ch)
    PROVE  Covered(b, Effect(db, s), D \cup {Rec(s)}, ch \cup Touched(db, s))
  <1> DEFINE t == s.table
             u == s.other
             d == Effect(db, s)
             E == D \cup {Rec(s)}
             us == Touched(db, s)
  <1>0. t \in Names /\ u \in Names /\ Child \in Names /\ D \subseteq E /\ Rec(s) \in E
    BY WriteConstants DEF Statement
  <1>1. CASE s.op = "query"
    <2>1. d = db
      BY <1>1 DEF Effect
    <2>2. RowsOnly(db, db, {})
      BY DEF RowsOnly, SameSchema
    <2> HIDE DEF E, us, d
    <2> QED
      BY <1>0, <2>1, <2>2, CoveredRows DEF E, us, d
  <1>2. CASE s.op \in {"insert", "upsert", "update"}
    <2>1. RowsOnly(db, d, {t}) /\ d.log = db.log
      BY <1>2, EffectWrites DEF WritesRow
    <2>2. us = {t}
      BY <1>2 DEF Touched
    <2> HIDE DEF E, us, d
    <2> QED
      BY <1>0, <2>1, <2>2, CoveredRows DEF E, us, d
  <1>3. CASE s.op = "delete"
    <2> DEFINE ks == {s.key} \cap RowKeys(db, t)
               e == DeleteRows(db, t, ks)
               cs == Cascaded(e, t, ks)
               own == IF ks # {} THEN {t} ELSE {}
               children == IF Cascaded(db, t, ks) # {} THEN {Child} ELSE {}
               logged == {n \in children \cup own : Firing(db, n) # {}}
    <2>1. Exists(db, t) /\ ks \in SUBSET Keys
      BY <1>0, <1>3, RunsNeeds, TableOf
    <2>2. /\ RemovesRows(db, d, {t} \cup (IF cs = {} THEN {} ELSE {Child}))
          /\ ks = {} => RemovesRows(db, d, {})
          /\ cs \subseteq ks
          /\ d.log # db.log => \/ ks # {} /\ Firing(db, t) # {}
                               \/ cs # {} /\ Firing(db, Child) # {}
      BY <1>3, <2>1, EffectDeletes
    <2>3. cs \subseteq Cascaded(db, t, ks)
      <3> HIDE DEF ks
      <3>1. RemovesRows(db, e, {t})
        BY <1>0, <2>1, DeleteRemoves
      <3>2. e.ref = db.ref /\ RowKeys(e, Child) \subseteq RowKeys(db, Child)
        <4> HIDE DEF e
        <4> QED
          BY <1>0, <3>1, RemovesKeys
      <3> HIDE DEF e
      <3> QED
        BY <3>2 DEF Cascaded
    <2>4. us = own \cup children \cup (IF logged # {} THEN {DeletedRows} ELSE {})
      BY <1>3 DEF Touched
    <2> HIDE DEF E, us, d, ks, cs, e
    <2>5. d.log # db.log => DeletedRows \in us
      <3>1. d.log # db.log => logged # {}
        BY <2>2, <2>3
      <3> QED
        BY <2>4, <3>1
    <2>6. CASE ks = {}
      BY <1>0, <2>2, <2>5, <2>6, CoveredRows DEF E, us, d, RemovesRows
    <2>7. CASE ks # {}
      <3> DEFINE ts == {t} \cup (IF cs = {} THEN {} ELSE {Child})
      <3>1. ts \subseteq us
        BY <2>3, <2>4, <2>7
      <3>2. RowsOnly(db, d, ts)
        BY <2>2 DEF RemovesRows
      <3> HIDE DEF ts
      <3> QED
        BY <1>0, <2>5, <3>1, <3>2, CoveredRows DEF E, us, d
    <2> QED
      BY <2>6, <2>7
  <1>4. CASE s.op = "create"
    <2>1. /\ SameRest(db, d) /\ d.tab[t] \in Table
          /\ \A n \in Names \ {t} : d.tab[n] = db.tab[n]
      BY <1>4, CreatePuts
    <2>2. Up(Rec(s), t)
      BY <1>4 DEF Up, Rec
    <2> HIDE DEF E, us, d
    <2>3. Recorded(d, E, t)
      BY <1>0, <2>1, <2>2, NotNone DEF Recorded, Exists
    <2>4. \A n \in Names \ {t} : n \in ch \/ SameRows(b, d, n) \/ Recorded(d, E, n)
      BY <1>0, <2>1 DEF Covered, SameRows, Recorded, Exists
    <2> QED
      BY <2>1, <2>3, <2>4 DEF Covered, SameRest, E, us, d
  <1>5. CASE s.op \in {"add", "remove"}
    <2>1. Exists(db, t)
      BY <1>5, RunsNeeds
    <2>2. Reshapes(db, d, t)
      BY <1>5, <2>1, EffectAlters
    <2> HIDE DEF E, us, d
    <2>3. Covered(b, d, D, ch)
      BY <1>0, <2>1, <2>2, CoveredReshaped
    <2> QED
      BY <1>0, <2>3 DEF Covered, Recorded, E, us, d
  <1>6. CASE s.op = "rename"
    <2>1. Exists(db, t) /\ ~Exists(db, u)
      BY <1>6, RunsNeeds
    <2>2. /\ d.log = db.log /\ d.tab[u] \in Table /\ d.tab[t] = None /\ t # u
          /\ \A n \in Names \ {t, u} : d.tab[n] = db.tab[n]
      BY <1>6, <2>1, EffectRenames
    <2>3. Up(Rec(s), u) /\ Down(Rec(s), t)
      BY <1>6 DEF Up, Down, Rec
    <2> HIDE DEF E, us, d
    <2>4. Recorded(d, E, t) /\ Recorded(d, E, u)
      BY <1>0, <2>2, <2>3, NotNone DEF Recorded, Exists
    <2>5. \A n \in Names \ {t, u} : n \in ch \/ SameRows(b, d, n) \/ Recorded(d, E, n)
      BY <1>0, <2>2 DEF Covered, SameRows, Recorded, Exists
    <2> QED
      BY <2>2, <2>4, <2>5 DEF Covered, E, us, d
  <1>7. CASE s.op = "drop"
    <2> DEFINE ks == RowKeys(db, t)
               e == Cascade(db, t, ks)
               cs == Cascaded(db, t, ks)
               ls == IF conn.fk /\ t = db.ref THEN RowKeys(db, t) ELSE {}
               children == IF Cascaded(db, t, ls) # {} THEN {Child} ELSE {}
               logged == {n \in children : Firing(db, n) # {}}
    <2>1. ks \in SUBSET Keys
      BY <1>0, TableOf
    <2>2. d.tab[t] = None /\ SameRest(e, d) /\ \A n \in Names \ {t} : d.tab[n] = e.tab[n]
      BY <1>7, RunsNeeds, DropPuts
    <2>3. /\ RemovesRows(db, e, IF cs = {} THEN {} ELSE {Child})
          /\ e.log # db.log => cs # {} /\ Firing(db, Child) # {}
      <3> HIDE DEF ks
      <3> QED
        BY <1>0, <2>1, CascadeRemoves
    <2>4. cs = Cascaded(db, t, ls)
      BY DEF Cascaded
    <2>5. children \subseteq us /\ (logged # {} => DeletedRows \in us)
      BY <1>7 DEF Touched
    <2>6. Down(Rec(s), t)
      BY <1>7 DEF Down, Rec
    <2> HIDE DEF E, us, d, e, cs, ls
    <2>7. e.log # db.log => DeletedRows \in us
      BY <2>3, <2>4, <2>5
    <2>8. Covered(b, e, E, ch \cup us)
      <3> DEFINE ts == IF cs = {} THEN {} ELSE {Child}
      <3>1. ts \subseteq us /\ RowsOnly(db, e, ts)
        BY <2>3, <2>4, <2>5 DEF RemovesRows
      <3> HIDE DEF ts
      <3> QED
        BY <1>0, <2>7, <3>1, CoveredRows
    <2>9. Recorded(d, E, t)
      BY <1>0, <2>2, <2>6 DEF Recorded, Exists
    <2>10. \A n \in Names \ {t} : n \in ch \cup us \/ SameRows(b, d, n) \/ Recorded(d, E, n)
      BY <2>2, <2>8 DEF Covered, SameRows, Recorded, Exists
    <2> QED
      BY <2>2, <2>8, <2>9, <2>10 DEF Covered, SameRest, E, us, d
  <1>8. CASE s.op = "copy"
    <2>1. Exists(db, t) /\ Exists(db, u) /\ db.tab[t] \in Table
      BY <1>0, <1>8, RunsNeeds, TableOf
    <2>2. Copies(db, d, t, u)
      BY <1>0, <1>8, <2>1, CopyCopies DEF Effect
    <2>3. RowKeys(db, u) # {} => us = {t}
      BY <1>8 DEF Touched
    <2> HIDE DEF E, us, d
    <2>4. RowKeys(db, u) = {} => d.tab[t].rows = db.tab[t].rows
      BY <2>1, <2>2 DEF Copies, Table
    <2>5. Exists(d, t) /\ d.log = db.log /\ \A n \in Names \ {t} : d.tab[n] = db.tab[n]
      BY <2>2, NotNone DEF Copies, Exists
    <2>6. t \in us \/ SameRows(db, d, t)
      BY <2>1, <2>3, <2>4, <2>5 DEF SameRows
    <2>7. \A n \in Names \ {t} : SameRows(db, d, n)
      BY <2>5 DEF SameRows, Exists
    <2>8. \A n \in Names : n \in ch \cup us \/ SameRows(b, d, n) \/ Recorded(d, E, n)
      BY <1>0, <2>6, <2>7 DEF Covered, SameRows, Recorded
    <2> QED
      BY <2>5, <2>8 DEF Covered, E, us, d
  <1> QED
    BY <1>1, <1>2, <1>3, <1>4, <1>5, <1>6, <1>7, <1>8 DEF Statement, Ops

\* What the observer has been told, and while the transaction is open what it will be.
\* After a schema change has run its savepoint is covered without its record.
Told ==
    /\ result \in {"err", "crash"} /\ ~unnoted => reported = {}
    /\ result = "ok" => Covered(base, disk, did, reported)
ReportInv ==
    /\ pc \notin Writing => Told
    /\ pc \in Writing /\ ~unnoted => reported = {}
    /\ pc \in Writing /\ ~auto =>
        /\ disk = base /\ Covered(base, work, did, changed)
        /\ savepoint # None /\ pc = "running" =>
             Covered(base, savepoint, did, changed) /\ SameTables(work, savepoint)
        /\ savepoint # None /\ pc = "ran" => Covered(base, savepoint, did \ {Rec(stmt)}, changed)

LEMMA CoveredItself ==
    ASSUME NEW db, NEW D, NEW ch
    PROVE  Covered(db, db, D, ch)
  BY DEF Covered, SameRows

\* A savepoint does not need the record of the statement that runs on it.
LEMMA SavepointCovered ==
    ASSUME NEW db \in Database, NEW s \in Statement, Runs(db, s), NEW b, NEW sp, NEW D, NEW ch,
           Covered(b, sp, D, ch), SameTables(db, sp),
           s.op \in {"create", "add", "remove", "rename", "copy"}
    PROVE  Covered(b, sp, (D \cup {Rec(s)}) \ {Rec(s)}, ch)
  <1> DEFINE x == Rec(s)
             E == (D \cup {x}) \ {x}
  <1>1. s.table \in Names /\ s.other \in Names /\ x[1] = s.op /\ x[2] = s.table /\ x[3] = s.other
    BY DEF Statement, Rec
  <1>2. \A t \in Names : Exists(sp, t) => ~Up(x, t)
    <2>1. s.op = "create" => ~Exists(sp, s.table)
      BY <1>1, RunsNeeds DEF SameTables
    <2>2. s.op = "rename" => ~Exists(sp, s.other)
      BY <1>1, RunsNeeds DEF SameTables
    <2> QED
      BY <1>1, <2>1, <2>2 DEF Up
  <1>3. \A t \in Names : ~Exists(sp, t) => ~Down(x, t)
    <2>1. s.op = "rename" => Exists(sp, s.table)
      BY <1>1, RunsNeeds DEF SameTables
    <2> QED
      BY <1>1, <2>1 DEF Down
  <1>4. \A y \in D : y = x \/ y \in E
    OBVIOUS
  <1> HIDE DEF x, E
  <1>5. \A t \in Names : Recorded(sp, D, t) => Recorded(sp, E, t)
    BY <1>2, <1>3, <1>4 DEF Recorded
  <1>6. Covered(b, sp, E, ch)
    BY <1>5 DEF Covered
  <1> QED
    BY <1>6 DEF x, E

LEMMA StepReport ==
    TypeInv /\ Control /\ ReportInv /\ [Next]_vars => ReportInv'
  <1> SUFFICES ASSUME TypeInv, Control, ReportInv, [Next]_vars PROVE ReportInv'
    OBVIOUS
  <1>0. /\ disk \in Database /\ work \in Database /\ savepoint \in Database \cup {None}
        /\ auto \in BOOLEAN /\ unnoted \in BOOLEAN
    BY DEF TypeInv, TypeOK
  <1>1. FileInv /\ GateInv /\ TxInv /\ UndoInv /\ ConnInv /\ ShapeInv
    BY DEF Control
  <1>2. Moves
    BY StepMoves DEF TypeInv
  <1>3. pc \in {"prepared", "running", "ran"} /\ ~unnoted => ~auto
    BY <1>1 DEF FileInv, Writing
  <1>4. CASE Stays
    <2>1. /\ UNCHANGED <<disk, work, savepoint, auto, base, did, result, unnoted>>
          /\ pc \in Writing <=> pc' \in Writing
          /\ savepoint # None => UNCHANGED <<pc, stmt, call>>
      BY <1>4 DEF Stays
    <2>2. CASE pc \notin Writing
      <3>1. UNCHANGED reported
        BY <1>4, <2>2 DEF Stays, HeldBack
      <3>2. Told'
        BY <2>1, <2>2, <3>1 DEF ReportInv, Told
      <3> QED
        BY <2>1, <2>2, <3>2 DEF ReportInv
    <2>3. CASE pc \in Writing
      <3>1. ~unnoted => reported' = {}
        BY <1>4, <2>3 DEF Stays, HeldBack, ReportInv
      <3>2. ASSUME ~auto
            PROVE  /\ disk' = base' /\ Covered(base', work', did', changed')
                   /\ savepoint' # None /\ pc' = "running" =>
                        Covered(base', savepoint', did', changed') /\ SameTables(work', savepoint')
                   /\ savepoint' # None /\ pc' = "ran" =>
                        Covered(base', savepoint', did' \ {Rec(stmt')}, changed')
        <4>1. changed \subseteq changed'
          BY <1>4, <3>2 DEF Stays, HeldBack
        <4>2. /\ disk = base /\ Covered(base, work, did, changed)
              /\ savepoint # None /\ pc = "running" =>
                   Covered(base, savepoint, did, changed) /\ SameTables(work, savepoint)
              /\ savepoint # None /\ pc = "ran" =>
                   Covered(base, savepoint, did \ {Rec(stmt)}, changed)
          BY <2>3, <3>2 DEF ReportInv
        <4>3. Covered(base, work, did, changed')
          BY <4>1, <4>2, CoveredByMore
        <4>4. savepoint # None /\ pc = "running" => Covered(base, savepoint, did, changed')
          BY <4>1, <4>2, CoveredByMore
        <4>5. savepoint # None /\ pc = "ran" =>
                Covered(base, savepoint, did \ {Rec(stmt)}, changed')
          BY <4>1, <4>2, CoveredByMore
        <4> QED
          BY <2>1, <4>2, <4>3, <4>4, <4>5
      <3> QED
        BY <2>1, <2>3, <3>1, <3>2 DEF ReportInv
    <2> QED
      BY <2>2, <2>3
  <1>5. CASE Declines
    <2>1. pc' = "idle" /\ result' = "err" /\ reported' = {}
      BY <1>5 DEF Declines
    <2> QED
      BY <2>1 DEF ReportInv, Told, Writing
  <1>6. CASE RollsBack
    <2>0. /\ auto' = TRUE /\ UNCHANGED <<disk, reported, base>> /\ (~unnoted' => ~unnoted)
      BY <1>6 DEF RollsBack, RolledBack
    <2>1. CASE pc' = "closure"
      <3>1. pc \in Writing
        BY <1>6, <2>1 DEF RollsBack
      <3> QED
        BY <2>0, <2>1, <3>1 DEF ReportInv, Writing
    <2>2. CASE pc' # "closure"
      <3>1. /\ pc' \in {"idle", "closed"}
            /\ IF pc \in Writing THEN result' \in {"err", "crash"} ELSE UNCHANGED <<result, did>>
        BY <1>6, <2>2 DEF RollsBack
      <3>2. Told'
        BY <2>0, <3>1 DEF ReportInv, Told
      <3> QED
        BY <3>1, <3>2 DEF ReportInv, Writing
    <2> QED
      BY <2>1, <2>2
  <1>7. CASE BacksUp
    <2>1. /\ savepoint # None /\ savepoint' = None /\ work' = savepoint
          /\ disk' = (IF auto THEN savepoint ELSE disk)
          /\ UNCHANGED <<auto, base, call, result, unnoted>>
          /\ pc \in {"running", "ran"} /\ pc' = "closure"
          /\ did' = IF pc = "ran" THEN did \ {Rec(stmt)} ELSE did
      BY <1>7 DEF BacksUp, Rec
    <2>2. /\ ~auto => changed \subseteq changed'
          /\ ~auto \/ ~unnoted => UNCHANGED reported
      BY <1>7 DEF BacksUp, HeldBack
    <2>3. ~unnoted => reported' = {}
      BY <2>1, <2>2 DEF ReportInv, Writing
    <2>4. ASSUME ~auto PROVE disk' = base' /\ Covered(base', work', did', changed')
      <3>1. disk = base /\ Covered(base, savepoint, did', changed)
        BY <2>1, <2>4 DEF ReportInv, Writing
      <3>2. Covered(base, savepoint, did', changed')
        BY <2>2, <2>4, <3>1, CoveredByMore
      <3> QED
        BY <2>1, <2>4, <3>1, <3>2
    <2> QED
      BY <2>1, <2>3, <2>4 DEF ReportInv, Writing
  <1>8. CASE SetsHlc
    <2>1. /\ pc = "closure" /\ pc' \in {"prepared", "running"} /\ savepoint' = None
          /\ UNCHANGED <<auto, base, call, did, result, unnoted>>
          /\ disk' = IF auto THEN work' ELSE disk
          /\ \E h \in 0..MaxHlc : work' = [work EXCEPT !.hlc = h]
      BY <1>8 DEF SetsHlc
    <2>2. /\ ~auto => changed \subseteq changed'
          /\ ~auto \/ ~unnoted => UNCHANGED reported
      BY <1>8 DEF SetsHlc, HeldBack
    <2>3. ~unnoted => reported' = {}
      BY <2>1, <2>2 DEF ReportInv, Writing
    <2>4. ASSUME ~auto PROVE disk' = base' /\ Covered(base', work', did', changed')
      <3>1. disk = base /\ Covered(base, work, did, changed)
        BY <2>1, <2>4 DEF ReportInv, Writing
      <3>2. Covered(base, work', did, changed)
        <4>1. PICK h \in 0..MaxHlc : work' = [work EXCEPT !.hlc = h]
          BY <2>1
        <4>2. Covered(base, [work EXCEPT !.hlc = h], did, changed)
          BY <1>0, <3>1, CoveredTables
        <4> QED
          BY <4>1, <4>2
      <3>3. Covered(base, work', did, changed')
        BY <2>2, <2>4, <3>2, CoveredByMore
      <3> QED
        BY <2>1, <2>4, <3>1, <3>3
    <2> QED
      BY <2>1, <2>3, <2>4 DEF ReportInv, Writing
  <1>9. CASE BeginSchemaChange
    <2> DEFINE t == stmt.table
    <2>1. t \in Names
      BY <1>1, <1>9 DEF BeginSchemaChange, ShapeInv, Handling, Statement
    <2>2. /\ savepoint' = work /\ UNCHANGED <<disk, call, auto, reported, base, did, unnoted>>
          /\ work' = work \/ (IsCrdt(work, t) /\ work' = DropTriggers(work, t))
          /\ changed' = changed /\ pc = "prepared" /\ pc' = "running"
      BY <1>9 DEF BeginSchemaChange, Settle, Start, history
    <2>3. ASSUME ~auto PROVE disk = base /\ Covered(base, work, did, changed)
      BY <2>2, <2>3 DEF ReportInv, Writing
    <2>4. ASSUME ~auto PROVE Covered(base, work', did, changed) /\ SameTables(work', work)
      <3>1. CASE work' = work
        BY <2>3, <2>4, <3>1 DEF SameTables
      <3>2. CASE IsCrdt(work, t) /\ work' = DropTriggers(work, t)
        <4> HIDE DEF t
        <4>1. Reshapes(work, work', t) /\ Exists(work, t)
          BY <1>0, <2>1, <3>2, TriggersReshape DEF IsCrdt
        <4> QED
          BY <1>0, <2>1, <2>3, <2>4, <4>1, CoveredReshaped
      <3> QED
        BY <2>2, <3>1, <3>2
    <2>5. ~unnoted => reported' = {}
      BY <2>2 DEF ReportInv, Writing
    <2> QED
      BY <2>2, <2>3, <2>4, <2>5 DEF ReportInv, Writing
  <1>10. ASSUME NEW s \in Statements, BeginCopy(s) PROVE ReportInv'
    <2>1. /\ savepoint' = work /\ UNCHANGED <<disk, call, auto, reported, base, did, unnoted>>
          /\ work' = [work EXCEPT !.gate = FALSE]
          /\ changed' = changed /\ pc = "closure" /\ pc' = "running"
      BY <1>10 DEF BeginCopy, NextStatement, Settle, Start
    <2>2. ASSUME ~auto PROVE disk = base /\ Covered(base, work, did, changed)
      BY <2>1, <2>2 DEF ReportInv, Writing
    <2>3. ASSUME ~auto PROVE Covered(base, work', did, changed) /\ SameTables(work', work)
      BY <1>0, <2>1, <2>2, <2>3, CoveredTables
    <2>4. ~unnoted => reported' = {}
      BY <2>1 DEF ReportInv, Writing
    <2> QED
      BY <2>1, <2>2, <2>3, <2>4 DEF ReportInv, Writing
  <1>11. CASE Execute
    <2>1. /\ pc = "running" /\ pc' \in {"ran", "closure"} /\ Runs(work, stmt)
          /\ UNCHANGED <<savepoint, auto, call, base, unnoted>>
          /\ did' = did \cup {Rec(stmt)}
          /\ pc' = "ran" => InSavepoint /\ UNCHANGED stmt
          /\ work' = Effect(work, stmt)
          /\ ~auto => /\ UNCHANGED <<disk, reported>>
                      /\ changed' = changed \cup Touched(work, stmt)
      BY <1>11 DEF Execute, Settle, Held, Rec, ToClosure
    <2>2. stmt \in Statement /\ stmt.hlc <= clock
      BY <1>1, <2>1 DEF ShapeInv, TypeInv, BoundInv, Handling
    <2>3. stmt.hlc <= MaxHlc
      BY <2>2, MaxHlcNat DEF Statement, TypeInv, TypeOK
    <2>4. ~unnoted => reported' = {}
      BY <1>3, <2>1 DEF ReportInv, Writing
    <2>5. ASSUME ~auto
          PROVE  /\ disk' = base' /\ Covered(base', work', did', changed')
                 /\ savepoint' # None /\ pc' = "ran" =>
                      Covered(base', savepoint', did' \ {Rec(stmt')}, changed')
      <3>1. /\ disk = base /\ Covered(base, work, did, changed)
            /\ savepoint # None =>
                 Covered(base, savepoint, did, changed) /\ SameTables(work, savepoint)
        BY <2>1, <2>5 DEF ReportInv, Writing
      <3>2. Covered(base, work', did', changed')
        BY <1>0, <2>1, <2>2, <2>3, <2>5, <3>1, EffectCovered
      <3>3. ASSUME savepoint # None, pc' = "ran"
            PROVE  Covered(base, savepoint, did' \ {Rec(stmt)}, changed')
        <4>1. stmt.op \in {"create", "add", "remove", "rename", "copy"}
          BY <2>1, <3>3 DEF InSavepoint, ChangesSchema
        <4>2. Covered(base, savepoint, did' \ {Rec(stmt)}, changed)
          BY <1>0, <2>1, <2>2, <3>1, <3>3, <4>1, SavepointCovered
        <4>3. changed \subseteq changed'
          BY <2>1, <2>5
        <4> QED
          BY <4>2, <4>3, CoveredByMore
      <3> QED
        BY <2>1, <2>5, <3>1, <3>2, <3>3
    <2> QED
      BY <2>1, <2>4, <2>5 DEF ReportInv, Writing
  <1>12. CASE CompleteSchemaChange
    <2> DEFINE t == NameAfter
    <2>1. /\ pc = "ran" /\ pc' = "closure" /\ savepoint' = None
          /\ UNCHANGED <<call, auto, base, did, unnoted>>
          /\ work' = work \/ (IsCrdt(work, t) /\ work' = SetupTriggers(work, t))
          /\ ~auto => UNCHANGED <<disk, reported>> /\ changed' = changed
      BY <1>12 DEF CompleteSchemaChange, Settle, ToClosure
    <2>2. t \in Names
      BY <1>1, <2>1 DEF ShapeInv, Handling, Statement, NameAfter
    <2>3. ASSUME ~auto PROVE disk = base /\ Covered(base, work, did, changed)
      BY <2>1, <2>3 DEF ReportInv, Writing
    <2>4. ASSUME ~auto PROVE Covered(base, work', did, changed)
      <3>1. CASE work' = work
        BY <2>3, <2>4, <3>1
      <3>2. CASE IsCrdt(work, t) /\ work' = SetupTriggers(work, t)
        <4> HIDE DEF t
        <4>1. Reshapes(work, work', t) /\ Exists(work, t)
          BY <1>0, <2>2, <3>2, TriggersReshape DEF IsCrdt
        <4> QED
          BY <1>0, <2>2, <2>3, <2>4, <4>1, CoveredReshaped
      <3> QED
        BY <2>1, <3>1, <3>2
    <2>5. ~unnoted => reported' = {}
      BY <1>3, <2>1 DEF ReportInv, Writing
    <2> QED
      BY <2>1, <2>3, <2>4, <2>5 DEF ReportInv, Writing
  <1>13. CASE EndCopy
    <2>1. /\ pc = "ran" /\ pc' = "closure" /\ savepoint' = None
          /\ UNCHANGED <<call, auto, base, did, unnoted>>
          /\ work' = [work EXCEPT !.gate = savepoint.gate]
          /\ ~auto => UNCHANGED <<disk, reported>> /\ changed' = changed
      BY <1>13 DEF EndCopy, Settle, ToClosure
    <2>2. ASSUME ~auto PROVE disk = base /\ Covered(base, work, did, changed)
      BY <2>1, <2>2 DEF ReportInv, Writing
    <2>3. ASSUME ~auto PROVE Covered(base, work', did, changed)
      BY <1>0, <2>1, <2>2, <2>3, CoveredTables
    <2>4. ~unnoted => reported' = {}
      BY <1>3, <2>1 DEF ReportInv, Writing
    <2> QED
      BY <2>1, <2>2, <2>3, <2>4 DEF ReportInv, Writing
  <1>14. CASE Commit
    <2>1. /\ pc = "closure" /\ pc' = "idle" /\ ~auto /\ result' = "ok" /\ disk' = work
          /\ UNCHANGED <<base, did>> /\ changed \subseteq reported'
      BY <1>14 DEF Commit, Return, Settle
    <2>2. Covered(base, work, did, changed)
      BY <2>1 DEF ReportInv, Writing
    <2>3. Covered(base, work, did, reported')
      BY <2>1, <2>2, CoveredByMore
    <2>4. Told'
      BY <2>1, <2>3 DEF Told
    <2> QED
      BY <2>1, <2>4 DEF ReportInv, Writing
  <1>15. CASE CommitFails
    <2>1. pc' = "idle" /\ result' = "uncommitted"
      BY <1>15 DEF CommitFails, Return
    <2> QED
      BY <2>1 DEF ReportInv, Told, Writing
  <1>16. CASE Reopen
    <2>1. pc' = "idle" /\ base' = disk' /\ reported' = {}
      BY <1>16 DEF Reopen
    <2> QED
      BY <2>1, CoveredItself DEF ReportInv, Told, Writing
  <1>17. ASSUME NEW t \in Names, InstallCrdt(t) PROVE ReportInv'
    <2> DEFINE on == EnsureCrdt(disk, t)
    <2>1. /\ pc' = "idle" /\ base' = disk /\ did' = {} /\ result' = "ok" /\ Exists(disk, t)
      BY <1>17 DEF InstallCrdt
    <2>2. /\ Reshapes(disk, on, t)
          /\ disk' = on \/ (Stamps(on, disk', {t}, clock + 1) /\ reported' = {t})
      BY <1>17, InstallTyped
    <2> HIDE DEF on
    <2>3. Covered(disk, on, {}, {})
      BY <1>0, <2>1, <2>2, CoveredItself, CoveredReshaped
    <2>4. Covered(disk, disk', {}, reported')
      <3>1. CASE disk' = on
        BY <2>3, <3>1, CoveredByMore
      <3>2. CASE Stamps(on, disk', {t}, clock + 1) /\ reported' = {t}
        <4>1. disk'.log = on.log /\ \A n \in Names \ {t} : disk'.tab[n] = on.tab[n]
          BY <3>2 DEF Stamps
        <4> QED
          BY <2>3, <3>2, <4>1 DEF Covered, SameRows, Recorded, Exists
      <3> QED
        BY <2>2, <3>1, <3>2
    <2> QED
      BY <2>1, <2>4 DEF ReportInv, Told, Writing
  <1>18. CASE Begins
    <2>1. /\ pc = "idle" /\ pc' = "closure" /\ UNCHANGED <<disk, work, savepoint>>
          /\ base' = disk /\ did' = {} /\ reported' = {}
      BY <1>18 DEF Begins, BeginWrite
    <2>2. savepoint = None /\ auto
      BY <1>1, <2>1 DEF TxInv, Writing
    <2>3. work = disk
      BY <1>1, <2>2 DEF ShapeInv
    <2>4. Covered(base', work', did', changed')
      BY <2>1, <2>3, CoveredItself
    <2> QED
      BY <2>1, <2>2, <2>4 DEF ReportInv, Writing
  <1> QED
    BY <1>2, <1>4, <1>5, <1>6, <1>7, <1>8, <1>9, <1>10, <1>11, <1>12, <1>13, <1>14, <1>15,
       <1>16, <1>17, <1>18 DEF Moves, Writes, Ends

\* The change observer hears of every table whose rows a committed call changed, and of
\* none of a call that was rolled back before COMMIT (ReportCoversCommit).
THEOREM ObserverHears == Spec => []ReportCoversCommit
  <1> DEFINE I == TypeInv /\ Control /\ ReportInv
  <1>1. Init => I
    <2>1. Init => ReportInv
      BY CoveredItself DEF Init, ReportInv, Told, Writing
    <2> QED
      BY <2>1, InitTypes, InitControl
  <1>2. I /\ [Next]_vars => I'
    BY StepTypes, StepControl, StepReport
  <1>3. I => ReportCoversCommit
    <2> SUFFICES ASSUME ReportInv, pc = "idle" PROVE ReportCoversCommit
      BY DEF ReportCoversCommit
    <2>1. Told
      BY DEF ReportInv, Writing
    <2>2. ASSUME result = "ok", NEW t \in Names, Exists(base, t), Exists(disk, t),
                 base.tab[t].rows # disk.tab[t].rows,
                 \A d \in did : d[1] \in {"create", "drop", "rename"} => t \notin {d[2], d[3]}
          PROVE  t \in reported
      <3>1. t \in reported \/ SameRows(base, disk, t) \/ Recorded(disk, did, t)
        BY <2>1, <2>2 DEF Told, Covered
      <3>2. ~SameRows(base, disk, t)
        BY <2>2 DEF SameRows
      <3>3. ~Recorded(disk, did, t)
        BY <2>2 DEF Recorded, Up, Down
      <3> QED
        BY <3>1, <3>2, <3>3
    <2> QED
      BY <2>1, <2>2 DEF ReportCoversCommit, Told, Covered
  <1> QED
    BY <1>1, <1>2, <1>3, PTL DEF Spec

-----------------------------------------------------------------------------
(* What a migration leaves for peers                                       *)

\* db holds no row, delete marker or dirty mark that is not b's.
Quiet(b, db) ==
    /\ db.log = b.log /\ db.dirty = b.dirty
    /\ \A t \in Names, k \in Keys : Exists(db, t) /\ db.tab[t].rows[k] # None =>
         \E u \in Names : Exists(b, u) /\ b.tab[u].rows[k] = db.tab[t].rows[k]
NoDml(D) == \A d \in D : d[1] \notin {"insert", "upsert", "update", "delete"}

LEMMA QuietItself ==
    ASSUME NEW db
    PROVE  Quiet(db, db)
  BY DEF Quiet

LEMMA QuietReshaped ==
    ASSUME NEW b, NEW db \in Database, NEW d, NEW t \in Names, Exists(db, t),
           Reshapes(db, d, t), Quiet(b, db)
    PROVE  Quiet(b, d)
  <1>1. d.log = db.log /\ d.dirty = db.dirty /\ d.tab[t].rows = db.tab[t].rows
    BY DEF Reshapes, SameRest
  <1>2. \A n \in Names \ {t} : d.tab[n] = db.tab[n]
    BY DEF Reshapes
  <1>3. \A n \in Names, k \in Keys : Exists(d, n) => Exists(db, n) /\ d.tab[n].rows[k] = db.tab[n].rows[k]
    BY <1>1, <1>2 DEF Exists
  <1> QED
    BY <1>1, <1>3 DEF Quiet

LEMMA QuietTables ==
    ASSUME NEW b, NEW db \in Database, Quiet(b, db), NEW x
    PROVE  Quiet(b, [db EXCEPT !.hlc = x]) /\ Quiet(b, [db EXCEPT !.gate = x])
  <1>1. /\ [db EXCEPT !.hlc = x].tab = db.tab /\ [db EXCEPT !.gate = x].tab = db.tab
        /\ [db EXCEPT !.hlc = x].log = db.log /\ [db EXCEPT !.gate = x].log = db.log
        /\ [db EXCEPT !.hlc = x].dirty = db.dirty /\ [db EXCEPT !.gate = x].dirty = db.dirty
    BY DEF Database
  <1> QED
    BY <1>1 DEF Quiet, Exists

\* A statement that is not DML makes no row, marker or mark: without foreign keys a DROP
\* does not cascade, and with the gate off a copy fires no trigger.
LEMMA EffectQuiet ==
    ASSUME NEW db \in Database, NEW s \in Statement, Runs(db, s), conn.fk = FALSE,
           s.op \notin {"insert", "upsert", "update", "delete"},
           s.op = "copy" => db.gate = FALSE, NEW b, Quiet(b, db)
    PROVE  Quiet(b, Effect(db, s))
  <1> DEFINE t == s.table
             u == s.other
             d == Effect(db, s)
  <1>0. t \in Names /\ u \in Names
    BY DEF Statement
  <1>1. CASE s.op = "query"
    BY <1>1 DEF Effect
  <1>2. CASE s.op = "create"
    <2>1. /\ SameRest(db, d) /\ d.tab[t].rows = NoRows
          /\ \A n \in Names \ {t} : d.tab[n] = db.tab[n]
      BY <1>2, CreatePuts
    <2>2. \A k \in Keys : d.tab[t].rows[k] = None
      BY <2>1 DEF NoRows
    <2> HIDE DEF d
    <2> QED
      BY <1>0, <2>1, <2>2 DEF Quiet, SameRest, Exists, d
  <1>3. CASE s.op \in {"add", "remove"}
    <2>1. Exists(db, t)
      BY <1>3, RunsNeeds
    <2>2. Reshapes(db, d, t)
      BY <1>3, <2>1, EffectAlters
    <2> HIDE DEF d
    <2> QED
      BY <1>0, <2>1, <2>2, QuietReshaped DEF d
  <1>4. CASE s.op = "rename"
    <2>1. Exists(db, t) /\ ~Exists(db, u)
      BY <1>4, RunsNeeds
    <2>2. /\ d.log = db.log /\ d.dirty = db.dirty /\ d.tab[t] = None
          /\ d.tab[u].rows = db.tab[t].rows
          /\ \A n \in Names \ {t, u} : d.tab[n] = db.tab[n]
      BY <1>4, <2>1, EffectRenames
    <2> HIDE DEF d
    <2>3. \A n \in Names : Exists(d, n) =>
            \E m \in Names : Exists(db, m) /\ d.tab[n].rows = db.tab[m].rows
      BY <1>0, <2>1, <2>2 DEF Exists
    <2> QED
      BY <2>2, <2>3 DEF Quiet, d
  <1>5. CASE s.op = "drop"
    <2> DEFINE ks == RowKeys(db, t)
    <2>1. Cascade(db, t, ks) = db
      BY DEF Cascade, Cascaded
    <2>2. SameRest(db, d) /\ d.tab[t] = None /\ \A n \in Names \ {t} : d.tab[n] = db.tab[n]
      BY <1>5, <2>1, RunsNeeds, DropPuts
    <2> HIDE DEF d
    <2> QED
      BY <1>0, <2>2 DEF Quiet, SameRest, Exists, d
  <1>6. CASE s.op = "copy"
    <2>1. Exists(db, t) /\ Exists(db, u)
      BY <1>6, RunsNeeds
    <2>2. Copies(db, d, t, u)
      BY <1>0, <1>6, <2>1, CopyCopies DEF Effect
    <2> HIDE DEF d
    <2>3. d.log = db.log /\ d.dirty = db.dirty /\ \A n \in Names \ {t} : d.tab[n] = db.tab[n]
      BY <1>6, <2>2 DEF Copies
    <2>4. \A k \in Keys : d.tab[t].rows[k] \in {db.tab[t].rows[k], db.tab[u].rows[k]}
      BY <1>6, <2>2 DEF Copies
    <2>5. \A n \in Names, k \in Keys : Exists(d, n) =>
            \E m \in Names : Exists(db, m) /\ d.tab[n].rows[k] = db.tab[m].rows[k]
      BY <1>0, <2>1, <2>3, <2>4 DEF Exists
    <2> QED
      BY <2>3, <2>5 DEF Quiet, d
  <1> QED
    BY <1>1, <1>2, <1>3, <1>4, <1>5, <1>6 DEF Statement, Ops

\* While the transaction of a migration is open, what it would commit and what it would
\* go back to hold nothing new.
ShipInv ==
    /\ pc = "idle" /\ result = "ok" /\ call.schema /\ NoDml(did) => Quiet(base, disk)
    /\ pc \in Writing /\ ~auto /\ call.schema /\ NoDml(did) =>
         Quiet(base, work) /\ (savepoint # None => Quiet(base, savepoint))

LEMMA StepShips == TypeInv /\ Control /\ ShipInv /\ [Next]_vars => ShipInv'
  <1> SUFFICES ASSUME TypeInv, Control, ShipInv, [Next]_vars PROVE ShipInv'
    OBVIOUS
  <1>0. disk \in Database /\ work \in Database /\ savepoint \in Database \cup {None}
    BY DEF TypeInv, TypeOK
  <1>1. TxInv /\ ShapeInv
    BY DEF Control
  <1>2. Moves
    BY StepMoves DEF TypeInv
  <1>3. CASE Stays
    <2>1. /\ UNCHANGED <<disk, work, savepoint, auto, base, did, result>>
          /\ pc \in Writing <=> pc' \in Writing
          /\ pc \in Writing => UNCHANGED call
          /\ pc \notin Writing => UNCHANGED <<pc, call>> \/ pc' # "idle" \/ ~call'.schema
      BY <1>3 DEF Stays
    <2>2. CASE pc \in Writing
      BY <2>1, <2>2 DEF ShipInv, Writing
    <2>3. CASE pc \notin Writing
      BY <2>1, <2>3 DEF ShipInv
    <2> QED
      BY <2>2, <2>3
  <1>4. CASE Declines
    BY <1>4 DEF Declines, ShipInv, Writing
  <1>5. CASE RollsBack
    <2>1. /\ auto' = TRUE
          /\ pc' # "closure" => /\ pc' \in {"idle", "closed"}
                                /\ pc' = "closed" \/ result' \in {"err", "crash"}
      BY <1>5 DEF RollsBack, RolledBack
    <2> QED
      BY <2>1 DEF ShipInv, Writing
  <1>6. CASE BacksUp
    <2>1. /\ savepoint # None /\ savepoint' = None /\ work' = savepoint
          /\ UNCHANGED <<auto, base, call>>
          /\ pc \in {"running", "ran"} /\ pc' = "closure"
          /\ did' = IF pc = "ran" THEN did \ {Rec(stmt)} ELSE did
      BY <1>6 DEF BacksUp, Rec
    <2>2. NoDml(did') => NoDml(did)
      <3>1. CASE pc = "ran"
        <4>1. Rec(stmt)[1] \notin {"insert", "upsert", "update", "delete"}
          BY <1>1, <3>1 DEF ShapeInv, InSavepoint, ChangesSchema, Rec
        <4> QED
          BY <2>1, <3>1, <4>1 DEF NoDml
      <3>2. CASE pc # "ran"
        BY <2>1, <3>2
      <3> QED
        BY <3>1, <3>2
    <2> QED
      BY <2>1, <2>2 DEF ShipInv, Writing
  <1>7. CASE SetsHlc
    <2>1. /\ pc = "closure" /\ pc' \in {"prepared", "running"} /\ savepoint' = None
          /\ UNCHANGED <<auto, base, call, did>>
      BY <1>7 DEF SetsHlc
    <2>2. PICK h \in 0..MaxHlc : work' = [work EXCEPT !.hlc = h]
      BY <1>7 DEF SetsHlc
    <2>3. Quiet(base, work) => Quiet(base, work')
      BY <1>0, <2>2, QuietTables
    <2> QED
      BY <2>1, <2>3 DEF ShipInv, Writing
  <1>8. CASE BeginSchemaChange
    <2> DEFINE t == stmt.table
    <2>1. t \in Names
      BY <1>1, <1>8 DEF BeginSchemaChange, ShapeInv, Handling, Statement
    <2>2. /\ savepoint' = work /\ UNCHANGED <<call, auto, base, did>>
          /\ work' = work \/ (IsCrdt(work, t) /\ work' = DropTriggers(work, t))
          /\ pc = "prepared" /\ pc' = "running"
      BY <1>8 DEF BeginSchemaChange, Settle, Start, history
    <2>3. Quiet(base, work) => Quiet(base, work')
      <3>1. CASE work' = work
        BY <3>1
      <3>2. CASE IsCrdt(work, t) /\ work' = DropTriggers(work, t)
        <4> HIDE DEF t
        <4>1. Reshapes(work, work', t) /\ Exists(work, t)
          BY <1>0, <2>1, <3>2, TriggersReshape DEF IsCrdt
        <4> QED
          BY <1>0, <2>1, <4>1, QuietReshaped
      <3> QED
        BY <2>2, <3>1, <3>2
    <2> QED
      BY <2>2, <2>3 DEF ShipInv, Writing
  <1>9. ASSUME NEW s \in Statements, BeginCopy(s) PROVE ShipInv'
    <2>1. /\ savepoint' = work /\ UNCHANGED <<call, auto, base, did>>
          /\ work' = [work EXCEPT !.gate = FALSE]
          /\ pc = "closure" /\ pc' = "running"
      BY <1>9 DEF BeginCopy, NextStatement, Settle, Start
    <2>2. Quiet(base, work) => Quiet(base, work')
      BY <1>0, <2>1, QuietTables
    <2> QED
      BY <2>1, <2>2 DEF ShipInv, Writing
  <1>10. CASE Execute
    <2>1. /\ pc = "running" /\ pc' \in {"ran", "closure"} /\ Runs(work, stmt)
          /\ UNCHANGED <<savepoint, auto, call, base>>
          /\ did' = did \cup {Rec(stmt)}
          /\ work' = Effect(work, stmt)
      BY <1>10 DEF Execute, Settle, Rec, ToClosure
    <2>2. stmt \in Statement /\ (stmt.op = "copy" => work.gate = FALSE)
      BY <1>1, <2>1 DEF ShapeInv, Handling
    <2>3. call.schema => conn.fk = FALSE
      BY <1>1, <2>1 DEF ShapeInv, Writing
    <2>4. NoDml(did') => NoDml(did) /\ stmt.op \notin {"insert", "upsert", "update", "delete"}
      <3>1. Rec(stmt)[1] = stmt.op
        BY DEF Rec
      <3> QED
        BY <2>1, <3>1 DEF NoDml
    <2>5. call.schema /\ NoDml(did') /\ Quiet(base, work) => Quiet(base, work')
      BY <1>0, <2>1, <2>2, <2>3, <2>4, EffectQuiet
    <2> QED
      BY <2>1, <2>4, <2>5 DEF ShipInv, Writing
  <1>11. CASE CompleteSchemaChange
    <2> DEFINE t == NameAfter
    <2>1. /\ pc = "ran" /\ pc' = "closure" /\ savepoint' = None
          /\ UNCHANGED <<call, auto, base, did>>
          /\ work' = work \/ (IsCrdt(work, t) /\ work' = SetupTriggers(work, t))
      BY <1>11 DEF CompleteSchemaChange, Settle, ToClosure
    <2>2. t \in Names
      BY <1>1, <2>1 DEF ShapeInv, Handling, Statement, NameAfter
    <2>3. Quiet(base, work) => Quiet(base, work')
      <3>1. CASE work' = work
        BY <3>1
      <3>2. CASE IsCrdt(work, t) /\ work' = SetupTriggers(work, t)
        <4> HIDE DEF t
        <4>1. Reshapes(work, work', t) /\ Exists(work, t)
          BY <1>0, <2>2, <3>2, TriggersReshape DEF IsCrdt
        <4> QED
          BY <1>0, <2>2, <4>1, QuietReshaped
      <3> QED
        BY <2>1, <3>1, <3>2
    <2> QED
      BY <2>1, <2>3 DEF ShipInv, Writing
  <1>12. CASE EndCopy
    <2>1. /\ pc = "ran" /\ pc' = "closure" /\ savepoint' = None
          /\ UNCHANGED <<call, auto, base, did>>
          /\ work' = [work EXCEPT !.gate = savepoint.gate]
      BY <1>12 DEF EndCopy, Settle, ToClosure
    <2>2. Quiet(base, work) => Quiet(base, work')
      BY <1>0, <2>1, QuietTables
    <2> QED
      BY <2>1, <2>2 DEF ShipInv, Writing
  <1>13. CASE Commit
    <2>1. /\ pc = "closure" /\ pc' = "idle" /\ ~auto /\ disk' = work
          /\ UNCHANGED <<base, call, did>>
      BY <1>13 DEF Commit, Return, Settle
    <2> QED
      BY <2>1 DEF ShipInv, Writing
  <1>14. CASE CommitFails
    BY <1>14 DEF CommitFails, Return, ShipInv, Writing
  <1>15. CASE Reopen
    BY <1>15, QuietItself DEF Reopen, ShipInv, Writing
  <1>16. ASSUME NEW t \in Names, InstallCrdt(t) PROVE ShipInv'
    BY <1>16 DEF InstallCrdt, NoCall, ShipInv, Writing
  <1>17. CASE Begins
    <2>1. /\ pc = "idle" /\ pc' = "closure" /\ UNCHANGED <<disk, work, savepoint>>
          /\ base' = disk
      BY <1>17 DEF Begins, BeginWrite
    <2>2. savepoint = None /\ auto
      BY <1>1, <2>1 DEF TxInv, Writing
    <2>3. work = disk
      BY <1>1, <2>2 DEF ShapeInv
    <2> QED
      BY <2>1, <2>2, <2>3, QuietItself DEF ShipInv, Writing
  <1> QED
    BY <1>2, <1>3, <1>4, <1>5, <1>6, <1>7, <1>8, <1>9, <1>10, <1>11, <1>12, <1>13, <1>14,
       <1>15, <1>16, <1>17 DEF Moves, Writes, Ends

\* A schema-mode call of DDL and verbatim copies that committed left no new row, delete
\* marker or dirty mark (MigrationShipsNothing).
THEOREM MigrationsAreSilent == Spec => []MigrationShipsNothing
  <1> DEFINE I == TypeInv /\ Control /\ ShipInv
  <1>1. Init => I
    <2>1. Init => ShipInv
      BY QuietItself DEF Init, ShipInv, Writing
    <2> QED
      BY <2>1, InitTypes, InitControl
  <1>2. I /\ [Next]_vars => I'
    BY StepTypes, StepControl, StepShips
  <1>3. I => MigrationShipsNothing
    <2> SUFFICES ASSUME TypeInv, ShipInv, pc = "idle", result = "ok", call.schema, NoDml(did)
                 PROVE  /\ RowsOf(disk) \subseteq RowsOf(base)
                        /\ disk.log = base.log /\ disk.dirty = base.dirty
      BY DEF MigrationShipsNothing, NoDml
    <2>1. Quiet(base, disk)
      BY DEF ShipInv
    <2>2. ASSUME NEW t \in Names, NEW k \in Keys, k \in RowKeys(disk, t)
          PROVE  <<k, disk.tab[t].rows[k]>> \in RowsOf(base)
      <3>1. Exists(disk, t) /\ disk.tab[t].rows[k] # None
        BY <2>2 DEF RowKeys
      <3>2. PICK u \in Names : Exists(base, u) /\ base.tab[u].rows[k] = disk.tab[t].rows[k]
        BY <2>1, <3>1 DEF Quiet
      <3>3. k \in RowKeys(base, u)
        BY <3>1, <3>2 DEF RowKeys
      <3>4. <<u, k>> \in {x \in Names \X Keys : x[2] \in RowKeys(base, x[1])}
        BY <3>3
      <3>5. <<k, disk.tab[t].rows[k]>> =
              <<(<<u, k>>)[2], base.tab[(<<u, k>>)[1]].rows[(<<u, k>>)[2]]>>
        BY <3>2
      <3> QED
        BY <3>4, <3>5 DEF RowsOf
    <2> QED
      BY <2>1, <2>2 DEF RowsOf, Quiet
  <1> QED
    BY <1>1, <1>2, <1>3, PTL DEF Spec

-----------------------------------------------------------------------------
(* New values are marked                                                   *)

\* The HLC of an open transaction is the clock's, and a stamped statement about to run
\* has the one its transaction stored.
StampInv ==
    /\ txHlc # 0 => txHlc = clock
    /\ pc \in {"prepared", "running"} /\ stmt.hlc # 0 => stmt.hlc = work.hlc

LEMMA InitStamp == Init => StampInv
  BY DEF Init, StampInv

LEMMA StepStamp == TypeInv /\ Control /\ StampInv /\ [Next]_vars => StampInv'
  <1> SUFFICES ASSUME TypeInv, Control, StampInv, [Next]_vars PROVE StampInv'
    OBVIOUS
  <1>0. clock \in Nat /\ txHlc \in Nat /\ work \in Database
    BY DEF TypeInv, TypeOK
  <1>a. TxInv /\ ShapeInv
    BY DEF Control
  <1>b. pc \notin Writing => txHlc = 0
    BY <1>a DEF TxInv
  <1> USE DEF StampInv
  <1>1. CASE \E g, s, l \in BOOLEAN : BeginWrite(g, s, l)
    BY <1>1 DEF BeginWrite
  <1>2. ASSUME NEW s \in Statements, Query(s) \/ PrepareLocal(s) \/ BeginCopy(s)
        PROVE  StampInv'
    <2>1. stmt'.hlc = 0
      BY <1>2, WriteConstants DEF Query, PrepareLocal, BeginCopy, Start
    <2>2. UNCHANGED <<txHlc, clock>>
      BY <1>2 DEF Query, PrepareLocal, BeginCopy, sqlite
    <2> QED
      BY <2>1, <2>2
  <1>3. ASSUME NEW s \in Statements, PrepareStamped(s) PROVE StampInv'
    <2> DEFINE h == IF txHlc = 0 THEN clock + 1 ELSE txHlc
               n == IF Synced(s.table) THEN h ELSE 0
    <2>1. h \in Nat /\ h \in Int /\ clock \in Int /\ n \in Nat /\ h >= clock
      BY <1>0
    <2>2. /\ clock' = Max({h, clock}) /\ stmt' = [s EXCEPT !.hlc = n]
          /\ work' = [work EXCEPT !.hlc = h] /\ txHlc' \in {0, h}
      BY <1>3 DEF PrepareStamped, Start, Settle
    <2>3. n \in {0, h}
      OBVIOUS
    <2> HIDE DEF h, n
    <2>4. clock' = h
      BY <2>1, <2>2, MinMaxOfTwo
    <2>5. stmt'.hlc = n
      BY <2>1, <2>2, StampedIsStatement
    <2>6. work'.hlc = h
      BY <1>0, <2>2 DEF Database
    <2> QED
      BY <2>2, <2>3, <2>4, <2>5, <2>6
  <1>4. ASSUME NEW s \in Statements,
               Refuse(s) \/ RefuseCopy(s) \/ BeginCopyFails(s) \/ PersistFailsHard(s)
        PROVE  StampInv'
    <2>1. pc' = "closure"
      BY <1>4 DEF Refuse, RefuseCopy, BeginCopyFails, PersistFailsHard, NextStatement, Refused
    <2>2. UNCHANGED <<txHlc, clock>> \/ txHlc' = 0
      BY <1>4 DEF Refuse, RefuseCopy, BeginCopyFails, PersistFailsHard, Refused, sqlite, handle,
         RolledBack
    <2> QED
      BY <2>1, <2>2
  <1>5. CASE BeginSchemaChange
    <2>1. /\ pc = "prepared" /\ UNCHANGED <<txHlc, clock, stmt>>
          /\ work' = work \/ (IsCrdt(work, stmt.table) /\ work' = DropTriggers(work, stmt.table))
      BY <1>5 DEF BeginSchemaChange, Start, Settle, handle
    <2>2. stmt.table \in Names
      BY <1>a, <2>1 DEF ShapeInv, Handling, Statement
    <2>3. work'.hlc = work.hlc
      BY <1>0, <2>1, <2>2, TriggersReshape DEF Reshapes, SameRest, IsCrdt
    <2> QED
      BY <2>1, <2>3
  <1>6. CASE BeginSchemaChangeFails \/ Execute \/ ExecuteFails \/ ExecuteFailsHard \/ Interrupt
    <2>1. pc' \in {"closure", "ran"}
      BY <1>6 DEF BeginSchemaChangeFails, Execute, ExecuteFails, ExecuteFailsHard, Interrupt,
         ToClosure
    <2>2. UNCHANGED clock /\ txHlc' \in {txHlc, 0}
      BY <1>6 DEF BeginSchemaChangeFails, Execute, ExecuteFails, ExecuteFailsHard, Interrupt,
         RolledBack, RolledBackToSavepoint, sqlite, handle
    <2> QED
      BY <2>1, <2>2
  <1>7. CASE CompleteSchemaChange \/ CompleteSchemaChangeFails \/ EndCopy \/ EndCopyFails
    <2>1. pc' = "closure"
      BY <1>7 DEF CompleteSchemaChange, CompleteSchemaChangeFails, EndCopy, EndCopyFails, ToClosure
    <2>2. UNCHANGED clock /\ txHlc' \in {txHlc, 0}
      BY <1>7 DEF CompleteSchemaChange, CompleteSchemaChangeFails, EndCopy, EndCopyFails,
         RolledBack, RolledBackToSavepoint, handle
    <2> QED
      BY <2>1, <2>2
  <1>8. CASE Commit \/ CommitFails \/ Abandon \/ Crash
    BY <1>8 DEF Commit, CommitFails, Abandon, Return, Crash, RolledBack
  <1>9. CASE Reopen \/ (\E t \in Names : InstallCrdt(t)) \/ InstallCrdtFails
    <2>1. pc' = "idle" /\ pc \in {"idle", "closed"} /\ UNCHANGED txHlc
      BY <1>9 DEF Reopen, InstallCrdt, InstallCrdtFails
    <2> QED
      BY <1>b, <2>1 DEF Writing
  <1>10. CASE (\E g \in BOOLEAN : BeginRead(g)) \/ ReadStatement \/ ReadStatementEnds \/ EndRead
    BY <1>10 DEF BeginRead, ReadStatement, ReadStatementEnds, EndRead, sqlite, handle
  <1>11. CASE UNCHANGED vars
    BY <1>11 DEF vars, sqlite, handle
  <1> QED
    BY <1>1, <1>2, <1>3, <1>4, <1>5, <1>6, <1>7, <1>8, <1>9, <1>10, <1>11 DEF Next

\* What PendingIsMarked says of a row, with the marks dirty.
RowGood(row, dirty) ==
    \A c \in Shipped(Cols) : row.given[c] # None =>
        /\ row.given[c].hlc <= row.cols[c] /\ row.cols[c] <= row.hlc
        /\ row.given[c].as \in dirty

\* Rows of a table in a database whose stored HLC is top.
Good(tb, top, dirty) ==
    \A k \in Keys : tb.rows[k] # None =>
        tb.rows[k].hlc <= top /\ (~tb.loose => RowGood(tb.rows[k], dirty))
Sound(db) == \A t \in Names : Exists(db, t) => Good(db.tab[t], db.hlc, db.dirty)

LEMMA RowGoodKept ==
    ASSUME NEW row, NEW x, NEW y, x \subseteq y, RowGood(row, x)
    PROVE  RowGood(row, y)
  BY DEF RowGood

LEMMA GoodKept ==
    ASSUME NEW a \in Table, NEW b, NEW m \in Int, NEW n \in Int, m <= n,
           NEW x, NEW y, x \subseteq y, Good(a, m, x), ~b.loose => ~a.loose,
           \A k \in Keys : b.rows[k] = None \/ b.rows[k] = a.rows[k]
    PROVE  Good(b, n, y)
  <1> SUFFICES ASSUME NEW k \in Keys, b.rows[k] # None
               PROVE  b.rows[k].hlc <= n /\ (~b.loose => RowGood(b.rows[k], y))
    BY DEF Good
  <1>1. b.rows[k] = a.rows[k] /\ a.rows[k] # None
    OBVIOUS
  <1>2. a.rows[k] \in Row
    BY <1>1 DEF Table
  <1>3. a.rows[k].hlc \in Int
    BY <1>2, MaxHlcNat DEF Row
  <1>4. a.rows[k].hlc <= m /\ (~a.loose => RowGood(a.rows[k], x))
    BY <1>1 DEF Good
  <1> QED
    BY <1>1, <1>3, <1>4, RowGoodKept

LEMMA HlcOf ==
    ASSUME NEW db \in Database
    PROVE  db.hlc \in Int /\ db.hlc <= db.hlc
  BY MaxHlcNat DEF Database

\* Tables that are as they were, or have fewer rows, stay sound.
LEMMA TableSound ==
    ASSUME NEW db \in Database, Sound(db), NEW n \in Names, Exists(db, n), NEW tb, NEW d,
           d.hlc \in Int, db.hlc <= d.hlc, db.dirty \subseteq d.dirty,
           ~tb.loose => ~db.tab[n].loose,
           \A k \in Keys : tb.rows[k] = None \/ tb.rows[k] = db.tab[n].rows[k]
    PROVE  Good(tb, d.hlc, d.dirty)
  <1>1. db.tab[n] \in Table /\ Good(db.tab[n], db.hlc, db.dirty) /\ db.hlc \in Int
    BY TableOf, HlcOf DEF Sound
  <1> QED
    BY <1>1, GoodKept

LEMMA SoundRest ==
    ASSUME NEW db \in Database, Sound(db)
    PROVE  /\ \A x \in 0..MaxHlc : db.hlc <= x => Sound([db EXCEPT !.hlc = x])
           /\ \A x : Sound([db EXCEPT !.gate = x])
  <1>1. ASSUME NEW x \in 0..MaxHlc, db.hlc <= x PROVE Sound([db EXCEPT !.hlc = x])
    <2> DEFINE d == [db EXCEPT !.hlc = x]
    <2>1. d.tab = db.tab /\ d.dirty = db.dirty /\ d.hlc = x /\ x \in Int
      BY MaxHlcNat DEF Database
    <2> HIDE DEF d
    <2>2. ASSUME NEW n \in Names, Exists(d, n) PROVE Good(d.tab[n], d.hlc, d.dirty)
      <3>1. Exists(db, n)
        BY <2>1, <2>2 DEF Exists
      <3> QED
        BY <1>1, <2>1, <3>1, TableSound
    <2> QED
      BY <2>2 DEF Sound, d
  <1>2. ASSUME NEW x PROVE Sound([db EXCEPT !.gate = x])
    <2>1. /\ [db EXCEPT !.gate = x].tab = db.tab /\ [db EXCEPT !.gate = x].hlc = db.hlc
          /\ [db EXCEPT !.gate = x].dirty = db.dirty
      BY DEF Database
    <2> QED
      BY <2>1 DEF Sound, Exists
  <1> QED
    BY <1>1, <1>2

\* Other triggers, a new column or one fewer.
LEMMA SoundReshaped ==
    ASSUME NEW db \in Database, NEW d, NEW t \in Names, Exists(db, t), Reshapes(db, d, t),
           Sound(db), ~d.tab[t].loose => ~db.tab[t].loose
    PROVE  Sound(d)
  <1>1. /\ d.dirty = db.dirty /\ d.hlc = db.hlc /\ \A n \in Names \ {t} : d.tab[n] = db.tab[n]
        /\ d.tab[t].rows = db.tab[t].rows
    BY DEF Reshapes, SameRest
  <1>2. Good(d.tab[t], d.hlc, d.dirty)
    BY <1>1, TableSound, HlcOf
  <1> QED
    BY <1>1, <1>2 DEF Sound, Exists

LEMMA SoundRemoved ==
    ASSUME NEW db \in Database, NEW d, NEW ts, RemovesRows(db, d, ts), Sound(db)
    PROVE  Sound(d)
  <1> SUFFICES ASSUME NEW n \in Names, Exists(d, n) PROVE Good(d.tab[n], d.hlc, d.dirty)
    BY DEF Sound
  <1>1. /\ Exists(db, n) /\ SameSchema(d.tab[n], db.tab[n]) /\ db.dirty \subseteq d.dirty
        /\ d.hlc = db.hlc
    BY DEF RemovesRows, RowsOnly
  <1>2. \A k \in Keys : d.tab[n].rows[k] = None \/ d.tab[n].rows[k] = db.tab[n].rows[k]
    BY <1>1 DEF RemovesRows
  <1> QED
    BY <1>1, <1>2, TableSound, HlcOf DEF SameSchema

\* The HLCs of a row are numbers.
LEMMA RowHlcs ==
    ASSUME NEW row \in Row
    PROVE  /\ row.hlc \in Int
           /\ \A c \in Cols : /\ row.cols[c] \in Int
                              /\ row.given[c] # None => row.given[c] \in Given /\ row.given[c].hlc \in Int
  <1>1. MaxHlc \in Nat
    BY MaxHlcNat
  <1>2. row.hlc \in Int /\ row.cols \in [Cols -> 0..MaxHlc] /\ row.given \in [Cols -> Given \cup {None}]
    BY <1>1 DEF Row
  <1>3. \A g \in Given : g.hlc \in Int
    BY <1>1 DEF Given
  <1> QED
    BY <1>1, <1>2, <1>3

\* The row a write leaves. A stamped write finds its trigger on, over the table's columns.
LEMMA WritesRowGood ==
    ASSUME NEW db \in Database, NEW t \in Names, Exists(db, t), NEW k \in Keys, NEW c,
           NEW h \in Nat, NEW d, WritesRow(db, d, t, k, c, h), Sound(db), ~db.tab[t].loose,
           h # 0 => db.gate = TRUE /\ Synced(t) /\ Tidy(db, t) /\ IsCrdt(db, t) /\ h = db.hlc
    PROVE  RowGood(d.tab[t].rows[k], d.dirty)
  <1> DEFINE row == d.tab[t].rows[k]
             old == db.tab[t].rows[k]
  <1>1. db.dirty \subseteq d.dirty /\ row \in Row
    BY DEF WritesRow, RowsOnly
  <1>2. ASSUME k \in RowKeys(db, t)
        PROVE  old \in Row /\ old.hlc <= db.hlc /\ RowGood(old, db.dirty)
    <2>1. old \in Row /\ old # None
      BY <1>2, TableOf, NotNone
    <2> QED
      BY <2>1 DEF Sound, Good
  <1>3. db.tab[t] \in Table /\ db.tab[t].cols \subseteq Cols /\ db.hlc \in Int
    BY TableOf, HlcOf DEF Table
  <1> SUFFICES ASSUME NEW a \in Shipped(Cols), row.given[a] # None
               PROVE  /\ row.given[a].hlc <= row.cols[a] /\ row.cols[a] <= row.hlc
                      /\ row.given[a].as \in d.dirty
    BY DEF RowGood
  <1>4. a \in Cols /\ a \notin NoSyncCols
    BY DEF Shipped
  <1>5. CASE h = 0
    <2>1. /\ k \in RowKeys(db, t) /\ row.hlc = old.hlc
          /\ row.cols[a] \in {old.cols[a], old.hlc} /\ row.given[a] = old.given[a]
      BY <1>4, <1>5 DEF WritesRow
    <2>2. old \in Row /\ RowGood(old, db.dirty)
      BY <1>2, <2>1
    <2> HIDE DEF old, row
    <2>3. old.given[a].hlc <= old.cols[a] /\ old.cols[a] <= old.hlc /\ old.given[a].as \in db.dirty
      BY <2>1, <2>2 DEF RowGood
    <2>4. old.hlc \in Int /\ old.cols[a] \in Int /\ old.given[a].hlc \in Int
      BY <1>4, <2>1, <2>2, RowHlcs
    <2> QED
      BY <1>1, <2>1, <2>3, <2>4
  <1>6. CASE h # 0
    <2>1. row.hlc = h
      BY <1>6 DEF WritesRow
    <2>2. CASE k \in RowKeys(db, t) /\ row.given[a] = old.given[a] /\ row.cols[a] \in {old.cols[a], h}
      <3>1. old \in Row /\ old.hlc <= h /\ RowGood(old, db.dirty)
        BY <1>2, <1>6, <2>2
      <3> HIDE DEF old, row
      <3>2. old.given[a].hlc <= old.cols[a] /\ old.cols[a] <= old.hlc /\ old.given[a].as \in db.dirty
        BY <2>2, <3>1 DEF RowGood
      <3>3. old.hlc \in Int /\ old.cols[a] \in Int /\ old.given[a].hlc \in Int
        BY <1>4, <2>2, <3>1, RowHlcs
      <3> QED
        BY <1>1, <2>1, <2>2, <3>1, <3>2, <3>3
    <2>3. CASE /\ a \in db.tab[t].cols /\ row.given[a] = [hlc |-> h, as |-> t]
               /\ \A g \in Firing(db, t) : a \in g.cols => row.cols[a] = h /\ g.of \in d.dirty
      <3> DEFINE g == [of |-> t, cols |-> Shipped(db.tab[t].cols)]
      <3>1. g \in Firing(db, t)
        BY <1>6 DEF Tidy, TableInStep, IsCrdt, Firing
      <3>2. a \in g.cols /\ g.of = t
        BY <1>4, <2>3 DEF Shipped
      <3> HIDE DEF g
      <3>3. row.cols[a] = h /\ t \in d.dirty
        BY <2>3, <3>1, <3>2
      <3>4. row.given[a].hlc = h /\ row.given[a].as = t
        BY <2>3
      <3> QED
        BY <2>1, <3>3, <3>4
    <2> QED
      BY <1>4, <1>6, <2>2, <2>3 DEF WritesRow
  <1> QED
    BY <1>5, <1>6

LEMMA WritesSound ==
    ASSUME NEW db \in Database, NEW s \in Statement, s.hlc <= MaxHlc, Runs(db, s),
           s.op \in {"insert", "upsert", "update"}, Sound(db),
           s.hlc # 0 => db.gate = TRUE /\ Synced(s.table) /\ Tidy(db, s.table) /\ s.hlc = db.hlc
    PROVE  Sound(Effect(db, s))
  <1> DEFINE t == s.table
             d == Effect(db, s)
             k == s.key
             c == s.col
             h == s.hlc
             row == d.tab[t].rows[k]
             old == db.tab[t].rows[k]
  <1>0. /\ t \in Names /\ k \in Keys /\ h \in Nat /\ Exists(db, t) /\ db.tab[t] \in Table
        /\ h # 0 => IsCrdt(db, t)
    BY RunsNeeds, TableOf DEF Statement
  <1>1. WritesRow(db, d, t, k, c, h)
    BY EffectWrites
  <1> HIDE DEF d
  <1>2. /\ db.dirty \subseteq d.dirty /\ d.hlc = db.hlc
        /\ \A n \in Names \ {t} : d.tab[n] = db.tab[n]
        /\ Exists(d, t) /\ SameSchema(d.tab[t], db.tab[t])
        /\ \A j \in Keys \ {k} : d.tab[t].rows[j] = db.tab[t].rows[j]
    BY <1>0, <1>1 DEF WritesRow, RowsOnly
  <1>3. Good(db.tab[t], db.hlc, db.dirty) /\ db.hlc \in Int /\ db.hlc <= db.hlc /\ db.hlc >= 0
    BY <1>0, HlcOf, MaxHlcNat DEF Sound, Database
  <1>4. row.hlc <= d.hlc
    <2>1. CASE h = 0 /\ k \in RowKeys(db, t)
      <3>1. row.hlc = old.hlc /\ old # None
        BY <1>0, <1>1, <2>1 DEF WritesRow, RowKeys
      <3> QED
        BY <1>0, <1>2, <1>3, <3>1 DEF Good
    <2>2. CASE h = 0 /\ k \notin RowKeys(db, t)
      <3>1. row.hlc = 0
        BY <1>1, <2>2 DEF WritesRow
      <3> QED
        BY <1>2, <1>3, <3>1
    <2>3. CASE h # 0
      <3>1. row.hlc = h
        BY <1>1, <2>3 DEF WritesRow
      <3> QED
        BY <1>2, <1>3, <2>3, <3>1
    <2> QED
      BY <2>1, <2>2, <2>3
  <1>5. ~d.tab[t].loose => RowGood(row, d.dirty)
    <2> SUFFICES ASSUME ~d.tab[t].loose PROVE RowGood(row, d.dirty)
      OBVIOUS
    <2>1. ~db.tab[t].loose
      BY <1>2 DEF SameSchema
    <2> HIDE DEF t, k, c, h
    <2> QED
      BY <1>0, <1>1, <2>1, WritesRowGood DEF t, h
  <1>6. ASSUME NEW j \in Keys \ {k}, d.tab[t].rows[j] # None
        PROVE  /\ d.tab[t].rows[j].hlc <= d.hlc
               /\ ~d.tab[t].loose => RowGood(d.tab[t].rows[j], d.dirty)
    <2>1. d.tab[t].rows[j] = db.tab[t].rows[j] /\ (~d.tab[t].loose => ~db.tab[t].loose)
      BY <1>2, <1>6 DEF SameSchema
    <2>2. db.tab[t].rows[j].hlc <= db.hlc /\ (~db.tab[t].loose => RowGood(db.tab[t].rows[j], db.dirty))
      BY <1>3, <1>6, <2>1 DEF Good
    <2> QED
      BY <1>2, <2>1, <2>2, RowGoodKept
  <1>7. Good(d.tab[t], d.hlc, d.dirty)
    BY <1>4, <1>5, <1>6 DEF Good
  <1>8. ASSUME NEW n \in Names \ {t}, Exists(d, n) PROVE Good(d.tab[n], d.hlc, d.dirty)
    <2>1. Exists(db, n) /\ d.tab[n] = db.tab[n]
      BY <1>2, <1>8 DEF Exists
    <2> QED
      BY <1>2, <1>3, <1>8, <2>1, TableSound
  <1> QED
    BY <1>7, <1>8 DEF Sound, d

LEMMA EffectSound ==
    ASSUME NEW db \in Database, NEW s \in Statement, s.hlc <= MaxHlc, Runs(db, s), Sound(db),
           s.op \in {"insert", "upsert", "update"} /\ s.hlc # 0 =>
             db.gate = TRUE /\ Synced(s.table) /\ Tidy(db, s.table) /\ s.hlc = db.hlc,
           s.op = "copy" => db.gate = FALSE
    PROVE  Sound(Effect(db, s))
  <1> DEFINE t == s.table
             u == s.other
             d == Effect(db, s)
  <1>0. t \in Names /\ u \in Names /\ db.hlc \in Int /\ db.hlc <= db.hlc
    BY HlcOf DEF Statement
  <1>1. CASE s.op = "query"
    BY <1>1 DEF Effect
  <1>2. CASE s.op \in {"insert", "upsert", "update"}
    BY <1>2, WritesSound
  <1>3. CASE s.op = "delete"
    <2> DEFINE ks == {s.key} \cap RowKeys(db, t)
               cs == Cascaded(DeleteRows(db, t, ks), t, ks)
               ts == {t} \cup (IF cs = {} THEN {} ELSE {Child})
    <2>1. RemovesRows(db, d, ts)
      BY <1>3, RunsNeeds, EffectDeletes
    <2> HIDE DEF ts, d
    <2> QED
      BY <2>1, SoundRemoved DEF d
  <1>4. CASE s.op = "create"
    <2>1. /\ SameRest(db, d) /\ d.tab[t].rows = NoRows
          /\ \A n \in Names \ {t} : d.tab[n] = db.tab[n]
      BY <1>4, CreatePuts
    <2> HIDE DEF d
    <2>2. Good(d.tab[t], d.hlc, d.dirty)
      BY <2>1 DEF Good, NoRows
    <2> QED
      BY <2>1, <2>2 DEF Sound, SameRest, Exists, d
  <1>5. CASE s.op \in {"add", "remove"}
    <2>1. Exists(db, t) /\ db.tab[t] \in Table
      BY <1>0, <1>5, RunsNeeds, TableOf
    <2>2. /\ Reshapes(db, d, t)
          /\ d.tab[t].loose = (db.tab[t].loose \/ (db.tab[t].crdt /\ Unguarded))
      BY <1>5, <2>1, EffectAlters
    <2> HIDE DEF d
    <2>3. ~d.tab[t].loose => ~db.tab[t].loose
      BY <2>1, <2>2 DEF Table
    <2> QED
      BY <1>0, <2>1, <2>2, <2>3, SoundReshaped DEF d
  <1>6. CASE s.op = "rename"
    <2>1. Exists(db, t) /\ ~Exists(db, u) /\ db.tab[t] \in Table
      BY <1>0, <1>6, RunsNeeds, TableOf
    <2>2. /\ d.dirty = db.dirty /\ d.tab[t] = None
          /\ d.tab[u].rows = db.tab[t].rows
          /\ d.tab[u].loose = (db.tab[t].loose \/ (db.tab[t].crdt /\ Unguarded))
          /\ \A n \in Names \ {t, u} : d.tab[n] = db.tab[n]
      BY <1>6, <2>1, EffectRenames
    <2>3. d.hlc = db.hlc
      BY EffectTyped
    <2> HIDE DEF d
    <2>4. Good(d.tab[u], d.hlc, d.dirty)
      <3>1. ~d.tab[u].loose => ~db.tab[t].loose
        BY <2>1, <2>2 DEF Table
      <3> QED
        BY <1>0, <2>1, <2>2, <2>3, <3>1, TableSound
    <2> QED
      BY <2>2, <2>3, <2>4 DEF Sound, Exists, d
  <1>7. CASE s.op = "drop"
    <2> DEFINE ks == RowKeys(db, t)
               e == Cascade(db, t, ks)
               ts == IF Cascaded(db, t, ks) = {} THEN {} ELSE {Child}
    <2>1. ks \in SUBSET Keys
      BY <1>0, TableOf
    <2>2. d.tab[t] = None /\ SameRest(e, d) /\ \A n \in Names \ {t} : d.tab[n] = e.tab[n]
      BY <1>7, RunsNeeds, DropPuts
    <2>3. RemovesRows(db, e, ts)
      <3> HIDE DEF ks
      <3> QED
        BY <1>0, <2>1, CascadeRemoves
    <2> HIDE DEF d, e, ts
    <2>4. Sound(e)
      BY <2>3, SoundRemoved
    <2> QED
      BY <2>2, <2>4 DEF Sound, SameRest, Exists, d
  <1>8. CASE s.op = "copy"
    <2>1. Exists(db, t) /\ Exists(db, u) /\ db.tab[t] \in Table /\ db.tab[u] \in Table
      BY <1>0, <1>8, RunsNeeds, TableOf
    <2>2. Copies(db, d, t, u)
      BY <1>0, <1>8, <2>1, CopyCopies DEF Effect
    <2> HIDE DEF d
    <2>3. /\ d.dirty = db.dirty /\ d.hlc = db.hlc /\ \A n \in Names \ {t} : d.tab[n] = db.tab[n]
          /\ d.tab[t].loose = (db.tab[t].loose \/ db.tab[u].loose)
          /\ \A k \in Keys : d.tab[t].rows[k] \in {db.tab[t].rows[k], db.tab[u].rows[k]}
      BY <1>8, <2>2 DEF Copies
    <2>4. ~d.tab[t].loose => ~db.tab[t].loose /\ ~db.tab[u].loose
      BY <2>1, <2>3 DEF Table
    <2>5. Good(db.tab[t], db.hlc, db.dirty) /\ Good(db.tab[u], db.hlc, db.dirty)
      BY <1>0, <2>1 DEF Sound
    <2>6. Good(d.tab[t], d.hlc, d.dirty)
      BY <2>3, <2>4, <2>5 DEF Good
    <2> QED
      BY <2>3, <2>6 DEF Sound, Exists, d
  <1> QED
    BY <1>1, <1>2, <1>3, <1>4, <1>5, <1>6, <1>7, <1>8 DEF Statement, Ops

\* Stamping on open and install_crdt mark what they stamp.
LEMMA StampsSound ==
    ASSUME NEW db \in Database, NEW d, NEW ts \in SUBSET Names, \A n \in ts : Exists(db, n),
           NEW h \in Int, db.hlc <= h, Stamps(db, d, ts, h), Sound(db)
    PROVE  Sound(d)
  <1> SUFFICES ASSUME NEW n \in Names, Exists(d, n) PROVE Good(d.tab[n], d.hlc, d.dirty)
    BY DEF Sound
  <1>1. d.dirty = db.dirty \cup ts /\ d.hlc = h /\ db.dirty \subseteq d.dirty
    BY DEF Stamps
  <1>2. CASE n \notin ts
    <2>1. d.tab[n] = db.tab[n]
      BY <1>2 DEF Stamps
    <2>2. Exists(db, n)
      BY <2>1 DEF Exists
    <2> QED
      BY <1>1, <2>1, <2>2, TableSound
  <1>3. CASE n \in ts
    <2>1. /\ SameSchema(d.tab[n], db.tab[n])
          /\ \A k \in Keys : IF k \in Unstamped(db, n)
                             THEN /\ d.tab[n].rows[k].hlc = h
                                  /\ \A c \in Cols : StampedColumn(d.tab[n].rows[k], n, c, h)
                             ELSE d.tab[n].rows[k] = db.tab[n].rows[k]
      BY <1>3 DEF Stamps
    <2>2. Good(db.tab[n], h, d.dirty)
      <3>1. db.tab[n] \in Table /\ Good(db.tab[n], db.hlc, db.dirty) /\ db.hlc \in Int
        BY <1>3, TableOf, HlcOf DEF Sound
      <3> QED
        BY <1>1, <3>1, GoodKept
    <2>3. ASSUME NEW k \in Keys, d.tab[n].rows[k] # None
          PROVE  /\ d.tab[n].rows[k].hlc <= d.hlc
                 /\ ~d.tab[n].loose => RowGood(d.tab[n].rows[k], d.dirty)
      <3>1. CASE k \in Unstamped(db, n)
        <4> DEFINE row == d.tab[n].rows[k]
        <4>1. row.hlc = h /\ \A c \in Cols : StampedColumn(row, n, c, h)
          BY <2>1, <3>1
        <4> HIDE DEF row
        <4>2. ASSUME NEW c \in Shipped(Cols), row.given[c] # None
              PROVE  /\ row.given[c].hlc <= row.cols[c] /\ row.cols[c] <= row.hlc
                     /\ row.given[c].as \in d.dirty
          <5>1. row.given[c] = [hlc |-> h, as |-> n] /\ row.cols[c] = h
            BY <4>1, <4>2 DEF StampedColumn, Shipped
          <5>2. row.given[c].hlc = h /\ row.given[c].as = n
            BY <5>1
          <5> QED
            BY <1>1, <1>3, <4>1, <5>1, <5>2
        <4> QED
          BY <1>1, <4>1, <4>2 DEF RowGood, row
      <3>2. CASE k \notin Unstamped(db, n)
        BY <1>1, <2>1, <2>2, <2>3, <3>2 DEF Good, SameSchema
      <3> QED
        BY <3>1, <3>2
    <2> QED
      BY <2>3 DEF Good
  <1> QED
    BY <1>2, <1>3

\* Every database the connection has or could fall back to.
MarkInv == Sound(disk) /\ Sound(work) /\ (savepoint # None => Sound(savepoint))

LEMMA StepMarks ==
    TypeInv /\ Control /\ TriggerInv /\ StampInv /\ MarkInv /\ [Next]_vars => MarkInv'
  <1> SUFFICES ASSUME TypeInv, Control, TriggerInv, StampInv, MarkInv, [Next]_vars
               PROVE  MarkInv'
    OBVIOUS
  <1>0. /\ disk \in Database /\ work \in Database /\ savepoint \in Database \cup {None}
        /\ Sound(disk) /\ Sound(work) /\ (savepoint # None => Sound(savepoint))
    BY DEF TypeInv, TypeOK, MarkInv
  <1>1. TxInv /\ GateInv /\ ShapeInv
    BY DEF Control
  <1>a. /\ clock \in Nat /\ txHlc \in Nat /\ disk.hlc \in Int /\ work.hlc \in Int
        /\ disk.hlc <= clock /\ work.hlc <= clock
    BY <1>0, HlcOf DEF TypeInv, TypeOK, BoundInv
  <1>2. Moves
    BY StepMoves DEF TypeInv
  <1>3. CASE Stays \/ Declines
    BY <1>0, <1>3 DEF Stays, Declines, MarkInv
  <1>4. CASE RollsBack \/ BacksUp
    BY <1>0, <1>4 DEF RollsBack, RolledBack, BacksUp, MarkInv
  <1>5. CASE SetsHlc
    <2>1. PICK h \in 0..MaxHlc : /\ h = IF txHlc = 0 THEN clock + 1 ELSE txHlc
                                 /\ work' = [work EXCEPT !.hlc = h]
      BY <1>5 DEF SetsHlc
    <2>2. work.hlc <= h
      BY <1>a, <2>1 DEF StampInv
    <2>3. Sound(work')
      BY <1>0, <2>1, <2>2, SoundRest
    <2> QED
      BY <1>0, <1>5, <2>3 DEF SetsHlc, MarkInv
  <1>6. CASE BeginSchemaChange
    <2> DEFINE t == stmt.table
               d == DropTriggers(work, t)
    <2>1. t \in Names
      BY <1>1, <1>6 DEF BeginSchemaChange, ShapeInv, Handling, Statement
    <2>2. /\ savepoint' = work /\ UNCHANGED disk
          /\ work' = work \/ (IsCrdt(work, t) /\ work' = d)
      BY <1>6 DEF BeginSchemaChange, Settle
    <2>3. IsCrdt(work, t) => Sound(d)
      <3> SUFFICES ASSUME Exists(work, t) PROVE Sound(d)
        BY DEF IsCrdt
      <3>1. Reshapes(work, d, t) /\ d.tab[t].loose = work.tab[t].loose
        BY <1>0, <2>1, TriggersReshape
      <3> HIDE DEF d, t
      <3> QED
        BY <1>0, <2>1, <3>1, SoundReshaped
    <2> QED
      BY <1>0, <2>2, <2>3 DEF MarkInv
  <1>7. ASSUME NEW s \in Statements, BeginCopy(s) PROVE MarkInv'
    <2>1. savepoint' = work /\ UNCHANGED disk /\ work' = [work EXCEPT !.gate = FALSE]
      BY <1>7 DEF BeginCopy, Settle
    <2> QED
      BY <1>0, <2>1, SoundRest DEF MarkInv
  <1>8. CASE Execute
    <2>1. /\ pc = "running" /\ Runs(work, stmt) /\ UNCHANGED savepoint
          /\ work' = Effect(work, stmt) /\ (disk' = disk \/ disk' = work')
      BY <1>8 DEF Execute, Settle
    <2>2. stmt \in Statement /\ stmt.hlc <= clock /\ (stmt.op = "copy" => work.gate = FALSE)
      BY <1>1, <2>1 DEF ShapeInv, TypeInv, BoundInv, Handling
    <2>3. stmt.hlc <= MaxHlc
      BY <2>2, MaxHlcNat DEF Statement, TypeInv, TypeOK
    <2>4. ASSUME stmt.op \in {"insert", "upsert", "update"}, stmt.hlc # 0
          PROVE  /\ work.gate = TRUE /\ Synced(stmt.table) /\ Tidy(work, stmt.table)
                 /\ stmt.hlc = work.hlc
      <3>1. work.gate = TRUE
        BY <1>1, <2>4 DEF GateInv, Gated
      <3>2. Synced(stmt.table) /\ stmt.table \in Names
        BY <1>1, <2>1, <2>2, <2>4 DEF ShapeInv, Handling, Statement
      <3>3. savepoint = None
        BY <1>1, <2>1, <2>4 DEF TxInv, InSavepoint, ChangesSchema
      <3>4. stmt.hlc = work.hlc
        BY <2>1, <2>4 DEF StampInv
      <3> QED
        BY <3>1, <3>2, <3>3, <3>4 DEF TriggerInv, AllTidy
    <2>5. Sound(work')
      BY <1>0, <2>1, <2>2, <2>3, <2>4, EffectSound
    <2> QED
      BY <1>0, <2>1, <2>5 DEF MarkInv
  <1>9. CASE CompleteSchemaChange
    <2> DEFINE t == NameAfter
               d == SetupTriggers(work, t)
    <2>1. /\ pc = "ran" /\ savepoint' = None /\ (disk' = disk \/ disk' = work')
          /\ work' = work \/ (IsCrdt(work, t) /\ work' = d)
      BY <1>9 DEF CompleteSchemaChange, Settle
    <2>2. t \in Names
      BY <1>1, <2>1 DEF ShapeInv, Handling, Statement, NameAfter
    <2>3. IsCrdt(work, t) => Sound(d)
      <3> SUFFICES ASSUME Exists(work, t) PROVE Sound(d)
        BY DEF IsCrdt
      <3> HIDE DEF t
      <3>1. Reshapes(work, d, t) /\ d.tab[t].loose = work.tab[t].loose
        BY <1>0, <2>2, TriggersReshape
      <3> HIDE DEF d
      <3> QED
        BY <1>0, <2>2, <3>1, SoundReshaped
    <2> QED
      BY <1>0, <2>1, <2>3 DEF MarkInv
  <1>10. CASE EndCopy
    <2>1. /\ savepoint' = None /\ (disk' = disk \/ disk' = work')
          /\ work' = [work EXCEPT !.gate = savepoint.gate]
      BY <1>10 DEF EndCopy, Settle
    <2>2. Sound(work')
      BY <1>0, <2>1, SoundRest
    <2> QED
      BY <1>0, <2>1, <2>2 DEF MarkInv
  <1>11. CASE Commit \/ CommitFails
    BY <1>0, <1>11 DEF Commit, CommitFails, Settle, MarkInv
  <1>12. CASE Reopen
    <2> DEFINE ts == {t \in Names : IsCrdt(disk, t) /\ Unstamped(disk, t) # {}}
    <2>1. disk.hlc + 1 <= MaxHlc
      BY <1>12, RoomForHlc, MaxHlcNat DEF Reopen, TypeInv, BoundInv, TypeOK
    <2>2. disk' = disk \/ Stamps(disk, disk', ts, disk.hlc + 1)
      BY <1>0, <1>12, <2>1, StampUnstampedTyped DEF Reopen
    <2>3. ts \in SUBSET Names /\ \A n \in ts : Exists(disk, n)
      BY DEF IsCrdt
    <2> HIDE DEF ts
    <2>4. disk.hlc + 1 \in Int /\ disk.hlc <= disk.hlc + 1
      BY <1>a
    <2>5. Sound(disk')
      BY <1>0, <2>2, <2>3, <2>4, StampsSound
    <2> QED
      BY <1>0, <1>12, <2>5 DEF Reopen, MarkInv
  <1>13. ASSUME NEW t \in Names, InstallCrdt(t) PROVE MarkInv'
    <2> DEFINE on == EnsureCrdt(disk, t)
    <2>1. Exists(disk, t) /\ work' = disk' /\ UNCHANGED savepoint
      BY <1>13 DEF InstallCrdt
    <2>2. Reshapes(disk, on, t) /\ on.tab[t].loose = disk.tab[t].loose
      BY <1>0, <2>1, EnsureCrdtReshapes
    <2>3. disk' = on \/ Stamps(on, disk', {t}, clock + 1)
      BY <1>13, InstallTyped
    <2> HIDE DEF on
    <2>4. Sound(on) /\ on \in Database /\ Exists(on, t)
      BY <1>0, <2>1, <2>2, SoundReshaped DEF Reshapes
    <2>5. clock + 1 \in Int /\ on.hlc <= clock + 1
      BY <1>a, <2>2 DEF Reshapes, SameRest
    <2>6. Stamps(on, disk', {t}, clock + 1) => Sound(disk')
      <3>1. {t} \in SUBSET Names /\ \A n \in {t} : Exists(on, n)
        BY <2>4
      <3> QED
        BY <2>4, <2>5, <3>1, StampsSound
    <2> QED
      BY <1>0, <2>1, <2>3, <2>4, <2>6 DEF MarkInv
  <1>14. CASE Begins
    BY <1>0, <1>14 DEF Begins, BeginWrite, MarkInv
  <1> QED
    BY <1>2, <1>3, <1>4, <1>5, <1>6, <1>7, <1>8, <1>9, <1>10, <1>11, <1>12, <1>13, <1>14
       DEF Moves, Writes, Ends

\* Every committed value that a stamped write changed has its column HLC, a row HLC that is
\* not behind it and a dirty mark under the name its table had, if the handle was opened
\* with its triggers in step and no HLC ahead of the stored one. The history starts with
\* the handle: no value is given before it (PendingIsMarked).
THEOREM NewValuesMarked ==
    ASSUME \A t \in Names : TableInStep(FirstDb, t),
           \A t \in Names : \A k \in RowKeys(FirstDb, t) :
             /\ FirstDb.tab[t].rows[k].hlc <= FirstDb.hlc
             /\ \A c \in Cols : FirstDb.tab[t].rows[k].given[c] = None
    PROVE  Spec => []PendingIsMarked
  <1> DEFINE I == TypeInv /\ Control /\ OriginInv /\ TriggerInv /\ StampInv /\ MarkInv
  <1>1. Init => I
    <2> SUFFICES ASSUME Init PROVE I
      OBVIOUS
    <2>1. AllTidy(FirstDb)
      BY DEF AllTidy, Tidy
    <2>2. TriggerInv
      BY <2>1 DEF Init, TriggerInv
    <2>3. ASSUME NEW t \in Names, Exists(FirstDb, t)
          PROVE  Good(FirstDb.tab[t], FirstDb.hlc, FirstDb.dirty)
      <3>1. ASSUME NEW k \in Keys, FirstDb.tab[t].rows[k] # None
            PROVE  /\ FirstDb.tab[t].rows[k].hlc <= FirstDb.hlc
                   /\ \A c \in Cols : FirstDb.tab[t].rows[k].given[c] = None
        BY <2>3, <3>1 DEF RowKeys
      <3> QED
        BY <3>1 DEF Good, RowGood, Shipped
    <2>4. MarkInv
      BY <2>3 DEF Init, MarkInv, Sound
    <2> QED
      BY <2>2, <2>4, InitTypes, InitControl, InitOrigin, InitStamp
  <1>2. I /\ [Next]_vars => I'
    BY StepTypes, StepControl, StepOrigin, StepTriggers, StepStamp, StepMarks
  <1>3. I => PendingIsMarked
    <2> SUFFICES ASSUME Sound(disk), NEW t \in Names, Exists(disk, t), ~disk.tab[t].loose,
                        NEW k \in RowKeys(disk, t), NEW c \in Shipped(Cols),
                        disk.tab[t].rows[k].given[c] # None
                 PROVE  LET row == disk.tab[t].rows[k]
                            last == row.given[c]
                        IN  /\ last.hlc <= row.cols[c] /\ row.cols[c] <= row.hlc
                            /\ last.as \in disk.dirty
      BY DEF MarkInv, PendingIsMarked
    <2>1. k \in Keys /\ disk.tab[t].rows[k] # None
      BY DEF RowKeys
    <2>2. RowGood(disk.tab[t].rows[k], disk.dirty)
      BY <2>1 DEF Sound, Good
    <2> QED
      BY <2>2 DEF RowGood
  <1> QED
    BY <1>1, <1>2, <1>3, PTL DEF Spec
=============================================================================
