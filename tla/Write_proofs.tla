---------------------------- MODULE Write_proofs ----------------------------
(***************************************************************************)
(* Proofs about Write for any tables, rows, statements and limits, and any *)
(* number of calls: the file of a call that does not return Ok, the        *)
(* statement that fails, and what is left between calls, which rest on     *)
(* control alone (which statement finds which transaction open); then what *)
(* each statement does to a database, what each step does to the databases *)
(* (Moves), and the types, which bound the HLCs by the steps taken.        *)
(***************************************************************************)
EXTENDS Write, TLAPS

Writing == {"closure", "prepared", "running", "ran"}
Phases == Writing \cup {"idle", "read", "reading", "closed"}

\* While a write is under way the file is as it was, as its transaction is open
\* or the handle knows that it is not.
FileInv ==
    /\ pc \in Phases
    /\ ~unnoted =>
        /\ pc \in Writing \/ result # "ok" => disk = base
        /\ pc \in Writing /\ ~aborted => ~auto
        /\ pc \in Writing \ {"closure"} => ~aborted

\* Where the state before the statement is kept while the statement runs.
UndoInv ==
    /\ pc = "closure" /\ failed /\ ~auto => work = before
    /\ pc = "prepared" => work = before /\ ChangesSchema(stmt)
    /\ pc = "running" => IF InSavepoint THEN savepoint = before ELSE work = before
    /\ pc = "ran" => savepoint = before

\* What a call has set on the connection, and what it will set back.
ConnInv ==
    /\ pc \in Phases
    /\ conn \in [auth : {"none", "readonly", "guard", "both"}, queryOnly : BOOLEAN, fk : BOOLEAN]
    /\ pc \in {"idle", "closed"} => conn = AtRest
    /\ pc \in {"read", "reading"} => conn.fk
    /\ pc \in Writing => ~conn.queryOnly /\ (IF call.schema THEN call.wasFk = TRUE ELSE conn.fk)
    /\ pc \in Writing \ {"running"} => conn.auth = "none"

\* No transaction, savepoint or slot outlives its call; no savepoint its statement.
TxInv ==
    /\ pc \in Phases
    /\ pc \notin Writing => auto /\ savepoint = None /\ changed = {} /\ txHlc = 0
    /\ pc \in {"closure", "prepared"} => savepoint = None
    /\ pc = "running" /\ ~InSavepoint => savepoint = None

\* The trigger gate is off only while a verbatim copy runs, and then its savepoint
\* has it on.
HasGate(db) == "gate" \in DOMAIN db
Gated(db) == HasGate(db) /\ db.gate = TRUE
GateInv ==
    /\ Gated(disk) /\ HasGate(work)
    /\ (pc \in {"running", "ran"} /\ stmt.op = "copy") \/ Gated(work)
    /\ pc = "prepared" => stmt.op \in Ops \ {"copy"}
    /\ pc = "running" => stmt.op \in Ops /\ (InSavepoint => Gated(savepoint))
    /\ pc = "ran" => Gated(savepoint)

RestInv == ConnInv /\ TxInv /\ GateInv

-----------------------------------------------------------------------------
(* The file                                                                *)

LEMMA InitFile == Init => FileInv
  BY DEF Init, FileInv, Phases, Writing

LEMMA StepFile == FileInv /\ [Next]_vars => FileInv'
  <1> SUFFICES ASSUME FileInv, [Next]_vars PROVE FileInv'
    OBVIOUS
  <1> USE DEF FileInv, Phases, Writing
  <1>1. ASSUME NEW g \in BOOLEAN, NEW s \in BOOLEAN, NEW l \in BOOLEAN, BeginWrite(g, s, l)
        PROVE  FileInv'
    BY <1>1 DEF BeginWrite
  <1>2. ASSUME NEW s \in Statements, Query(s) PROVE FileInv'
    BY <1>2 DEF Query, NextStatement, Start, sqlite
  <1>3. ASSUME NEW s \in Statements, Refuse(s) \/ RefuseCopy(s) PROVE FileInv'
    BY <1>3 DEF Refuse, RefuseCopy, Refused, NextStatement, sqlite
  <1>4. ASSUME NEW s \in Statements, PrepareLocal(s) PROVE FileInv'
    BY <1>4 DEF PrepareLocal, NextStatement, Start, sqlite
  <1>5. ASSUME NEW s \in Statements, PrepareStamped(s) PROVE FileInv'
    BY <1>5 DEF PrepareStamped, NextStatement, Start, Settle, Held
  <1>6. ASSUME NEW s \in Statements, PersistFailsHard(s) PROVE FileInv'
    BY <1>6 DEF PersistFailsHard, NextStatement, RolledBack
  <1>7. ASSUME NEW s \in Statements, BeginCopy(s) PROVE FileInv'
    BY <1>7 DEF BeginCopy, NextStatement, Settle, Start
  <1>8. ASSUME NEW s \in Statements, BeginCopyFails(s) PROVE FileInv'
    BY <1>8 DEF BeginCopyFails, NextStatement, RolledBack, sqlite
  <1>9. CASE BeginSchemaChange
    BY <1>9 DEF BeginSchemaChange, Settle, Start, handle, history
  <1>10. CASE BeginSchemaChangeFails
    BY <1>10 DEF BeginSchemaChangeFails, RolledBack, sqlite, handle
  <1>11. CASE Execute
    BY <1>11 DEF Execute, Settle, Held, ToClosure, handle
  <1>12. CASE ExecuteFails
    BY <1>12 DEF ExecuteFails, RolledBackToSavepoint, Settle, Held, ToClosure
  <1>13. CASE ExecuteFailsHard
    BY <1>13 DEF ExecuteFailsHard, RolledBack, ToClosure
  <1>14. CASE Interrupt
    BY <1>14 DEF Interrupt, RolledBack, RolledBackToSavepoint, Settle, ToClosure, sqlite
  <1>15. CASE CompleteSchemaChange
    BY <1>15 DEF CompleteSchemaChange, Settle, ToClosure, handle
  <1>16. CASE CompleteSchemaChangeFails
    BY <1>16 DEF CompleteSchemaChangeFails, RolledBack, RolledBackToSavepoint, Settle, ToClosure
  <1>17. CASE EndCopy
    BY <1>17 DEF EndCopy, Settle, ToClosure, handle
  <1>18. CASE EndCopyFails
    BY <1>18 DEF EndCopyFails, RolledBack, RolledBackToSavepoint, Settle, ToClosure, handle
  <1>19. CASE Commit
    BY <1>19 DEF Commit, Return
  <1>20. CASE CommitFails
    BY <1>20 DEF CommitFails, Return
  <1>21. CASE Abandon
    BY <1>21 DEF Abandon, RolledBack, Return
  <1>22. CASE Crash
    BY <1>22 DEF Crash, RolledBack
  <1>23. CASE Reopen
    BY <1>23 DEF Reopen
  <1>24. ASSUME NEW t \in Names, InstallCrdt(t) PROVE FileInv'
    BY <1>24 DEF InstallCrdt
  <1>25. CASE InstallCrdtFails
    BY <1>25 DEF InstallCrdtFails
  <1>26. ASSUME NEW g \in BOOLEAN, BeginRead(g) PROVE FileInv'
    BY <1>26 DEF BeginRead, sqlite, handle, history
  <1>27. CASE ReadStatement \/ ReadStatementEnds \/ EndRead
    BY <1>27 DEF ReadStatement, ReadStatementEnds, EndRead, sqlite, handle, history
  <1>28. CASE UNCHANGED vars
    BY <1>28 DEF vars, sqlite, handle, history
  <1> QED
    BY <1>1, <1>2, <1>3, <1>4, <1>5, <1>6, <1>7, <1>8, <1>9, <1>10, <1>11, <1>12, <1>13,
       <1>14, <1>15, <1>16, <1>17, <1>18, <1>19, <1>20, <1>21, <1>22, <1>23, <1>24,
       <1>25, <1>26, <1>27, <1>28 DEF Next

-----------------------------------------------------------------------------
(* The statement that fails                                                *)

LEMMA InitUndo == Init => UndoInv
  BY DEF Init, UndoInv

\* What a closure may run carries no HLC of its own, and stamping it changes
\* nothing else.
LEMMA StampedStatement ==
    ASSUME NEW s \in Statements, NEW h
    PROVE  s.hlc = 0 /\ s.op \in Ops /\ [s EXCEPT !.hlc = h].op = s.op
  <1>1. s \in Statement /\ s.hlc = 0
    BY WriteConstants
  <1> QED
    BY <1>1 DEF Statement

LEMMA StepUndo == UndoInv /\ [Next]_vars => UndoInv'
  <1> SUFFICES ASSUME UndoInv, [Next]_vars PROVE UndoInv'
    OBVIOUS
  <1> USE DEF UndoInv
  <1>1. ASSUME NEW g \in BOOLEAN, NEW s \in BOOLEAN, NEW l \in BOOLEAN, BeginWrite(g, s, l)
        PROVE  UndoInv'
    BY <1>1 DEF BeginWrite
  <1>2. ASSUME NEW s \in Statements, Query(s) PROVE UndoInv'
    BY <1>2 DEF Query, NextStatement, Start, sqlite, InSavepoint, ChangesSchema
  <1>3. ASSUME NEW s \in Statements, Refuse(s) \/ RefuseCopy(s) PROVE UndoInv'
    BY <1>3 DEF Refuse, RefuseCopy, Refused, NextStatement, sqlite
  <1>4. ASSUME NEW s \in Statements, PrepareLocal(s) PROVE UndoInv'
    BY <1>4, StampedStatement DEF PrepareLocal, NextStatement, Start, sqlite, InSavepoint,
       ChangesSchema
  <1>5. ASSUME NEW s \in Statements, PrepareStamped(s) PROVE UndoInv'
    <2> DEFINE h == IF txHlc = 0 THEN clock + 1 ELSE txHlc
               st == [s EXCEPT !.hlc = IF Synced(s.table) THEN h ELSE 0]
    <2>1. st.op # "copy"
      BY <1>5, StampedStatement DEF PrepareStamped
    <2>2. before' = work' /\ UNCHANGED call
      BY <1>5 DEF PrepareStamped, NextStatement
    <2>3. CASE ChangesSchema(st)
      <3>1. pc' = "prepared" /\ stmt' = st
        BY <1>5, <2>3 DEF PrepareStamped
      <3> HIDE DEF st
      <3> QED
        BY <2>2, <2>3, <3>1 DEF ChangesSchema
    <2>4. CASE ~ChangesSchema(st)
      <3>1. pc' = "running" /\ stmt' = st
        BY <1>5, <2>4 DEF PrepareStamped, Start
      <3> HIDE DEF st
      <3> QED
        BY <2>1, <2>2, <2>4, <3>1 DEF ChangesSchema, InSavepoint
    <2> QED
      BY <2>3, <2>4
  <1>6. ASSUME NEW s \in Statements, PersistFailsHard(s) PROVE UndoInv'
    BY <1>6 DEF PersistFailsHard, NextStatement, RolledBack
  <1>7. ASSUME NEW s \in Statements, BeginCopy(s) PROVE UndoInv'
    BY <1>7 DEF BeginCopy, NextStatement, Settle, Start, InSavepoint
  <1>8. ASSUME NEW s \in Statements, BeginCopyFails(s) PROVE UndoInv'
    BY <1>8 DEF BeginCopyFails, NextStatement, RolledBack, sqlite
  <1>9. CASE BeginSchemaChange
    BY <1>9 DEF BeginSchemaChange, Settle, Start, handle, history, InSavepoint, ChangesSchema
  <1>10. CASE BeginSchemaChangeFails
    BY <1>10 DEF BeginSchemaChangeFails, RolledBack, sqlite
  <1>11. CASE Execute
    BY <1>11 DEF Execute, ToClosure
  <1>12. CASE ExecuteFails
    BY <1>12 DEF ExecuteFails, RolledBackToSavepoint, Settle, ToClosure
  <1>13. CASE ExecuteFailsHard
    BY <1>13 DEF ExecuteFailsHard, RolledBack, ToClosure
  <1>14. CASE Interrupt
    BY <1>14 DEF Interrupt, RolledBack, RolledBackToSavepoint, Settle, ToClosure, sqlite
  <1>15. CASE CompleteSchemaChange \/ EndCopy
    BY <1>15 DEF CompleteSchemaChange, EndCopy, ToClosure
  <1>16. CASE CompleteSchemaChangeFails
    BY <1>16 DEF CompleteSchemaChangeFails, RolledBack, RolledBackToSavepoint, Settle, ToClosure
  <1>17. CASE EndCopyFails
    BY <1>17 DEF EndCopyFails, RolledBack, RolledBackToSavepoint, Settle, ToClosure
  <1>18. CASE Commit \/ CommitFails \/ Abandon
    BY <1>18 DEF Commit, CommitFails, Abandon, Return
  <1>19. CASE Crash \/ Reopen
    BY <1>19 DEF Crash, Reopen
  <1>20. ASSUME NEW t \in Names, InstallCrdt(t) PROVE UndoInv'
    BY <1>20 DEF InstallCrdt
  <1>21. CASE InstallCrdtFails
    BY <1>21 DEF InstallCrdtFails
  <1>22. ASSUME NEW g \in BOOLEAN, BeginRead(g) PROVE UndoInv'
    BY <1>22 DEF BeginRead
  <1>23. CASE ReadStatement \/ ReadStatementEnds \/ EndRead
    BY <1>23 DEF ReadStatement, ReadStatementEnds, EndRead
  <1>24. CASE UNCHANGED vars
    BY <1>24 DEF vars, sqlite, handle, history, InSavepoint, ChangesSchema
  <1> QED
    BY <1>1, <1>2, <1>3, <1>4, <1>5, <1>6, <1>7, <1>8, <1>9, <1>10, <1>11, <1>12, <1>13,
       <1>14, <1>15, <1>16, <1>17, <1>18, <1>19, <1>20, <1>21, <1>22, <1>23, <1>24 DEF Next

-----------------------------------------------------------------------------
(* The connection between calls                                            *)

LEMMA StepConn == ConnInv /\ [Next]_vars => ConnInv'
  <1> SUFFICES ASSUME ConnInv, [Next]_vars PROVE ConnInv'
    OBVIOUS
  <1> USE DEF ConnInv, Phases, Writing, AtRest
  <1>1. ASSUME NEW g \in BOOLEAN, NEW s \in BOOLEAN, NEW l \in BOOLEAN, BeginWrite(g, s, l)
        PROVE  ConnInv'
    BY <1>1 DEF BeginWrite
  <1>2. ASSUME NEW s \in Statements, Query(s) \/ PrepareLocal(s) PROVE ConnInv'
    BY <1>2 DEF Query, PrepareLocal, NextStatement, Start
  <1>3. ASSUME NEW s \in Statements, Refuse(s) \/ RefuseCopy(s) PROVE ConnInv'
    BY <1>3 DEF Refuse, RefuseCopy, Refused, NextStatement
  <1>4. ASSUME NEW s \in Statements, PrepareStamped(s) PROVE ConnInv'
    BY <1>4 DEF PrepareStamped, NextStatement, Start
  <1>5. ASSUME NEW s \in Statements, PersistFailsHard(s) \/ BeginCopyFails(s) PROVE ConnInv'
    BY <1>5 DEF PersistFailsHard, BeginCopyFails, NextStatement
  <1>6. ASSUME NEW s \in Statements, BeginCopy(s) PROVE ConnInv'
    BY <1>6 DEF BeginCopy, NextStatement, Start
  <1>7. CASE BeginSchemaChange
    BY <1>7 DEF BeginSchemaChange, Start
  <1>8. CASE BeginSchemaChangeFails
    BY <1>8 DEF BeginSchemaChangeFails
  <1>9. CASE Execute
    BY <1>9 DEF Execute, Uninstalled, ToClosure
  <1>10. CASE ExecuteFails \/ ExecuteFailsHard \/ Interrupt
    BY <1>10 DEF ExecuteFails, ExecuteFailsHard, Interrupt, Uninstalled, ToClosure
  <1>11. CASE \/ CompleteSchemaChange \/ CompleteSchemaChangeFails
              \/ EndCopy \/ EndCopyFails
    BY <1>11 DEF CompleteSchemaChange, CompleteSchemaChangeFails, EndCopy, EndCopyFails,
       ToClosure
  <1>12. CASE Commit \/ CommitFails \/ Abandon
    BY <1>12 DEF Commit, CommitFails, Abandon, Return
  <1>13. CASE Crash
    BY <1>13 DEF Crash
  <1>14. CASE Reopen
    BY <1>14 DEF Reopen
  <1>15. ASSUME NEW t \in Names, InstallCrdt(t) PROVE ConnInv'
    BY <1>15 DEF InstallCrdt
  <1>16. CASE InstallCrdtFails
    BY <1>16 DEF InstallCrdtFails
  <1>17. ASSUME NEW g \in BOOLEAN, BeginRead(g) PROVE ConnInv'
    <2>1. conn = AtRest /\ pc' = "read"
      BY <1>17 DEF BeginRead
    <2>2. conn' = [auth |-> "readonly", queryOnly |-> TRUE, fk |-> TRUE]
      BY <1>17, <2>1 DEF BeginRead
    <2> QED
      BY <2>1, <2>2
  <1>18. CASE ReadStatement \/ ReadStatementEnds
    BY <1>18 DEF ReadStatement, ReadStatementEnds
  <1>19. CASE EndRead
    BY <1>19 DEF EndRead
  <1>20. CASE UNCHANGED vars
    BY <1>20 DEF vars
  <1> QED
    BY <1>1, <1>2, <1>3, <1>4, <1>5, <1>6, <1>7, <1>8, <1>9, <1>10, <1>11, <1>12, <1>13,
       <1>14, <1>15, <1>16, <1>17, <1>18, <1>19, <1>20 DEF Next

LEMMA StepTx == TxInv /\ UndoInv /\ [Next]_vars => TxInv'
  <1> SUFFICES ASSUME TxInv, UndoInv, [Next]_vars PROVE TxInv'
    OBVIOUS
  <1> USE DEF TxInv, Phases, Writing
  <1>1. ASSUME NEW g \in BOOLEAN, NEW s \in BOOLEAN, NEW l \in BOOLEAN, BeginWrite(g, s, l)
        PROVE  TxInv'
    BY <1>1 DEF BeginWrite
  <1>2. ASSUME NEW s \in Statements, Query(s) \/ PrepareLocal(s) PROVE TxInv'
    BY <1>2 DEF Query, PrepareLocal, NextStatement, Start, sqlite
  <1>3. ASSUME NEW s \in Statements, Refuse(s) \/ RefuseCopy(s) PROVE TxInv'
    BY <1>3 DEF Refuse, RefuseCopy, Refused, NextStatement, sqlite
  <1>4. ASSUME NEW s \in Statements, PrepareStamped(s) PROVE TxInv'
    BY <1>4 DEF PrepareStamped, NextStatement, Start
  <1>5. ASSUME NEW s \in Statements, PersistFailsHard(s) \/ BeginCopyFails(s) PROVE TxInv'
    BY <1>5 DEF PersistFailsHard, BeginCopyFails, NextStatement, RolledBack, sqlite
  <1>6. ASSUME NEW s \in Statements, BeginCopy(s) PROVE TxInv'
    BY <1>6 DEF BeginCopy, NextStatement, Start, InSavepoint
  <1>7. CASE BeginSchemaChange
    BY <1>7 DEF BeginSchemaChange, Start, UndoInv, InSavepoint, ChangesSchema
  <1>8. CASE BeginSchemaChangeFails
    BY <1>8 DEF BeginSchemaChangeFails, RolledBack, sqlite
  <1>9. CASE Execute
    BY <1>9 DEF Execute, ToClosure
  <1>10. CASE ExecuteFails
    BY <1>10 DEF ExecuteFails, RolledBackToSavepoint, ToClosure
  <1>11. CASE ExecuteFailsHard \/ Interrupt
    BY <1>11 DEF ExecuteFailsHard, Interrupt, RolledBack, RolledBackToSavepoint, ToClosure,
       sqlite
  <1>12. CASE CompleteSchemaChange \/ EndCopy
    BY <1>12 DEF CompleteSchemaChange, EndCopy, ToClosure
  <1>13. CASE CompleteSchemaChangeFails \/ EndCopyFails
    BY <1>13 DEF CompleteSchemaChangeFails, EndCopyFails, RolledBack, RolledBackToSavepoint,
       ToClosure
  <1>14. CASE Commit \/ CommitFails
    BY <1>14 DEF Commit, CommitFails, Settle, Return
  <1>15. CASE Abandon \/ Crash
    BY <1>15 DEF Abandon, Crash, RolledBack, Return
  <1>16. CASE Reopen
    BY <1>16 DEF Reopen
  <1>17. ASSUME NEW t \in Names, InstallCrdt(t) PROVE TxInv'
    BY <1>17 DEF InstallCrdt
  <1>18. CASE InstallCrdtFails
    BY <1>18 DEF InstallCrdtFails
  <1>19. ASSUME NEW g \in BOOLEAN, BeginRead(g) PROVE TxInv'
    BY <1>19 DEF BeginRead, sqlite
  <1>20. CASE ReadStatement \/ ReadStatementEnds \/ EndRead
    BY <1>20 DEF ReadStatement, ReadStatementEnds, EndRead, sqlite
  <1>21. CASE UNCHANGED vars
    BY <1>21 DEF vars, sqlite, InSavepoint, ChangesSchema
  <1> QED
    BY <1>1, <1>2, <1>3, <1>4, <1>5, <1>6, <1>7, <1>8, <1>9, <1>10, <1>11, <1>12, <1>13,
       <1>14, <1>15, <1>16, <1>17, <1>18, <1>19, <1>20, <1>21 DEF Next

-----------------------------------------------------------------------------
(* The trigger gate                                                        *)

\* d is db with the gate left alone.
KeepsGate(db, d) == HasGate(d) /\ d.gate = db.gate

LEMMA RowsKeepGate ==
    ASSUME NEW db, HasGate(db), NEW t, NEW k, NEW c, NEW same, NEW h
    PROVE  /\ \A names : KeepsGate(db, MarkDirty(db, names))
           /\ KeepsGate(db, InsertRow(db, t, k, h))
           /\ KeepsGate(db, UpdateRow(db, t, k, c, same, h))
           /\ KeepsGate(db, UpsertRow(db, t, k, c, same, h))
  <1> USE DEF KeepsGate, HasGate
  <1>1. \A names, d : HasGate(d) => KeepsGate(d, MarkDirty(d, names))
    BY DEF MarkDirty
  <1>2. \A x : KeepsGate(db, [db EXCEPT !.tab[t].rows[k] = x])
    OBVIOUS
  <1>3. KeepsGate(db, InsertRow(db, t, k, h))
    BY <1>1, <1>2 DEF InsertRow
  <1>4. KeepsGate(db, UpdateRow(db, t, k, c, same, h))
    BY <1>1, <1>2 DEF UpdateRow
  <1>5. KeepsGate(db, UpsertRow(db, t, k, c, same, h))
    <2> DEFINE u == UpdateRow(db, t, k, c, same, h)
    <2>1. KeepsGate(db, u)
      BY <1>4
    <2> HIDE DEF u
    <2>2. KeepsGate(db, [u EXCEPT !.tab[t].rows[k].cols[c] = h])
      BY <2>1
    <2> QED
      BY <1>3, <2>1, <2>2 DEF UpsertRow, u
  <1> QED
    BY <1>1, <1>3, <1>4, <1>5

LEMMA TablesKeepGate ==
    ASSUME NEW db, HasGate(db), NEW t, NEW u, NEW ks, NEW cs
    PROVE  /\ KeepsGate(db, DeleteRows(db, t, ks))
           /\ KeepsGate(db, SetCols(db, t, cs))
           /\ KeepsGate(db, RenameTable(db, t, u))
           /\ KeepsGate(db, CopyRows(db, t, u))
           /\ KeepsGate(db, DropTriggers(db, t))
           /\ KeepsGate(db, SetupTriggers(db, t))
           /\ KeepsGate(db, EnsureCrdt(db, t))
  <1> USE DEF KeepsGate, HasGate
  <1>1. KeepsGate(db, DeleteRows(db, t, ks))
    BY DEF DeleteRows, MarkDirty
  <1>2. KeepsGate(db, SetCols(db, t, cs))
    BY DEF SetCols
  <1>3. KeepsGate(db, RenameTable(db, t, u))
    BY DEF RenameTable
  <1>4. KeepsGate(db, CopyRows(db, t, u))
    BY DEF CopyRows, MarkDirty
  <1>5. KeepsGate(db, DropTriggers(db, t)) /\ KeepsGate(db, SetupTriggers(db, t))
    BY DEF DropTriggers, SetupTriggers
  <1>6. KeepsGate(db, EnsureCrdt(db, t))
    BY DEF EnsureCrdt
  <1> QED
    BY <1>1, <1>2, <1>3, <1>4, <1>5, <1>6

LEMMA CascadeKeepsGate ==
    ASSUME NEW db, HasGate(db), NEW t, NEW ks
    PROVE  KeepsGate(db, Cascade(db, t, ks))
  BY TablesKeepGate DEF Cascade, KeepsGate

\* No statement of a caller touches the gate row of haex_crdt_configs_no_sync.
LEMMA EffectKeepsGate ==
    ASSUME NEW db, HasGate(db), NEW s, s.op \in Ops
    PROVE  KeepsGate(db, Effect(db, s))
  <1> DEFINE t == s.table
  <1>1. CASE s.op = "query"
    BY <1>1 DEF Effect, KeepsGate
  <1>2. CASE s.op \in {"insert", "upsert", "update"}
    BY <1>2, RowsKeepGate DEF Effect
  <1>3. CASE s.op = "delete"
    <2> DEFINE ks == {s.key} \cap RowKeys(db, t)
               d == DeleteRows(db, t, ks)
    <2>1. KeepsGate(db, d)
      BY TablesKeepGate
    <2>2. Effect(db, s) = Cascade(d, t, ks)
      BY <1>3 DEF Effect
    <2> HIDE DEF d, ks
    <2> QED
      BY <2>1, <2>2, CascadeKeepsGate DEF KeepsGate
  <1>4. CASE s.op = "create"
    BY <1>4 DEF Effect, KeepsGate, HasGate
  <1>5. CASE s.op \in {"add", "remove"}
    BY <1>5, TablesKeepGate DEF Effect
  <1>6. CASE s.op = "rename"
    <2> DEFINE d == SetCols(db, t, db.tab[t].cols)
    <2>1. KeepsGate(db, d)
      BY TablesKeepGate
    <2>2. Effect(db, s) = RenameTable(d, t, s.other)
      BY <1>6 DEF Effect
    <2> HIDE DEF d
    <2> QED
      BY <2>1, <2>2, TablesKeepGate DEF KeepsGate
  <1>7. CASE s.op = "drop"
    <2> DEFINE d == Cascade(db, t, RowKeys(db, t))
    <2>1. KeepsGate(db, d)
      BY CascadeKeepsGate
    <2>2. Effect(db, s) = [d EXCEPT !.tab[t] = None]
      BY <1>7 DEF Effect
    <2> HIDE DEF d
    <2> QED
      BY <2>1, <2>2 DEF KeepsGate, HasGate
  <1>8. CASE s.op = "copy"
    BY <1>8, TablesKeepGate DEF Effect
  <1> QED
    BY <1>1, <1>2, <1>3, <1>4, <1>5, <1>6, <1>7, <1>8 DEF Ops

LEMMA StampKeepsGate ==
    ASSUME NEW db, HasGate(db), NEW ts, NEW skip, NEW h
    PROVE  /\ KeepsGate(db, StampRows(db, ts, skip, h))
           /\ KeepsGate(db, StampUnstampedRows(db))
  <1>1. \A x, y, g : KeepsGate(db, StampRows(db, x, y, g))
    BY DEF StampRows, MarkDirty, KeepsGate, HasGate
  <1> QED
    BY <1>1 DEF StampUnstampedRows, KeepsGate

\* No savepoint is held: what a statement leaves is committed, with the gate on.
LEMMA NoneHasNoGate == ~Gated(None)
  BY DEF Gated, HasGate, None

LEMMA StepGate == GateInv /\ TxInv /\ UndoInv /\ [Next]_vars => GateInv'
  <1> SUFFICES ASSUME GateInv, TxInv, UndoInv, [Next]_vars PROVE GateInv'
    OBVIOUS
  <1> USE DEF GateInv, Gated
  <1>1. ASSUME NEW g \in BOOLEAN, NEW s \in BOOLEAN, NEW l \in BOOLEAN, BeginWrite(g, s, l)
        PROVE  GateInv'
    BY <1>1 DEF BeginWrite
  <1>2. ASSUME NEW s \in Statements, Query(s) \/ PrepareLocal(s) PROVE GateInv'
    BY <1>2, StampedStatement DEF Query, PrepareLocal, NextStatement, Start, sqlite,
       InSavepoint, ChangesSchema
  <1>3. ASSUME NEW s \in Statements, Refuse(s) \/ RefuseCopy(s) PROVE GateInv'
    BY <1>3 DEF Refuse, RefuseCopy, Refused, NextStatement, sqlite
  <1>4. ASSUME NEW s \in Statements, PrepareStamped(s) PROVE GateInv'
    <2> DEFINE h == IF txHlc = 0 THEN clock + 1 ELSE txHlc
               st == [s EXCEPT !.hlc = IF Synced(s.table) THEN h ELSE 0]
    <2>1. st.op \in Ops /\ st.op # "copy"
      BY <1>4, StampedStatement DEF PrepareStamped
    <2>2. Gated(work)
      BY <1>4 DEF PrepareStamped, NextStatement
    <2>3. Gated([work EXCEPT !.hlc = h])
      BY <2>2 DEF HasGate
    <2>4. Gated(work') /\ Gated(disk')
      BY <1>4, <2>3 DEF PrepareStamped, Settle
    <2>5. /\ stmt' = st /\ UNCHANGED call
          /\ pc' = "prepared" \/ (pc' = "running" /\ ~ChangesSchema(st))
      BY <1>4 DEF PrepareStamped, Start, NextStatement
    <2> HIDE DEF st
    <2> QED
      BY <2>1, <2>4, <2>5 DEF InSavepoint, ChangesSchema
  <1>5. ASSUME NEW s \in Statements, PersistFailsHard(s) \/ BeginCopyFails(s) PROVE GateInv'
    BY <1>5 DEF PersistFailsHard, BeginCopyFails, NextStatement, RolledBack, sqlite
  <1>6. ASSUME NEW s \in Statements, BeginCopy(s) PROVE GateInv'
    <2>1. Gated(work)
      BY <1>6 DEF BeginCopy, NextStatement
    <2>2. HasGate([work EXCEPT !.gate = FALSE])
      BY <2>1 DEF HasGate
    <2> QED
      BY <1>6, <2>1, <2>2 DEF BeginCopy, NextStatement, Settle, Start, Ops
  <1>7. CASE BeginSchemaChange
    <2>1. Gated(work) /\ stmt.op \in Ops \ {"copy"}
      BY <1>7 DEF BeginSchemaChange
    <2>2. Gated(DropTriggers(work, stmt.table))
      BY <2>1, TablesKeepGate DEF KeepsGate
    <2> QED
      BY <1>7, <2>1, <2>2 DEF BeginSchemaChange, Settle, Start
  <1>8. CASE BeginSchemaChangeFails
    BY <1>8 DEF BeginSchemaChangeFails, RolledBack, sqlite
  <1>9. CASE Execute
    <2>1. HasGate(work) /\ stmt.op \in Ops
      BY <1>9 DEF Execute
    <2>2. KeepsGate(work, Effect(work, stmt))
      BY <2>1, EffectKeepsGate
    <2>3. work' = Effect(work, stmt)
      BY <1>9 DEF Execute, Settle
    <2>4. ~InSavepoint => Gated(work)
      BY <1>9 DEF Execute, InSavepoint
    <2>5. InSavepoint => Gated(savepoint) /\ Held
      BY <1>9, NoneHasNoGate DEF Execute, Held
    <2>6. Gated(disk')
      BY <1>9, <2>2, <2>3, <2>4, <2>5 DEF Execute, Settle, KeepsGate
    <2>7. UNCHANGED savepoint
      BY <1>9 DEF Execute
    <2>8. CASE InSavepoint
      BY <1>9, <2>2, <2>3, <2>5, <2>6, <2>7, <2>8 DEF Execute, KeepsGate
    <2>9. CASE ~InSavepoint
      BY <1>9, <2>2, <2>3, <2>4, <2>6, <2>9 DEF Execute, KeepsGate, ToClosure
    <2> QED
      BY <2>8, <2>9
  <1>10. CASE ExecuteFails
    <2>1. CASE InSavepoint
      BY <1>10, <2>1 DEF ExecuteFails, RolledBackToSavepoint, Settle, ToClosure
    <2>2. CASE ~InSavepoint
      BY <1>10, <2>2 DEF ExecuteFails, Settle, ToClosure, InSavepoint
    <2> QED
      BY <2>1, <2>2
  <1>11. CASE ExecuteFailsHard
    BY <1>11 DEF ExecuteFailsHard, RolledBack, ToClosure
  <1>12. CASE Interrupt
    BY <1>12 DEF Interrupt, RolledBack, RolledBackToSavepoint, Settle, ToClosure, sqlite,
       InSavepoint
  <1>13. CASE CompleteSchemaChange
    <2>1. Gated(work)
      BY <1>13 DEF CompleteSchemaChange
    <2>2. \A t : Gated(SetupTriggers(work, t))
      BY <2>1, TablesKeepGate DEF KeepsGate
    <2> QED
      BY <1>13, <2>1, <2>2 DEF CompleteSchemaChange, Settle, ToClosure
  <1>14. CASE EndCopy
    <2>1. Gated([work EXCEPT !.gate = savepoint.gate])
      BY <1>14 DEF EndCopy, HasGate
    <2> QED
      BY <1>14, <2>1 DEF EndCopy, Settle, ToClosure
  <1>15. CASE CompleteSchemaChangeFails \/ EndCopyFails
    BY <1>15 DEF CompleteSchemaChangeFails, EndCopyFails, RolledBack, RolledBackToSavepoint,
       Settle, ToClosure
  <1>16. CASE Commit \/ CommitFails
    BY <1>16 DEF Commit, CommitFails, Settle, Return
  <1>17. CASE Abandon \/ Crash
    BY <1>17 DEF Abandon, Crash, RolledBack, Return
  <1>18. CASE Reopen
    BY <1>18, StampKeepsGate DEF Reopen, KeepsGate
  <1>19. ASSUME NEW t \in Names, InstallCrdt(t) PROVE GateInv'
    <2> DEFINE on == EnsureCrdt(disk, t)
    <2>1. Gated(on)
      BY TablesKeepGate DEF KeepsGate
    <2>2. \A h : Gated(StampRows(on, {t}, {}, h))
      BY <2>1, StampKeepsGate DEF KeepsGate
    <2>3. disk' = on \/ \E h : disk' = StampRows(on, {t}, {}, h)
      BY <1>19 DEF InstallCrdt
    <2> HIDE DEF on
    <2> QED
      BY <1>19, <2>1, <2>2, <2>3 DEF InstallCrdt
  <1>20. CASE InstallCrdtFails
    BY <1>20 DEF InstallCrdtFails
  <1>21. ASSUME NEW g \in BOOLEAN, BeginRead(g) PROVE GateInv'
    BY <1>21 DEF BeginRead, sqlite
  <1>22. CASE ReadStatement \/ ReadStatementEnds \/ EndRead
    BY <1>22 DEF ReadStatement, ReadStatementEnds, EndRead, sqlite
  <1>23. CASE UNCHANGED vars
    BY <1>23 DEF vars, sqlite, InSavepoint, ChangesSchema
  <1> QED
    BY <1>1, <1>2, <1>3, <1>4, <1>5, <1>6, <1>7, <1>8, <1>9, <1>10, <1>11, <1>12, <1>13,
       <1>14, <1>15, <1>16, <1>17, <1>18, <1>19, <1>20, <1>21, <1>22, <1>23 DEF Next

LEMMA InitRest == Init => RestInv
  <1> SUFFICES ASSUME Init PROVE RestInv
    OBVIOUS
  <1>1. ConnInv /\ TxInv
    BY DEF Init, ConnInv, TxInv, Phases, Writing, AtRest
  <1>2. Gated(FirstDb)
    BY WriteConstants DEF Gated, HasGate, Database
  <1>3. GateInv
    BY <1>2 DEF Init, GateInv, Gated
  <1> QED
    BY <1>1, <1>3 DEF RestInv

-----------------------------------------------------------------------------
\* A write that does not return Ok leaves the file as it was, whatever failed in
\* it, unless SQLite rolled back inside a statement of the crate's own that does
\* not call note_rollback.
THEOREM ErrWritesNothing == Spec => []NothingWrittenOnNotedErr
  <1>1. FileInv => NothingWrittenOnNotedErr
    BY DEF FileInv, Phases, Writing, NothingWrittenOnNotedErr, NothingWrittenOnErr
  <1> QED
    BY <1>1, InitFile, StepFile, PTL DEF Spec

\* A statement that fails in an open transaction is undone with all its upkeep.
THEOREM FailureUndone == Spec => []FailedStatementUndone
  <1>1. UndoInv => FailedStatementUndone
    BY DEF UndoInv, FailedStatementUndone
  <1> QED
    BY <1>1, InitUndo, StepUndo, PTL DEF Spec

\* Every write, read and install_crdt, whatever failed in it, gives the connection
\* back with its settings, its triggers on and no transaction open.
THEOREM ConnectionRestored == Spec => []RestoredAtRest
  <1>1. RestInv /\ UndoInv /\ [Next]_vars => (RestInv /\ UndoInv)'
    BY StepConn, StepTx, StepGate, StepUndo DEF RestInv
  <1>2. RestInv => RestoredAtRest
    BY DEF RestInv, ConnInv, TxInv, GateInv, Gated, Writing, RestoredAtRest
  <1> QED
    BY <1>1, <1>2, InitRest, InitUndo, PTL DEF Spec

-----------------------------------------------------------------------------
(* What a call is doing                                                    *)

Handling == {"prepared", "running", "ran"}

\* The statement under way, and what its kind says of call, savepoint and gate.
ShapeInv ==
    /\ pc \in Phases
    /\ call \in [guard : BOOLEAN, schema : BOOLEAN, local : BOOLEAN, wasFk : BOOLEAN]
    /\ pc \in Handling =>
        /\ stmt \in Statement
        /\ stmt.hlc # 0 => Synced(stmt.table)
        /\ ~CrossesBoundary(stmt)
        /\ stmt.op = "copy" => call.schema
    /\ pc \notin Handling => stmt = None
    /\ pc = "ran" => InSavepoint
    /\ pc = "running" /\ stmt.op = "copy" => work.gate = FALSE
    /\ pc \in Writing /\ call.schema => conn.fk = FALSE
    /\ auto /\ savepoint = None => work = disk

LEMMA InitShape == Init => ShapeInv
  BY DEF Init, ShapeInv, Phases, Writing, Handling, NoCall

\* A stamped statement is a statement.
LEMMA StampedIsStatement ==
    ASSUME NEW s \in Statements, NEW h \in Nat
    PROVE  /\ s \in Statement /\ s.hlc = 0
           /\ [s EXCEPT !.hlc = h] \in Statement
           /\ [s EXCEPT !.hlc = h].hlc = h
           /\ [s EXCEPT !.hlc = h].op = s.op
           /\ [s EXCEPT !.hlc = h].table = s.table
           /\ [s EXCEPT !.hlc = h].other = s.other
  <1>1. s \in Statement /\ s.hlc = 0
    BY WriteConstants
  <1> QED
    BY <1>1 DEF Statement

\* The invariants of control.
Control == FileInv /\ UndoInv /\ ConnInv /\ TxInv /\ GateInv /\ ShapeInv

LEMMA StepShape == TypeOK /\ Control /\ [Next]_vars => ShapeInv'
  <1> SUFFICES ASSUME TypeOK, Control, [Next]_vars PROVE ShapeInv'
    OBVIOUS
  <1>0. GateInv /\ TxInv /\ UndoInv /\ ConnInv /\ ShapeInv
    BY DEF Control
  <1> USE DEF ShapeInv, Phases, Writing, Handling
  <1>1. ASSUME NEW g \in BOOLEAN, NEW s \in BOOLEAN, NEW l \in BOOLEAN, BeginWrite(g, s, l)
        PROVE  ShapeInv'
    <2>1. call' \in [guard : BOOLEAN, schema : BOOLEAN, local : BOOLEAN, wasFk : BOOLEAN]
      BY <1>0, <1>1 DEF BeginWrite, ConnInv
    <2>2. call'.schema => conn'.fk = FALSE
      BY <1>0, <1>1 DEF BeginWrite, ConnInv, AtRest
    <2> QED
      BY <1>0, <1>1, <2>1, <2>2 DEF BeginWrite
  <1>2. ASSUME NEW s \in Statements, Query(s) \/ PrepareLocal(s) PROVE ShapeInv'
    <2>1. s \in Statement /\ s.hlc = 0 /\ s.op # "copy"
      BY <1>2, WriteConstants DEF Query, PrepareLocal
    <2>2. ~CrossesBoundary(s)
      BY <1>2 DEF Query, PrepareLocal, CrossesBoundary
    <2>3. pc' = "running" /\ stmt' = s /\ UNCHANGED <<call, disk, work, savepoint, auto>>
      BY <1>2 DEF Query, PrepareLocal, Start, NextStatement, sqlite
    <2>4. pc = "closure" /\ conn'.fk = conn.fk
      BY <1>0, <1>2 DEF Query, PrepareLocal, Start, NextStatement, ConnInv
    <2> QED
      BY <1>0, <2>1, <2>2, <2>3, <2>4 DEF CrossesBoundary
  <1>3. ASSUME NEW s \in Statements, Refuse(s) \/ RefuseCopy(s) PROVE ShapeInv'
    BY <1>0, <1>3 DEF Refuse, RefuseCopy, Refused, NextStatement, sqlite
  <1>4. ASSUME NEW s \in Statements, PrepareStamped(s) PROVE ShapeInv'
    <2> DEFINE h == IF txHlc = 0 THEN clock + 1 ELSE txHlc
               g == IF Synced(s.table) THEN h ELSE 0
               st == [s EXCEPT !.hlc = g]
    <2>1. g \in Nat
      BY DEF TypeOK
    <2>2. st \in Statement /\ st.hlc = g /\ st.op = s.op /\ st.table = s.table
          /\ st.other = s.other
      BY <2>1, StampedIsStatement
    <2>3. s.op # "copy" /\ ~CrossesBoundary(s) /\ UNCHANGED call /\ pc = "closure"
      BY <1>4 DEF PrepareStamped, NextStatement
    <2>4. stmt' = st /\ pc' \in {"prepared", "running"} /\ conn'.fk = conn.fk
      BY <1>0, <1>4 DEF PrepareStamped, Start, ConnInv
    <2>5. /\ auto' = auto /\ savepoint' = savepoint
          /\ work' = [work EXCEPT !.hlc = h]
          /\ disk' = IF Held THEN disk ELSE [work EXCEPT !.hlc = h]
      BY <1>4 DEF PrepareStamped, Settle
    <2>6. stmt'.hlc # 0 => Synced(stmt'.table)
      BY <2>2, <2>4
    <2>7. ~CrossesBoundary(stmt)'
      BY <2>2, <2>3, <2>4 DEF CrossesBoundary
    <2> HIDE DEF st, h, g
    <2> QED
      BY <1>0, <2>2, <2>3, <2>4, <2>5, <2>6, <2>7 DEF Held
  <1>5. ASSUME NEW s \in Statements, PersistFailsHard(s) \/ BeginCopyFails(s) PROVE ShapeInv'
    BY <1>0, <1>5 DEF PersistFailsHard, BeginCopyFails, NextStatement, RolledBack, sqlite
  <1>6. ASSUME NEW s \in Statements, BeginCopy(s) PROVE ShapeInv'
    <2>1. s \in Statement /\ s.hlc = 0 /\ s.op = "copy" /\ call.schema
      BY <1>6, WriteConstants DEF BeginCopy
    <2>2. ~CrossesBoundary(s)
      BY <2>1 DEF CrossesBoundary
    <2>3. pc' = "running" /\ stmt' = s /\ UNCHANGED <<call, auto>> /\ savepoint' = work
      BY <1>6 DEF BeginCopy, Start, NextStatement
    <2>4. pc = "closure" /\ conn'.fk = conn.fk
      BY <1>0, <1>6 DEF BeginCopy, Start, NextStatement, ConnInv
    <2>5. work' = [work EXCEPT !.gate = FALSE]
      BY <1>6 DEF BeginCopy, Settle
    <2>6. work'.gate = FALSE /\ savepoint' # None
      BY <1>0, <2>3, <2>5, NoneHasNoGate DEF GateInv, HasGate, Gated, None
    <2> QED
      BY <1>0, <2>1, <2>2, <2>3, <2>4, <2>6 DEF CrossesBoundary
  <1>7. CASE BeginSchemaChange
    <2>1. pc' = "running" /\ UNCHANGED <<call, auto, stmt>> /\ savepoint' = work
      BY <1>7 DEF BeginSchemaChange, Start
    <2>2. pc = "prepared" /\ conn'.fk = conn.fk
      BY <1>0, <1>7 DEF BeginSchemaChange, Start, ConnInv
    <2>3. stmt.op # "copy" /\ savepoint' # None
      BY <1>0, <2>1, <2>2, NoneHasNoGate DEF GateInv
    <2> QED
      BY <1>0, <2>1, <2>2, <2>3 DEF CrossesBoundary
  <1>8. CASE BeginSchemaChangeFails
    BY <1>0, <1>8 DEF BeginSchemaChangeFails, RolledBack, sqlite
  <1>9. CASE Execute
    <2>1. /\ UNCHANGED <<call, savepoint, auto>> /\ conn'.fk = conn.fk
          /\ IF InSavepoint THEN pc' = "ran" /\ stmt' = stmt ELSE pc' = "closure" /\ stmt' = None
      BY <1>0, <1>9 DEF Execute, Uninstalled, ToClosure, ConnInv
    <2>2. disk' = IF Held THEN disk ELSE work'
      BY <1>9 DEF Execute, Settle
    <2> QED
      BY <1>0, <1>9, <2>1, <2>2 DEF Held, Execute, CrossesBoundary, InSavepoint, ChangesSchema
  <1>10. CASE ExecuteFails
    <2>1. conn'.fk = conn.fk /\ UNCHANGED <<call, auto>> /\ pc' = "closure" /\ stmt' = None
      BY <1>0, <1>10 DEF ExecuteFails, Uninstalled, ToClosure, ConnInv, RolledBackToSavepoint
    <2> QED
      BY <1>0, <1>10, <2>1 DEF ExecuteFails, RolledBackToSavepoint, Settle, Held
  <1>11. CASE ExecuteFailsHard
    <2>1. conn'.fk = conn.fk /\ UNCHANGED call /\ pc' = "closure" /\ stmt' = None
      BY <1>0, <1>11 DEF ExecuteFailsHard, Uninstalled, ToClosure, ConnInv
    <2> QED
      BY <1>0, <1>11, <2>1 DEF ExecuteFailsHard, RolledBack
  <1>12. CASE Interrupt
    <2>1. conn'.fk = conn.fk /\ UNCHANGED call /\ pc' = "closure" /\ stmt' = None
      BY <1>0, <1>12 DEF Interrupt, Uninstalled, ToClosure, ConnInv
    <2> QED
      BY <1>0, <1>12, <2>1 DEF Interrupt, RolledBack, RolledBackToSavepoint, Settle, sqlite
  <1>13. CASE CompleteSchemaChange \/ EndCopy
    BY <1>0, <1>13 DEF CompleteSchemaChange, EndCopy, Settle, ToClosure
  <1>14. CASE CompleteSchemaChangeFails \/ EndCopyFails
    BY <1>0, <1>14 DEF CompleteSchemaChangeFails, EndCopyFails, RolledBack,
       RolledBackToSavepoint, Settle, ToClosure
  <1>15. CASE Commit \/ CommitFails
    BY <1>0, <1>15 DEF Commit, CommitFails, Settle, Return
  <1>16. CASE Abandon
    BY <1>0, <1>16 DEF Abandon, RolledBack, Return
  <1>17. CASE Crash
    BY <1>0, <1>17 DEF Crash, RolledBack, NoCall
  <1>18. CASE Reopen
    BY <1>0, <1>18 DEF Reopen
  <1>19. ASSUME NEW t \in Names, InstallCrdt(t) PROVE ShapeInv'
    BY <1>0, <1>19 DEF InstallCrdt, NoCall
  <1>20. CASE InstallCrdtFails
    BY <1>0, <1>20 DEF InstallCrdtFails, NoCall
  <1>21. ASSUME NEW g \in BOOLEAN, BeginRead(g) PROVE ShapeInv'
    BY <1>0, <1>21 DEF BeginRead, sqlite, NoCall
  <1>22. CASE ReadStatement \/ ReadStatementEnds
    BY <1>0, <1>22 DEF ReadStatement, ReadStatementEnds, sqlite
  <1>23. CASE EndRead
    <2>1. pc' = "idle" /\ call' = NoCall /\ UNCHANGED <<stmt, disk, work, savepoint, auto>>
      BY <1>23 DEF EndRead, sqlite
    <2>2. pc \in {"read", "reading"}
      BY <1>23 DEF EndRead
    <2> QED
      BY <1>0, <2>1, <2>2 DEF NoCall
  <1>24. CASE UNCHANGED vars
    BY <1>0, <1>24 DEF vars, sqlite, CrossesBoundary, InSavepoint, ChangesSchema
  <1> QED
    BY <1>1, <1>2, <1>3, <1>4, <1>5, <1>6, <1>7, <1>8, <1>9, <1>10, <1>11, <1>12, <1>13,
       <1>14, <1>15, <1>16, <1>17, <1>18, <1>19, <1>20, <1>21, <1>22, <1>23, <1>24 DEF Next

-----------------------------------------------------------------------------
(* What the statements do to a database                                    *)

SameSchema(a, b) ==
    /\ a.crdt = b.crdt /\ a.cols = b.cols /\ a.trig = b.trig
    /\ a.loose = b.loose

\* d is db but for its tables.
SameRest(db, d) ==
    /\ d.ref = db.ref /\ d.gate = db.gate /\ d.hlc = db.hlc
    /\ d.dirty = db.dirty /\ d.log = db.log

LEMMA NotNone ==
    /\ \A x \in Row : x # None
    /\ \A x \in Given : x # None
    /\ \A x \in Table : x # None
    /\ \A x \in Database : x # None
    /\ \A x \in Statement : x # None
  BY DEF None, Given, Row, Table, Database, Statement

LEMMA MaxHlcNat == MaxHlc \in Nat /\ FirstDb.hlc \in Nat /\ FirstDb.hlc <= MaxHlc
  <1>1. FirstDb.hlc \in Int /\ FirstDb.hlc >= 0
    BY WriteConstants DEF Database
  <1> QED
    BY <1>1, WriteConstants DEF MaxHlc

LEMMA TableOf ==
    ASSUME NEW db \in Database, NEW t \in Names
    PROVE  /\ db.tab[t] \in Table \cup {None}
           /\ Exists(db, t) <=> db.tab[t] \in Table
           /\ RowKeys(db, t) \subseteq Keys
           /\ Exists(db, t) => \A k \in RowKeys(db, t) : db.tab[t].rows[k] \in Row
  <1>1. db.tab[t] \in Table \cup {None}
    BY DEF Database
  <1>2. Exists(db, t) <=> db.tab[t] \in Table
    BY <1>1, NotNone DEF Exists
  <1> QED
    BY <1>1, <1>2 DEF RowKeys, Table

\* Replacing one table.
LEMMA PutTable ==
    ASSUME NEW db \in Database, NEW t \in Names, NEW tb \in Table \cup {None}
    PROVE  LET d == [db EXCEPT !.tab[t] = tb] IN
           /\ d \in Database /\ SameRest(db, d)
           /\ d.tab[t] = tb
           /\ \A n \in Names \ {t} : d.tab[n] = db.tab[n]
  BY DEF Database, SameRest

\* A new set of rows in an existing table.
LEMMA PutRows ==
    ASSUME NEW db \in Database, NEW t \in Names, Exists(db, t),
           NEW rs \in [Keys -> Row \cup {None}]
    PROVE  LET d == [db EXCEPT !.tab[t].rows = rs] IN
           /\ d \in Database /\ SameRest(db, d)
           /\ \A n \in Names \ {t} : d.tab[n] = db.tab[n]
           /\ d.tab[t] \in Table /\ SameSchema(d.tab[t], db.tab[t])
           /\ d.tab[t].rows = rs
  <1> DEFINE tb == [db.tab[t] EXCEPT !.rows = rs]
             d == [db EXCEPT !.tab[t].rows = rs]
  <1>1. db.tab[t] \in Table
    BY TableOf
  <1>2. tb \in Table /\ SameSchema(tb, db.tab[t]) /\ tb.rows = rs
    BY <1>1 DEF Table, SameSchema
  <1>3. d = [db EXCEPT !.tab[t] = tb]
    BY DEF Database
  <1> HIDE DEF tb, d
  <1>4. d \in Database /\ SameRest(db, d) /\ d.tab[t] = tb
        /\ \A n \in Names \ {t} : d.tab[n] = db.tab[n]
    BY <1>2, <1>3, PutTable
  <1> QED
    BY <1>2, <1>4 DEF d

\* A new row.
LEMMA PutRow ==
    ASSUME NEW db \in Database, NEW t \in Names, Exists(db, t),
           NEW k \in Keys, NEW x \in Row \cup {None}
    PROVE  LET d == [db EXCEPT !.tab[t].rows[k] = x] IN
           /\ d \in Database /\ SameRest(db, d)
           /\ \A n \in Names \ {t} : d.tab[n] = db.tab[n]
           /\ d.tab[t] \in Table /\ SameSchema(d.tab[t], db.tab[t])
           /\ d.tab[t].rows = [db.tab[t].rows EXCEPT ![k] = x]
  <1> DEFINE rs == [db.tab[t].rows EXCEPT ![k] = x]
  <1>1. db.tab[t] \in Table
    BY TableOf
  <1>2. rs \in [Keys -> Row \cup {None}]
    BY <1>1 DEF Table
  <1>3. [db EXCEPT !.tab[t].rows[k] = x] = [db EXCEPT !.tab[t].rows = rs]
    BY <1>1 DEF Database, Table
  <1> HIDE DEF rs
  <1> QED
    BY <1>2, <1>3, PutRows DEF rs

LEMMA MarkDirtyTyped ==
    ASSUME NEW db \in Database, NEW names \in SUBSET (Names \cup {DeletedRows})
    PROVE  LET d == MarkDirty(db, names) IN
           /\ d \in Database
           /\ d.tab = db.tab /\ d.ref = db.ref /\ d.gate = db.gate /\ d.hlc = db.hlc
           /\ d.log = db.log /\ d.dirty = db.dirty \cup names
  BY DEF Database, MarkDirty

\* d is db after writes to rows of the tables ts.
RowsOnly(db, d, ts) ==
    /\ d \in Database
    /\ d.ref = db.ref /\ d.gate = db.gate /\ d.hlc = db.hlc /\ db.dirty \subseteq d.dirty
    /\ \A n \in Names : Exists(d, n) <=> Exists(db, n)
    /\ \A n \in Names : Exists(db, n) => SameSchema(d.tab[n], db.tab[n])
    /\ \A n \in Names \ ts : d.tab[n] = db.tab[n]

LEMMA FiringTyped ==
    ASSUME NEW db \in Database, NEW t \in Names, Exists(db, t)
    PROVE  /\ Firing(db, t) \subseteq Trigger
           /\ Tracked(db, t) \subseteq Cols
           /\ \A G \in SUBSET Firing(db, t) : {g.of : g \in G} \in SUBSET Names
  <1>1. Firing(db, t) \subseteq Trigger
    BY TableOf DEF Firing, Table
  <1>2. \A g \in Firing(db, t) : g.of \in Names /\ g.cols \subseteq Cols
    BY <1>1 DEF Trigger
  <1> QED
    BY <1>1, <1>2 DEF Tracked

\* What INSERT, upsert and UPDATE of key k leave, for the HLC h in the statement's text
\* (0 for none) and the column c that gets a value.
WritesRow(db, d, t, k, c, h) ==
    LET row == d.tab[t].rows[k]
        old == db.tab[t].rows[k]
    IN
    /\ RowsOnly(db, d, {t}) /\ d.log = db.log
    /\ row \in Row
    /\ \A j \in Keys \ {k} : d.tab[t].rows[j] = db.tab[t].rows[j]
    /\ h = 0 => IF k \in RowKeys(db, t)
                THEN /\ row.hlc = old.hlc
                     /\ \A a \in Cols : /\ row.cols[a] \in {old.cols[a], old.hlc}
                                        /\ row.given[a] = old.given[a]
                ELSE row.hlc = 0 /\ \A a \in Cols : row.given[a] = None
    /\ h # 0 => /\ row.hlc = h
                /\ \A a \in Cols :
                     \/ IF k \in RowKeys(db, t)
                        THEN row.given[a] = old.given[a] /\ row.cols[a] \in {old.cols[a], h}
                        ELSE row.given[a] = None
                     \/ /\ a \in db.tab[t].cols
                        /\ row.given[a] = [hlc |-> h, as |-> t]
                        /\ \A g \in Firing(db, t) :
                             a \in g.cols => row.cols[a] = h /\ g.of \in d.dirty

\* The history of a write is history.
LEMMA GivesTyped ==
    ASSUME NEW old \in [Cols -> Given \cup {None}], NEW t \in Names, NEW cs, NEW h \in 0..MaxHlc
    PROVE  /\ Gives(old, t, cs, h) \in [Cols -> Given \cup {None}]
           /\ \A a \in Cols : Gives(old, t, cs, h)[a] =
                 IF h # 0 /\ a \in cs THEN [hlc |-> h, as |-> t] ELSE old[a]
  BY DEF Gives, Given

LEMMA InsertWrites ==
    ASSUME NEW db \in Database, NEW t \in Names, Exists(db, t),
           NEW k \in Keys, k \notin RowKeys(db, t), NEW c \in Cols, NEW h \in 0..MaxHlc
    PROVE  WritesRow(db, InsertRow(db, t, k, h), t, k, c, h)
  <1> DEFINE hist == Gives([a \in Cols |-> None], t, db.tab[t].cols, h)
             x == [hlc |-> h, cols |-> [a \in Cols |-> IF h # 0 /\ a \in Tracked(db, t)
                                                       THEN h ELSE 0],
                   given |-> hist]
             e == [db EXCEPT !.tab[t].rows[k] = x]
             names == IF h # 0 THEN {g.of : g \in Firing(db, t)} ELSE {}
             d == MarkDirty(e, names)
  <1>0. /\ hist \in [Cols -> Given \cup {None}]
        /\ \A a \in Cols : hist[a] = IF h # 0 /\ a \in db.tab[t].cols
                                      THEN [hlc |-> h, as |-> t] ELSE None
    BY GivesTyped
  <1>1. x \in Row /\ x.hlc = h /\ (\A a \in Cols : h # 0 /\ a \in Tracked(db, t) => x.cols[a] = h)
        /\ x.given = hist
    <2> HIDE DEF hist
    <2> QED
      BY <1>0, MaxHlcNat DEF Row
  <1>2. names \in SUBSET (Names \cup {DeletedRows})
        /\ (h # 0 => \A g \in Firing(db, t) : g.of \in names)
    BY FiringTyped
  <1>3. InsertRow(db, t, k, h) = d
    BY DEF InsertRow
  <1> HIDE DEF x, names, hist
  <1>4. /\ e \in Database /\ SameRest(db, e)
        /\ \A n \in Names \ {t} : e.tab[n] = db.tab[n]
        /\ e.tab[t] \in Table /\ SameSchema(e.tab[t], db.tab[t])
        /\ e.tab[t].rows = [db.tab[t].rows EXCEPT ![k] = x]
    BY <1>1, PutRow
  <1> HIDE DEF e
  <1>5. /\ d \in Database /\ d.tab = e.tab /\ d.ref = e.ref /\ d.gate = e.gate
        /\ d.hlc = e.hlc /\ d.log = e.log /\ d.dirty = e.dirty \cup names
    BY <1>2, <1>4, MarkDirtyTyped
  <1> HIDE DEF d
  <1>6. RowsOnly(db, d, {t})
    BY <1>4, <1>5, NotNone DEF RowsOnly, SameRest, SameSchema, Exists
  <1>7. \A g \in Firing(db, t) : g.cols \subseteq Cols /\ g.cols \subseteq Tracked(db, t)
    BY FiringTyped DEF Tracked
  <1>8. db.tab[t].rows \in [Keys -> Row \cup {None}]
    BY TableOf DEF Table
  <1>9. d.tab[t].rows[k] = x /\ \A j \in Keys \ {k} : d.tab[t].rows[j] = db.tab[t].rows[j]
    BY <1>4, <1>5, <1>8
  <1> QED
    BY <1>0, <1>1, <1>2, <1>3, <1>4, <1>5, <1>6, <1>7, <1>9 DEF WritesRow, SameRest

LEMMA UpdateWrites ==
    ASSUME NEW db \in Database, NEW t \in Names, Exists(db, t), NEW same,
           NEW k \in RowKeys(db, t), NEW c \in Cols, c \in db.tab[t].cols, NEW h \in 0..MaxHlc
    PROVE  WritesRow(db, UpdateRow(db, t, k, c, same, h), t, k, c, h)
  <1> DEFINE old == db.tab[t].rows[k]
             new == IF h # 0 THEN h ELSE old.hlc
             on == IF same \/ new = 0 THEN {} ELSE {g \in Firing(db, t) : c \in g.cols}
             hist == Gives(old.given, t, IF same THEN {} ELSE {c}, h)
             x == [hlc |-> new, cols |-> IF on # {} THEN [old.cols EXCEPT ![c] = new]
                                                    ELSE old.cols, given |-> hist]
             e == [db EXCEPT !.tab[t].rows[k] = x]
             names == {g.of : g \in on}
             d == MarkDirty(e, names)
  <1>0. old \in Row /\ k \in Keys
    BY TableOf
  <1>a. /\ hist \in [Cols -> Given \cup {None}]
        /\ \A a \in Cols : hist[a] = IF h # 0 /\ ~same /\ a = c
                                      THEN [hlc |-> h, as |-> t] ELSE old.given[a]
    <2> DEFINE cs == IF same THEN {} ELSE {c}
    <2>1. old.given \in [Cols -> Given \cup {None}]
      BY <1>0 DEF Row
    <2>2. \A a \in Cols : a \in cs <=> ~same /\ a = c
      OBVIOUS
    <2> HIDE DEF old, cs
    <2>3. /\ hist \in [Cols -> Given \cup {None}]
          /\ \A a \in Cols : hist[a] = IF h # 0 /\ a \in cs
                                        THEN [hlc |-> h, as |-> t] ELSE old.given[a]
      BY <2>1, GivesTyped DEF cs
    <2> QED
      BY <2>2, <2>3
  <1>1. x \in Row /\ x.hlc = new /\ (\A a \in Cols : x.cols[a] \in {old.cols[a], new})
        /\ (on # {} => x.cols[c] = new) /\ x.given = hist
    <2> HIDE DEF old, on, hist
    <2> QED
      BY <1>0, <1>a DEF Row
  <1>2. names \in SUBSET (Names \cup {DeletedRows}) /\ \A g \in on : g.of \in names
    <2>1. on \in SUBSET Firing(db, t)
      OBVIOUS
    <2> HIDE DEF on
    <2> QED
      BY <2>1, FiringTyped
  <1>3. UpdateRow(db, t, k, c, same, h) = d
    BY DEF UpdateRow
  <1>4. h # 0 => new = h /\ (~same => \A g \in Firing(db, t) : c \in g.cols => g \in on)
    OBVIOUS
  <1>5. h = 0 => new = old.hlc
    OBVIOUS
  <1> HIDE DEF x, names, on, new, hist
  <1>6. /\ e \in Database /\ SameRest(db, e)
        /\ \A n \in Names \ {t} : e.tab[n] = db.tab[n]
        /\ e.tab[t] \in Table /\ SameSchema(e.tab[t], db.tab[t])
        /\ e.tab[t].rows = [db.tab[t].rows EXCEPT ![k] = x]
    BY <1>0, <1>1, PutRow
  <1> HIDE DEF e
  <1>7. /\ d \in Database /\ d.tab = e.tab /\ d.ref = e.ref /\ d.gate = e.gate
        /\ d.hlc = e.hlc /\ d.log = e.log /\ d.dirty = e.dirty \cup names
    BY <1>2, <1>6, MarkDirtyTyped
  <1> HIDE DEF d
  <1>8. RowsOnly(db, d, {t})
    BY <1>6, <1>7, NotNone DEF RowsOnly, SameRest, SameSchema, Exists
  <1>9. db.tab[t].rows \in [Keys -> Row \cup {None}]
    BY TableOf DEF Table
  <1>10. d.tab[t].rows[k] = x /\ \A j \in Keys \ {k} : d.tab[t].rows[j] = db.tab[t].rows[j]
    BY <1>0, <1>6, <1>7, <1>9
  <1>11. h = 0 => x.hlc = old.hlc /\ \A a \in Cols : /\ x.cols[a] \in {old.cols[a], old.hlc}
                                                    /\ x.given[a] = old.given[a]
    BY <1>a, <1>1, <1>5
  <1>12. ASSUME h # 0, NEW a \in Cols
         PROVE  \/ x.given[a] = old.given[a] /\ x.cols[a] \in {old.cols[a], h}
                \/ /\ a = c /\ x.given[a] = [hlc |-> h, as |-> t]
                   /\ \A g \in Firing(db, t) : a \in g.cols => x.cols[a] = h /\ g.of \in d.dirty
    <2>1. new = h /\ x.cols[a] \in {old.cols[a], h} /\ x.given[a] = hist[a]
      BY <1>1, <1>4, <1>12
    <2>2. CASE ~same /\ a = c
      <3>1. x.given[a] = [hlc |-> h, as |-> t]
        BY <1>a, <1>12, <2>1, <2>2
      <3>2. ASSUME NEW g \in Firing(db, t), a \in g.cols PROVE x.cols[a] = h /\ g.of \in d.dirty
        <4>1. g \in on
          BY <1>4, <1>12, <2>2, <3>2
        <4> QED
          BY <1>1, <1>2, <1>7, <2>1, <2>2, <4>1
      <3> QED
        BY <2>2, <3>1, <3>2
    <2>3. CASE ~(~same /\ a = c)
      BY <1>a, <1>12, <2>1, <2>3
    <2> QED
      BY <2>2, <2>3
  <1>13. (h # 0 => x.hlc = h) /\ x \in Row /\ d.log = db.log
    BY <1>1, <1>4, <1>6, <1>7 DEF SameRest
  <1> HIDE DEF old
  <1> QED
    BY <1>3, <1>8, <1>10, <1>11, <1>12, <1>13 DEF WritesRow, old

LEMMA UpsertWrites ==
    ASSUME NEW db \in Database, NEW t \in Names, Exists(db, t),
           NEW k \in Keys, NEW c \in Cols, c \in db.tab[t].cols, NEW same,
           NEW h \in 0..MaxHlc
    PROVE  WritesRow(db, UpsertRow(db, t, k, c, same, h), t, k, c, h)
  <1>1. CASE k \notin RowKeys(db, t)
    BY <1>1, InsertWrites DEF UpsertRow
  <1>2. CASE k \in RowKeys(db, t) /\ ~(h # 0 /\ db.tab[t].rows[k].cols # NoHlcs)
    BY <1>2, UpdateWrites DEF UpsertRow
  <1>3. CASE k \in RowKeys(db, t) /\ h # 0 /\ db.tab[t].rows[k].cols # NoHlcs
    <2> DEFINE u == UpdateRow(db, t, k, c, same, h)
               d == [u EXCEPT !.tab[t].rows[k].cols[c] = h]
               x == [u.tab[t].rows[k] EXCEPT !.cols[c] = h]
    <2>1. WritesRow(db, u, t, k, c, h)
      BY <1>3, UpdateWrites
    <2>2. UpsertRow(db, t, k, c, same, h) = d
      BY <1>3 DEF UpsertRow
    <2> HIDE DEF u
    <2>3. u \in Database /\ Exists(u, t) /\ u.tab[t].rows[k] \in Row
      BY <2>1 DEF WritesRow, RowsOnly
    <2>4. u.tab[t] \in Table
      BY <2>3, TableOf
    <2>5. d = [u EXCEPT !.tab[t].rows[k] = x]
      BY <2>3, <2>4 DEF Database, Table
    <2>6. x \in Row /\ x.hlc = u.tab[t].rows[k].hlc /\ x.cols[c] = h
          /\ x.given = u.tab[t].rows[k].given
          /\ \A a \in Cols \ {c} : x.cols[a] = u.tab[t].rows[k].cols[a]
      BY <2>3 DEF Row
    <2> HIDE DEF x, d
    <2>7. /\ d \in Database /\ SameRest(u, d)
          /\ \A n \in Names \ {t} : d.tab[n] = u.tab[n]
          /\ d.tab[t] \in Table /\ SameSchema(d.tab[t], u.tab[t])
          /\ d.tab[t].rows = [u.tab[t].rows EXCEPT ![k] = x]
      BY <2>3, <2>5, <2>6, PutRow
    <2>8. d.tab[t].rows[k] = x /\ \A j \in Keys \ {k} : d.tab[t].rows[j] = u.tab[t].rows[j]
      BY <2>4, <2>7 DEF Table
    <2>9. RowsOnly(db, d, {t})
      <3>1. RowsOnly(db, u, {t})
        BY <2>1 DEF WritesRow
      <3>2. \A n \in Names : Exists(d, n) <=> Exists(db, n)
        BY <2>7, <3>1, NotNone DEF RowsOnly, Exists
      <3>3. \A n \in Names : Exists(db, n) => SameSchema(d.tab[n], db.tab[n])
        BY <2>7, <3>1 DEF RowsOnly, SameSchema
      <3> QED
        BY <2>7, <3>1, <3>2, <3>3 DEF RowsOnly, SameRest
    <2>10. ASSUME NEW a \in Cols
           PROVE  \/ /\ x.given[a] = db.tab[t].rows[k].given[a]
                     /\ x.cols[a] \in {db.tab[t].rows[k].cols[a], h}
                  \/ /\ a \in db.tab[t].cols
                     /\ x.given[a] = [hlc |-> h, as |-> t]
                     /\ \A g \in Firing(db, t) : a \in g.cols => x.cols[a] = h /\ g.of \in d.dirty
      <3> DEFINE v == u.tab[t].rows[k]
      <3>1. \/ /\ v.given[a] = db.tab[t].rows[k].given[a]
               /\ v.cols[a] \in {db.tab[t].rows[k].cols[a], h}
            \/ /\ a \in db.tab[t].cols
               /\ v.given[a] = [hlc |-> h, as |-> t]
               /\ \A g \in Firing(db, t) : a \in g.cols => v.cols[a] = h /\ g.of \in u.dirty
        BY <1>3, <2>1 DEF WritesRow
      <3>2. x.given[a] = v.given[a] /\ x.cols[a] \in {v.cols[a], h} /\ d.dirty = u.dirty
        BY <2>6, <2>7 DEF SameRest
      <3> HIDE DEF v
      <3> QED
        BY <3>1, <3>2
    <2>11. x.hlc = h /\ d.log = db.log
      BY <1>3, <2>1, <2>6, <2>7 DEF WritesRow, SameRest
    <2>12. \A j \in Keys \ {k} : d.tab[t].rows[j] = db.tab[t].rows[j]
      BY <2>1, <2>8 DEF WritesRow
    <2> QED
      BY <1>3, <2>2, <2>6, <2>8, <2>9, <2>10, <2>11, <2>12 DEF WritesRow
  <1> QED
    BY <1>1, <1>2, <1>3

\* d is db after the rows ks(n) of the tables n went.
RemovesRows(db, d, ts) ==
    /\ RowsOnly(db, d, ts)
    /\ \A n \in Names : Exists(db, n) =>
         \A k \in Keys : d.tab[n].rows[k] \in {None, db.tab[n].rows[k]}

LEMMA DeleteRemoves ==
    ASSUME NEW db \in Database, NEW t \in Names, Exists(db, t), NEW ks \in SUBSET Keys
    PROVE  LET d == DeleteRows(db, t, ks) IN
           /\ RemovesRows(db, d, {t})
           /\ RowKeys(d, t) = RowKeys(db, t) \ ks
           /\ d.log # db.log => Firing(db, t) # {} /\ ks # {}
  <1> DEFINE rs == [k \in Keys |-> IF k \in ks THEN None ELSE db.tab[t].rows[k]]
             new == {g.of : g \in Firing(db, t)} \X ks
             e == [db EXCEPT !.tab[t].rows = rs]
             f == [e EXCEPT !.log = @ \cup new]
             names == IF Firing(db, t) # {} /\ ks # {} THEN {DeletedRows} ELSE {}
             d == MarkDirty(f, names)
  <1>0. db.tab[t] \in Table /\ db.tab[t].rows \in [Keys -> Row \cup {None}]
    BY TableOf DEF Table
  <1>1. rs \in [Keys -> Row \cup {None}]
    BY <1>0
  <1>2. new \in SUBSET (Names \X Keys) /\ (new # {} => Firing(db, t) # {} /\ ks # {})
    BY FiringTyped
  <1>3. DeleteRows(db, t, ks) = d
    BY <1>0 DEF DeleteRows
  <1>4. names \in SUBSET (Names \cup {DeletedRows})
    OBVIOUS
  <1>5. \A k \in Keys : rs[k] = IF k \in ks THEN None ELSE db.tab[t].rows[k]
    OBVIOUS
  <1> HIDE DEF rs, new, names
  <1>6. /\ e \in Database /\ SameRest(db, e)
        /\ \A n \in Names \ {t} : e.tab[n] = db.tab[n]
        /\ e.tab[t] \in Table /\ SameSchema(e.tab[t], db.tab[t])
        /\ e.tab[t].rows = rs
    BY <1>1, PutRows
  <1> HIDE DEF e
  <1>7. /\ f \in Database /\ f.tab = e.tab /\ f.ref = e.ref /\ f.gate = e.gate
        /\ f.hlc = e.hlc /\ f.dirty = e.dirty /\ f.log = e.log \cup new
    BY <1>2, <1>6 DEF Database
  <1> HIDE DEF f
  <1>8. /\ d \in Database /\ d.tab = f.tab /\ d.ref = f.ref /\ d.gate = f.gate
        /\ d.hlc = f.hlc /\ d.log = f.log /\ d.dirty = f.dirty \cup names
    BY <1>4, <1>7, MarkDirtyTyped
  <1> HIDE DEF d
  <1>9. RowsOnly(db, d, {t})
    BY <1>6, <1>7, <1>8, NotNone DEF RowsOnly, SameRest, SameSchema, Exists
  <1>10. RemovesRows(db, d, {t})
    BY <1>5, <1>6, <1>7, <1>8, <1>9 DEF RemovesRows, RowsOnly
  <1>11. RowKeys(d, t) = RowKeys(db, t) \ ks
    BY <1>5, <1>6, <1>7, <1>8, NotNone DEF RowKeys, Exists
  <1>12. d.log # db.log => Firing(db, t) # {} /\ ks # {}
    BY <1>2, <1>6, <1>7, <1>8 DEF SameRest
  <1> QED
    BY <1>3, <1>10, <1>11, <1>12

LEMMA CascadeRemoves ==
    ASSUME NEW db \in Database, NEW t \in Names, NEW ks \in SUBSET Keys
    PROVE  LET d == Cascade(db, t, ks)
               cs == Cascaded(db, t, ks)
           IN
           /\ cs \subseteq ks /\ cs \subseteq RowKeys(db, Child)
           /\ RemovesRows(db, d, IF cs = {} THEN {} ELSE {Child})
           /\ RowKeys(d, Child) = RowKeys(db, Child) \ cs
           /\ d.log # db.log => cs # {} /\ Firing(db, Child) # {}
  <1> DEFINE cs == Cascaded(db, t, ks)
  <1>1. cs \subseteq ks /\ cs \subseteq RowKeys(db, Child)
    BY DEF Cascaded
  <1>2. CASE cs = {}
    <2>1. Cascade(db, t, ks) = db
      BY <1>2 DEF Cascade
    <2>2. RemovesRows(db, db, {})
      BY DEF RemovesRows, RowsOnly, SameSchema
    <2> QED
      BY <1>1, <1>2, <2>1, <2>2
  <1>3. CASE cs # {}
    <2>1. Child \in Names /\ Exists(db, Child)
      BY <1>1, <1>3, WriteConstants DEF RowKeys
    <2>2. Cascade(db, t, ks) = DeleteRows(db, Child, cs)
      BY <1>3 DEF Cascade
    <2>3. cs \in SUBSET Keys
      BY <1>1
    <2> HIDE DEF cs
    <2>4. /\ RemovesRows(db, DeleteRows(db, Child, cs), {Child})
          /\ RowKeys(DeleteRows(db, Child, cs), Child) = RowKeys(db, Child) \ cs
          /\ DeleteRows(db, Child, cs).log # db.log => Firing(db, Child) # {} /\ cs # {}
      BY <2>1, <2>3, DeleteRemoves
    <2> QED
      BY <1>1, <1>3, <2>2, <2>4 DEF cs
  <1> QED
    BY <1>2, <1>3

\* One removal after another.
LEMMA RemovesTwice ==
    ASSUME NEW db, NEW d, NEW e, NEW ts, NEW us, RemovesRows(db, d, ts), RemovesRows(d, e, us)
    PROVE  RemovesRows(db, e, ts \cup us)
  <1>1. RowsOnly(db, d, ts) /\ RowsOnly(d, e, us)
    BY DEF RemovesRows
  <1>2. RowsOnly(db, e, ts \cup us)
    BY <1>1 DEF RowsOnly, SameSchema
  <1>3. \A n \in Names : Exists(db, n) =>
          \A k \in Keys : e.tab[n].rows[k] \in {None, db.tab[n].rows[k]}
    BY <1>1 DEF RemovesRows, RowsOnly
  <1> QED
    BY <1>2, <1>3 DEF RemovesRows

\* d is db with another schema of table t.
Reshapes(db, d, t) ==
    /\ d \in Database /\ SameRest(db, d)
    /\ \A n \in Names \ {t} : d.tab[n] = db.tab[n]
    /\ d.tab[t] \in Table /\ Exists(d, t)
    /\ d.tab[t].rows = db.tab[t].rows

LEMMA SetColsReshapes ==
    ASSUME NEW db \in Database, NEW t \in Names, Exists(db, t), NEW cs \in SUBSET Cols
    PROVE  LET d == SetCols(db, t, cs) IN
           /\ Reshapes(db, d, t)
           /\ d.tab[t].crdt = db.tab[t].crdt /\ d.tab[t].trig = db.tab[t].trig
           /\ d.tab[t].cols = cs
           /\ d.tab[t].loose = (db.tab[t].loose \/ (db.tab[t].crdt /\ Unguarded))
  <1> DEFINE l == db.tab[t].loose \/ (db.tab[t].crdt /\ Unguarded)
             tb == [db.tab[t] EXCEPT !.cols = cs, !.loose = l]
             d == SetCols(db, t, cs)
  <1>1. db.tab[t] \in Table
    BY TableOf
  <1>2. l \in BOOLEAN
    OBVIOUS
  <1>3. d = [db EXCEPT !.tab[t].cols = cs, !.tab[t].loose = l]
    BY <1>1 DEF SetCols, Database, Table
  <1> HIDE DEF l
  <1>4. tb \in Table /\ tb.cols = cs /\ tb.loose = l /\ tb.crdt = db.tab[t].crdt
        /\ tb.trig = db.tab[t].trig /\ tb.rows = db.tab[t].rows
    BY <1>1, <1>2 DEF Table
  <1>5. d = [db EXCEPT !.tab[t] = tb]
    BY <1>1, <1>3 DEF Database, Table
  <1> HIDE DEF tb, d
  <1>6. /\ d \in Database /\ SameRest(db, d) /\ d.tab[t] = tb
        /\ \A n \in Names \ {t} : d.tab[n] = db.tab[n]
    BY <1>4, <1>5, PutTable
  <1>7. Reshapes(db, d, t)
    BY <1>4, <1>6, NotNone DEF Reshapes, Exists
  <1> QED
    BY <1>4, <1>6, <1>7 DEF d, l

LEMMA PutTriggers ==
    ASSUME NEW db \in Database, NEW t \in Names, Exists(db, t), NEW G \in SUBSET Trigger
    PROVE  LET d == [db EXCEPT !.tab[t].trig = G] IN
           /\ Reshapes(db, d, t)
           /\ d.tab[t].crdt = db.tab[t].crdt /\ d.tab[t].trig = G
           /\ d.tab[t].cols = db.tab[t].cols /\ d.tab[t].loose = db.tab[t].loose
  <1> DEFINE tb == [db.tab[t] EXCEPT !.trig = G]
             d == [db EXCEPT !.tab[t].trig = G]
  <1>1. db.tab[t] \in Table
    BY TableOf
  <1>2. tb \in Table /\ tb.cols = db.tab[t].cols /\ tb.loose = db.tab[t].loose
        /\ tb.crdt = db.tab[t].crdt /\ tb.trig = G /\ tb.rows = db.tab[t].rows
    BY <1>1 DEF Table
  <1>3. d = [db EXCEPT !.tab[t] = tb]
    BY <1>1 DEF Database, Table
  <1> HIDE DEF tb, d
  <1>4. /\ d \in Database /\ SameRest(db, d) /\ d.tab[t] = tb
        /\ \A n \in Names \ {t} : d.tab[n] = db.tab[n]
    BY <1>2, <1>3, PutTable
  <1>5. Reshapes(db, d, t)
    BY <1>2, <1>4, NotNone DEF Reshapes, Exists
  <1> QED
    BY <1>2, <1>4, <1>5 DEF d

LEMMA TriggersReshape ==
    ASSUME NEW db \in Database, NEW t \in Names, Exists(db, t)
    PROVE  /\ LET d == DropTriggers(db, t) IN
              /\ Reshapes(db, d, t)
              /\ d.tab[t].crdt = db.tab[t].crdt /\ d.tab[t].cols = db.tab[t].cols
              /\ d.tab[t].loose = db.tab[t].loose
              /\ d.tab[t].trig = {g \in db.tab[t].trig : g.of # t}
           /\ LET d == SetupTriggers(db, t) IN
              /\ Reshapes(db, d, t)
              /\ d.tab[t].crdt = db.tab[t].crdt /\ d.tab[t].cols = db.tab[t].cols
              /\ d.tab[t].loose = db.tab[t].loose
              /\ d.tab[t].trig = {g \in db.tab[t].trig : g.of # t}
                                   \cup {[of |-> t, cols |-> Shipped(db.tab[t].cols)]}
  <1> DEFINE G == {g \in db.tab[t].trig : g.of # t}
             H == G \cup {[of |-> t, cols |-> Shipped(db.tab[t].cols)]}
  <1>1. db.tab[t] \in Table
    BY TableOf
  <1>2. G \in SUBSET Trigger /\ H \in SUBSET Trigger
    BY <1>1 DEF Table, Trigger, Shipped
  <1>3. DropTriggers(db, t) = [db EXCEPT !.tab[t].trig = G]
    BY <1>1 DEF DropTriggers, Database, Table
  <1>4. SetupTriggers(db, t) = [db EXCEPT !.tab[t].trig = H]
    BY <1>1 DEF SetupTriggers, Database, Table
  <1> HIDE DEF G, H
  <1>5. /\ Reshapes(db, DropTriggers(db, t), t)
        /\ DropTriggers(db, t).tab[t].crdt = db.tab[t].crdt
        /\ DropTriggers(db, t).tab[t].cols = db.tab[t].cols
        /\ DropTriggers(db, t).tab[t].loose = db.tab[t].loose
        /\ DropTriggers(db, t).tab[t].trig = G
    <2> DEFINE d == [db EXCEPT !.tab[t].trig = G]
    <2>1. /\ Reshapes(db, d, t) /\ d.tab[t].crdt = db.tab[t].crdt /\ d.tab[t].trig = G
          /\ d.tab[t].cols = db.tab[t].cols /\ d.tab[t].loose = db.tab[t].loose
      BY <1>2, PutTriggers
    <2> QED
      BY <1>3, <2>1
  <1>6. /\ Reshapes(db, SetupTriggers(db, t), t)
        /\ SetupTriggers(db, t).tab[t].crdt = db.tab[t].crdt
        /\ SetupTriggers(db, t).tab[t].cols = db.tab[t].cols
        /\ SetupTriggers(db, t).tab[t].loose = db.tab[t].loose
        /\ SetupTriggers(db, t).tab[t].trig = H
    BY <1>2, <1>4, PutTriggers
  <1> QED
    BY <1>5, <1>6 DEF G, H

LEMMA EnsureCrdtReshapes ==
    ASSUME NEW db \in Database, NEW t \in Names, Exists(db, t)
    PROVE  LET d == EnsureCrdt(db, t) IN
           /\ Reshapes(db, d, t) /\ d.tab[t].crdt
           /\ d.tab[t].cols = db.tab[t].cols /\ d.tab[t].loose = db.tab[t].loose
           /\ IF \E g \in db.tab[t].trig : g.of = t
              THEN d.tab[t].trig = db.tab[t].trig
              ELSE d.tab[t].trig = db.tab[t].trig \cup {[of |-> t, cols |-> Shipped(db.tab[t].cols)]}
  <1> DEFINE tb == [db.tab[t] EXCEPT !.crdt = TRUE]
             on == [db EXCEPT !.tab[t].crdt = TRUE]
             G == db.tab[t].trig \cup {[of |-> t, cols |-> Shipped(db.tab[t].cols)]}
  <1>1. db.tab[t] \in Table
    BY TableOf
  <1>2. tb \in Table /\ tb.cols = db.tab[t].cols /\ tb.loose = db.tab[t].loose
        /\ tb.crdt = TRUE /\ tb.trig = db.tab[t].trig /\ tb.rows = db.tab[t].rows
    BY <1>1 DEF Table
  <1>3. on = [db EXCEPT !.tab[t] = tb]
    BY <1>1 DEF Database, Table
  <1>4. G \in SUBSET Trigger
    BY <1>1 DEF Table, Trigger, Shipped
  <1> HIDE DEF tb, G
  <1>5. /\ on \in Database /\ SameRest(db, on) /\ on.tab[t] = tb
        /\ \A n \in Names \ {t} : on.tab[n] = db.tab[n]
    <2> HIDE DEF on
    <2> QED
      BY <1>2, <1>3, PutTable
  <1>6. EnsureCrdt(db, t) = IF \E g \in on.tab[t].trig : g.of = t THEN on
                            ELSE [on EXCEPT !.tab[t].trig = G]
    BY <1>1, <1>2, <1>5 DEF EnsureCrdt, G, Database, Table
  <1> HIDE DEF on
  <1>7. Reshapes(db, on, t) /\ Exists(on, t)
    BY <1>2, <1>5, NotNone DEF Reshapes, Exists
  <1>8. /\ Reshapes(on, [on EXCEPT !.tab[t].trig = G], t)
        /\ [on EXCEPT !.tab[t].trig = G].tab[t].crdt = on.tab[t].crdt
        /\ [on EXCEPT !.tab[t].trig = G].tab[t].trig = G
        /\ [on EXCEPT !.tab[t].trig = G].tab[t].cols = on.tab[t].cols
        /\ [on EXCEPT !.tab[t].trig = G].tab[t].loose = on.tab[t].loose
    BY <1>4, <1>5, <1>7, PutTriggers
  <1>9. Reshapes(db, [on EXCEPT !.tab[t].trig = G], t)
    BY <1>7, <1>8 DEF Reshapes, SameRest
  <1> QED
    BY <1>2, <1>5, <1>6, <1>7, <1>8, <1>9 DEF G

\* RENAME TO an unused name.
LEMMA RenameMoves ==
    ASSUME NEW db \in Database, NEW t \in Names, Exists(db, t), NEW u \in Names, ~Exists(db, u)
    PROVE  LET d == RenameTable(db, t, u) IN
           /\ d \in Database /\ t # u
           /\ d.ref = (IF db.ref = t THEN u ELSE db.ref) /\ d.gate = db.gate /\ d.hlc = db.hlc
           /\ d.dirty = db.dirty /\ d.log = db.log
           /\ d.tab[u] \in Table /\ d.tab[t] = None
           /\ \A n \in Names \ {t, u} : d.tab[n] = db.tab[n]
           /\ d.tab[u].rows = db.tab[t].rows /\ d.tab[u].crdt = db.tab[t].crdt
           /\ d.tab[u].trig = db.tab[t].trig /\ d.tab[u].cols = db.tab[t].cols
           /\ d.tab[u].loose = db.tab[t].loose
  <1> DEFINE tb == db.tab[t]
             tab == [n \in Names |-> IF n = u THEN tb ELSE IF n = t THEN None ELSE db.tab[n]]
             ref == IF db.ref = t THEN u ELSE db.ref
             d == [db EXCEPT !.tab = tab, !.ref = ref]
  <1>1. db.tab[t] \in Table /\ db.tab \in [Names -> Table \cup {None}] /\ t # u
    BY TableOf DEF Database
  <1>2. tb \in Table /\ tb.cols = db.tab[t].cols /\ tb.loose = db.tab[t].loose
        /\ tb.crdt = db.tab[t].crdt /\ tb.trig = db.tab[t].trig /\ tb.rows = db.tab[t].rows
    BY <1>1 DEF Table
  <1>3. RenameTable(db, t, u) = d
    BY DEF RenameTable, Database
  <1> HIDE DEF tb
  <1>4. /\ tab \in [Names -> Table \cup {None}] /\ tab[u] = tb /\ tab[t] = None
        /\ \A n \in Names \ {t, u} : tab[n] = db.tab[n]
    BY <1>1, <1>2
  <1>5. ref \in Names
    BY DEF Database
  <1> HIDE DEF tab, ref
  <1>6. d \in Database /\ d.tab = tab /\ d.ref = ref /\ d.gate = db.gate /\ d.hlc = db.hlc
        /\ d.dirty = db.dirty /\ d.log = db.log
    BY <1>4, <1>5 DEF Database
  <1> HIDE DEF d
  <1> QED
    BY <1>1, <1>2, <1>3, <1>4, <1>6 DEF ref

\* d is db after the rows of u were copied into t.
Copies(db, d, t, u) ==
    /\ d \in Database
    /\ d.ref = db.ref /\ d.gate = db.gate /\ d.hlc = db.hlc /\ d.log = db.log
    /\ db.dirty \subseteq d.dirty
    /\ \A n \in Names \ {t} : d.tab[n] = db.tab[n]
    /\ d.tab[t] \in Table
    /\ d.tab[t].crdt = db.tab[t].crdt /\ d.tab[t].cols = db.tab[t].cols
    /\ d.tab[t].trig = db.tab[t].trig
    /\ d.tab[t].loose = (db.tab[t].loose \/ db.tab[u].loose)
    /\ \A k \in Keys : k \notin RowKeys(db, u) => d.tab[t].rows[k] = db.tab[t].rows[k]
    /\ \A k \in RowKeys(db, u) : d.tab[t].rows[k] \in Row
    /\ ~db.gate => /\ d.dirty = db.dirty
                   /\ \A k \in RowKeys(db, u) : d.tab[t].rows[k] = db.tab[u].rows[k]

LEMMA CopyCopies ==
    ASSUME NEW db \in Database, NEW t \in Names, Exists(db, t), NEW u \in Names, Exists(db, u)
    PROVE  Copies(db, CopyRows(db, t, u), t, u)
  <1> DEFINE from == db.tab[u]
             Mapped(row) == IF Firing(db, t) = {} THEN row
                            ELSE [row EXCEPT !.cols = [c \in Cols |->
                                     IF c \in Tracked(db, t) THEN row.hlc ELSE 0]]
             rs == [k \in Keys |-> IF k \in RowKeys(db, u) THEN Mapped(from.rows[k])
                                                           ELSE db.tab[t].rows[k]]
             l == db.tab[t].loose \/ from.loose
             names == IF RowKeys(db, u) # {} THEN {g.of : g \in Firing(db, t)} ELSE {}
             tb == [db.tab[t] EXCEPT !.rows = rs, !.loose = l]
             e == [db EXCEPT !.tab[t] = tb]
             d == MarkDirty(e, names)
  <1>1. db.tab[t] \in Table /\ db.tab[u] \in Table
    BY TableOf
  <1>2. \A row \in Row : Mapped(row) \in Row
    BY MaxHlcNat DEF Row
  <1>3. ~db.gate => Firing(db, t) = {} /\ names = {}
    BY DEF Firing
  <1>4. ~db.gate => \A row \in Row : Mapped(row) = row
    BY <1>3
  <1>5. CopyRows(db, t, u) = MarkDirty([db EXCEPT !.tab[t].rows = rs, !.tab[t].loose = l], names)
    BY <1>1 DEF CopyRows, Database, Table
  <1>6. \A k \in RowKeys(db, u) : k \in Keys /\ from.rows[k] \in Row
    BY TableOf
  <1> HIDE DEF Mapped
  <1>7. /\ rs \in [Keys -> Row \cup {None}]
        /\ \A k \in RowKeys(db, u) : rs[k] \in Row /\ (~db.gate => rs[k] = db.tab[u].rows[k])
        /\ \A k \in Keys : k \notin RowKeys(db, u) => rs[k] = db.tab[t].rows[k]
    BY <1>1, <1>2, <1>4, <1>6 DEF Table
  <1>8. l \in BOOLEAN
    BY <1>1 DEF Table
  <1>9. names \in SUBSET (Names \cup {DeletedRows})
    BY FiringTyped
  <1> HIDE DEF rs, l, names
  <1>10. tb \in Table /\ tb.rows = rs /\ tb.loose = l
         /\ tb.crdt = db.tab[t].crdt /\ tb.cols = db.tab[t].cols /\ tb.trig = db.tab[t].trig
    BY <1>1, <1>7, <1>8 DEF Table
  <1>11. CopyRows(db, t, u) = d
    BY <1>1, <1>5 DEF Database, Table
  <1> HIDE DEF tb
  <1>12. /\ e \in Database /\ SameRest(db, e) /\ e.tab[t] = tb
         /\ \A n \in Names \ {t} : e.tab[n] = db.tab[n]
    <2> HIDE DEF e
    <2>1. e = [db EXCEPT !.tab[t] = tb]
      BY DEF e
    <2> QED
      BY <1>10, <2>1, PutTable
  <1> HIDE DEF e
  <1>13. /\ d \in Database /\ d.tab = e.tab /\ d.ref = e.ref /\ d.gate = e.gate
         /\ d.hlc = e.hlc /\ d.log = e.log /\ d.dirty = e.dirty \cup names
    BY <1>9, <1>12, MarkDirtyTyped
  <1> HIDE DEF d
  <1>14. d.tab[t].loose = (db.tab[t].loose \/ db.tab[u].loose)
    BY <1>10, <1>12, <1>13 DEF l
  <1> QED
    BY <1>3, <1>7, <1>10, <1>11, <1>12, <1>13, <1>14 DEF Copies, SameRest

LEMMA CreatePuts ==
    ASSUME NEW db \in Database, NEW s \in Statement, s.op = "create"
    PROVE  LET d == Effect(db, s)
               tb == d.tab[s.table]
           IN
           /\ d \in Database /\ SameRest(db, d)
           /\ \A n \in Names \ {s.table} : d.tab[n] = db.tab[n]
           /\ tb \in Table
           /\ tb.crdt = (s.hlc # 0) /\ tb.trig = {} /\ tb.rows = NoRows /\ tb.cols = {s.col}
           /\ tb.loose = (s.hlc # 0 /\ Unguarded)
  <1> DEFINE a == s.hlc # 0
             l == s.hlc # 0 /\ Unguarded
             tb == [crdt |-> a, cols |-> {s.col}, trig |-> {}, rows |-> NoRows,
                    loose |-> l]
             d == Effect(db, s)
  <1>1. a \in BOOLEAN /\ l \in BOOLEAN /\ s.col \in Cols /\ s.table \in Names
    BY DEF Statement
  <1>2. NoRows \in [Keys -> Row \cup {None}]
    BY DEF NoRows
  <1>3. d = [db EXCEPT !.tab[s.table] = tb]
    BY DEF Effect
  <1> HIDE DEF a, l, d
  <1>4. tb \in Table /\ tb.crdt = a /\ tb.trig = {} /\ tb.rows = NoRows /\ tb.cols = {s.col}
        /\ tb.loose = l
    BY <1>1, <1>2 DEF Table
  <1> HIDE DEF tb
  <1>5. /\ d \in Database /\ SameRest(db, d) /\ d.tab[s.table] = tb
        /\ \A n \in Names \ {s.table} : d.tab[n] = db.tab[n]
    BY <1>1, <1>3, <1>4, PutTable
  <1> QED
    BY <1>4, <1>5 DEF d, a, l

\* DROP TABLE: the cascade, then the table.
LEMMA DropPuts ==
    ASSUME NEW db \in Database, NEW s \in Statement, s.op = "drop", Exists(db, s.table)
    PROVE  LET d == Effect(db, s)
               e == Cascade(db, s.table, RowKeys(db, s.table))
           IN
           /\ e \in Database
           /\ d \in Database /\ SameRest(e, d)
           /\ \A n \in Names \ {s.table} : d.tab[n] = e.tab[n]
           /\ d.tab[s.table] = None
  <1> DEFINE d == Effect(db, s)
             e == Cascade(db, s.table, RowKeys(db, s.table))
  <1>1. s.table \in Names /\ RowKeys(db, s.table) \in SUBSET Keys
    BY TableOf DEF Statement
  <1>2. d = [e EXCEPT !.tab[s.table] = None]
    BY DEF Effect
  <1>3. e \in Database
    BY <1>1, CascadeRemoves DEF RemovesRows, RowsOnly
  <1> HIDE DEF d, e
  <1>4. /\ d \in Database /\ SameRest(e, d) /\ d.tab[s.table] = None
        /\ \A n \in Names \ {s.table} : d.tab[n] = e.tab[n]
    <2> DEFINE t == s.table
    <2>1. t \in Names /\ d = [e EXCEPT !.tab[t] = None] /\ None \in Table \cup {None}
      BY <1>1, <1>2
    <2> HIDE DEF t
    <2>2. /\ d \in Database /\ SameRest(e, d) /\ d.tab[t] = None
          /\ \A n \in Names \ {t} : d.tab[n] = e.tab[n]
      BY <1>3, <2>1, PutTable
    <2> QED
      BY <2>2 DEF t
  <1> QED
    BY <1>3, <1>4 DEF d, e

\* Column c was given its value by the stamp h, if at all.
StampedColumn(row, n, c, h) ==
    row.given[c] = None \/ (row.given[c] = [hlc |-> h, as |-> n] /\ row.cols[c] = h)

\* d is db after the rows of the tables ts that had no HLC got h.
Stamps(db, d, ts, h) ==
    /\ d \in Database
    /\ d.ref = db.ref /\ d.gate = db.gate /\ d.log = db.log /\ d.hlc = h
    /\ d.dirty = db.dirty \cup ts
    /\ \A n \in Names \ ts : d.tab[n] = db.tab[n]
    /\ \A n \in ts :
         /\ d.tab[n] \in Table /\ SameSchema(d.tab[n], db.tab[n])
         /\ \A k \in Keys :
              IF k \in Unstamped(db, n)
              THEN /\ d.tab[n].rows[k] \in Row /\ d.tab[n].rows[k].hlc = h
                   /\ \A c \in Cols : StampedColumn(d.tab[n].rows[k], n, c, h)
              ELSE d.tab[n].rows[k] = db.tab[n].rows[k]

LEMMA StampStamps ==
    ASSUME NEW db \in Database, NEW ts \in SUBSET Names, \A t \in ts : Exists(db, t),
           NEW skip, NEW h \in 0..MaxHlc
    PROVE  Stamps(db, StampRows(db, ts, skip, h), ts, h)
  <1> DEFINE cs(t) == db.tab[t].cols \ skip
             hist(t) == Gives([c \in Cols |-> None], t, cs(t), h)
             Stamp(t) == [hlc |-> h, cols |-> [c \in Cols |-> IF c \in cs(t) THEN h ELSE 0],
                          given |-> hist(t)]
             Stamped(t) == [k \in Keys |-> IF k \in Unstamped(db, t) THEN Stamp(t)
                                                                   ELSE db.tab[t].rows[k]]
             Tb(t) == [db.tab[t] EXCEPT !.rows = Stamped(t)]
             tab == [t \in Names |-> IF t \in ts THEN Tb(t) ELSE db.tab[t]]
             e == [db EXCEPT !.tab = tab, !.hlc = h]
             d == MarkDirty(e, ts)
  <1>1. StampRows(db, ts, skip, h) = d
    BY DEF StampRows
  <1>2. \A t \in ts : db.tab[t] \in Table
    BY TableOf
  <1>3. ASSUME NEW t \in ts
        PROVE  /\ Tb(t) \in Table /\ SameSchema(Tb(t), db.tab[t])
               /\ \A k \in Keys :
                    IF k \in Unstamped(db, t)
                    THEN /\ Tb(t).rows[k] \in Row /\ Tb(t).rows[k].hlc = h
                         /\ \A c \in Cols : StampedColumn(Tb(t).rows[k], t, c, h)
                    ELSE Tb(t).rows[k] = db.tab[t].rows[k]
    <2>0. /\ hist(t) \in [Cols -> Given \cup {None}]
          /\ \A c \in Cols : hist(t)[c] = IF h # 0 /\ c \in cs(t)
                                           THEN [hlc |-> h, as |-> t] ELSE None
      <3> HIDE DEF cs
      <3> QED
        BY GivesTyped
    <2> HIDE DEF cs, hist
    <2>1. Stamp(t) \in Row /\ Stamp(t).hlc = h
      BY <2>0, MaxHlcNat DEF Row
    <2>2. \A c \in Cols : StampedColumn(Stamp(t), t, c, h)
      BY <2>0 DEF StampedColumn
    <2> HIDE DEF Stamp
    <2>3. /\ Stamped(t) \in [Keys -> Row \cup {None}]
          /\ \A k \in Keys : Stamped(t)[k] = IF k \in Unstamped(db, t) THEN Stamp(t)
                                             ELSE db.tab[t].rows[k]
      BY <1>2, <2>1 DEF Table
    <2> HIDE DEF Stamped
    <2>4. Tb(t) \in Table /\ SameSchema(Tb(t), db.tab[t]) /\ Tb(t).rows = Stamped(t)
      BY <1>2, <2>3 DEF Table, SameSchema
    <2> QED
      BY <2>1, <2>2, <2>3, <2>4
  <1> HIDE DEF Tb
  <1>4. /\ tab \in [Names -> Table \cup {None}]
        /\ \A t \in ts : tab[t] = Tb(t)
        /\ \A t \in Names \ ts : tab[t] = db.tab[t]
    BY <1>3 DEF Database
  <1> HIDE DEF tab
  <1>5. /\ e \in Database /\ e.tab = tab /\ e.ref = db.ref /\ e.gate = db.gate
        /\ e.hlc = h /\ e.log = db.log /\ e.dirty = db.dirty
    BY <1>4 DEF Database
  <1> HIDE DEF e
  <1>6. ts \in SUBSET (Names \cup {DeletedRows})
    OBVIOUS
  <1>7. /\ d \in Database /\ d.tab = e.tab /\ d.ref = e.ref /\ d.gate = e.gate
        /\ d.hlc = e.hlc /\ d.log = e.log /\ d.dirty = e.dirty \cup ts
    BY <1>5, <1>6, MarkDirtyTyped
  <1> HIDE DEF d
  <1>8. \A n \in ts : d.tab[n] = Tb(n)
    BY <1>4, <1>5, <1>7
  <1> QED
    BY <1>1, <1>3, <1>4, <1>5, <1>7, <1>8 DEF Stamps

\* The conditions under which SQLite runs a statement, one kind at a time.
LEMMA RunsNeeds ==
    ASSUME NEW db \in Database, NEW s \in Statement, Runs(db, s)
    PROVE  /\ s.op \in {"insert", "upsert", "update", "delete", "add", "remove", "rename",
                        "drop", "copy"} => Exists(db, s.table)
           /\ s.op = "insert" => s.key \notin RowKeys(db, s.table)
           /\ s.op = "update" => s.key \in RowKeys(db, s.table)
           /\ s.op \in {"upsert", "update"} => s.col \in db.tab[s.table].cols
           /\ s.op \in {"insert", "upsert", "update"} /\ s.hlc # 0 => IsCrdt(db, s.table)
           /\ s.op \in {"insert", "upsert"} /\ conn.fk /\ s.table = Child
                => s.key \in RowKeys(db, db.ref)
           /\ s.op = "create" => ~Exists(db, s.table)
           /\ s.op = "rename" => ~Exists(db, s.other)
           /\ s.op = "copy" => Exists(db, s.other)
  BY DEF Runs, RowKeys

\* INSERT, upsert and UPDATE.
LEMMA EffectWrites ==
    ASSUME NEW db \in Database, NEW s \in Statement, s.hlc <= MaxHlc, Runs(db, s),
           s.op \in {"insert", "upsert", "update"}
    PROVE  WritesRow(db, Effect(db, s), s.table, s.key, s.col, s.hlc)
  <1>1. s.table \in Names /\ s.key \in Keys /\ s.col \in Cols /\ s.hlc \in 0..MaxHlc
    BY MaxHlcNat DEF Statement
  <1>2. Exists(db, s.table)
    BY RunsNeeds
  <1>3. CASE s.op = "insert"
    BY <1>1, <1>2, <1>3, InsertWrites, RunsNeeds DEF Effect
  <1>4. CASE s.op = "upsert"
    BY <1>1, <1>2, <1>4, UpsertWrites, RunsNeeds DEF Effect
  <1>5. CASE s.op = "update"
    BY <1>1, <1>2, <1>5, UpdateWrites, RunsNeeds DEF Effect
  <1> QED
    BY <1>3, <1>4, <1>5

\* DELETE with the rows that cascade.
LEMMA EffectDeletes ==
    ASSUME NEW db \in Database, NEW s \in Statement, s.op = "delete", Exists(db, s.table)
    PROVE  LET d == Effect(db, s)
               ks == {s.key} \cap RowKeys(db, s.table)
               cs == Cascaded(DeleteRows(db, s.table, ks), s.table, ks)
           IN
           /\ RemovesRows(db, d, {s.table} \cup (IF cs = {} THEN {} ELSE {Child}))
           /\ ks = {} => RemovesRows(db, d, {})
           /\ cs \subseteq ks
           /\ d.log # db.log => \/ ks # {} /\ Firing(db, s.table) # {}
                                \/ cs # {} /\ Firing(db, Child) # {}
           /\ s.table # Child => RowKeys(d, s.table) = RowKeys(db, s.table) \ ks
           /\ RowKeys(d, Child) = IF s.table = Child THEN RowKeys(db, Child) \ ks
                                  ELSE RowKeys(db, Child) \ cs
  <1> DEFINE t == s.table
             ks == {s.key} \cap RowKeys(db, t)
             e == DeleteRows(db, t, ks)
             cs == Cascaded(e, t, ks)
             d == Cascade(e, t, ks)
  <1>1. t \in Names /\ ks \in SUBSET Keys /\ Child \in Names
    BY TableOf, WriteConstants DEF Statement
  <1>2. Effect(db, s) = d
    BY DEF Effect
  <1> HIDE DEF ks
  <1>3. /\ RemovesRows(db, e, {t})
        /\ RowKeys(e, t) = RowKeys(db, t) \ ks
        /\ e.log # db.log => Firing(db, t) # {} /\ ks # {}
    BY <1>1, DeleteRemoves
  <1> HIDE DEF e
  <1>4. e \in Database
    BY <1>3 DEF RemovesRows, RowsOnly
  <1>5. /\ cs \subseteq ks /\ cs \subseteq RowKeys(e, Child)
        /\ RemovesRows(e, d, IF cs = {} THEN {} ELSE {Child})
        /\ RowKeys(d, Child) = RowKeys(e, Child) \ cs
        /\ d.log # e.log => cs # {} /\ Firing(e, Child) # {}
    BY <1>1, <1>4, CascadeRemoves
  <1> HIDE DEF cs, d
  <1>6. RemovesRows(db, d, {t} \cup (IF cs = {} THEN {} ELSE {Child}))
    BY <1>3, <1>5, RemovesTwice
  <1>7. cs # {} => Firing(e, Child) = Firing(db, Child)
    <2> SUFFICES ASSUME cs # {} PROVE Firing(e, Child) = Firing(db, Child)
      OBVIOUS
    <2>1. Exists(e, Child)
      BY <1>5 DEF RowKeys
    <2> QED
      BY <1>1, <1>3, <2>1 DEF RemovesRows, RowsOnly, SameSchema, Firing
  <1>8. t # Child => RowKeys(d, t) = RowKeys(e, t) /\ RowKeys(e, Child) = RowKeys(db, Child)
    <2> SUFFICES ASSUME t # Child
                 PROVE  RowKeys(d, t) = RowKeys(e, t) /\ RowKeys(e, Child) = RowKeys(db, Child)
      OBVIOUS
    <2>1. d.tab[t] = e.tab[t]
      BY <1>1, <1>5 DEF RemovesRows, RowsOnly
    <2>2. e.tab[Child] = db.tab[Child]
      BY <1>1, <1>3 DEF RemovesRows, RowsOnly
    <2> QED
      BY <2>1, <2>2 DEF RowKeys, Exists
  <1>9. ks = {} => RemovesRows(db, d, {})
    <2> SUFFICES ASSUME ks = {} PROVE RemovesRows(db, d, {})
      OBVIOUS
    <2>1. cs = {}
      BY <1>5
    <2>2. RemovesRows(e, d, {})
      BY <1>5, <2>1
    <2>3. e.tab[t] = db.tab[t]
      <3>1. db.tab[t] \in Table /\ e.tab[t] \in Table
        BY <1>1, <1>3, <1>4, TableOf DEF RemovesRows, RowsOnly
      <3>2. \A k \in Keys : e.tab[t].rows[k] = db.tab[t].rows[k]
        <4> SUFFICES ASSUME NEW k \in Keys, e.tab[t].rows[k] # db.tab[t].rows[k] PROVE FALSE
          OBVIOUS
        <4>1. e.tab[t].rows[k] = None /\ db.tab[t].rows[k] # None
          BY <1>1, <1>3 DEF RemovesRows
        <4>2. k \in RowKeys(db, t) /\ k \notin RowKeys(e, t)
          BY <3>1, <4>1, NotNone DEF RowKeys, Exists
        <4> QED
          BY <1>3, <4>2
      <3>3. SameSchema(e.tab[t], db.tab[t])
        BY <1>1, <1>3 DEF RemovesRows, RowsOnly
      <3> QED
        BY <3>1, <3>2, <3>3 DEF SameSchema, Table
    <2>4. RemovesRows(db, e, {})
      BY <1>3, <2>3 DEF RemovesRows, RowsOnly
    <2>5. {} \cup {} = {}
      OBVIOUS
    <2> QED
      BY <2>2, <2>4, <2>5, RemovesTwice
  <1>10. t = Child => RowKeys(d, Child) = RowKeys(db, Child) \ ks
    BY <1>3, <1>5
  <1>11. /\ RemovesRows(db, d, {t} \cup (IF cs = {} THEN {} ELSE {Child}))
         /\ ks = {} => RemovesRows(db, d, {})
         /\ cs \subseteq ks
         /\ d.log # db.log => \/ ks # {} /\ Firing(db, t) # {}
                              \/ cs # {} /\ Firing(db, Child) # {}
         /\ t # Child => RowKeys(d, t) = RowKeys(db, t) \ ks
         /\ RowKeys(d, Child) = IF t = Child THEN RowKeys(db, Child) \ ks
                                ELSE RowKeys(db, Child) \ cs
    BY <1>3, <1>5, <1>6, <1>7, <1>8, <1>9, <1>10
  <1> QED
    BY <1>2, <1>11 DEF d, cs, e, ks

\* ALTER TABLE ... ADD COLUMN and DROP COLUMN.
LEMMA EffectAlters ==
    ASSUME NEW db \in Database, NEW s \in Statement, s.op \in {"add", "remove"},
           Exists(db, s.table)
    PROVE  LET d == Effect(db, s)
               t == s.table
           IN
           /\ Reshapes(db, d, t)
           /\ d.tab[t].crdt = db.tab[t].crdt /\ d.tab[t].trig = db.tab[t].trig
           /\ d.tab[t].cols = IF s.op = "add" THEN db.tab[t].cols \cup {s.col}
                              ELSE db.tab[t].cols \ {s.col}
           /\ d.tab[t].loose = (db.tab[t].loose \/ (db.tab[t].crdt /\ Unguarded))
  <1> DEFINE t == s.table
             cs == IF s.op = "add" THEN db.tab[t].cols \cup {s.col}
                   ELSE db.tab[t].cols \ {s.col}
  <1>1. t \in Names /\ db.tab[t] \in Table
    BY TableOf DEF Statement
  <1>2. cs \in SUBSET Cols
    BY <1>1 DEF Table, Statement
  <1>3. Effect(db, s) = SetCols(db, t, cs)
    BY DEF Effect
  <1> HIDE DEF cs
  <1>4. /\ Reshapes(db, SetCols(db, t, cs), t)
        /\ SetCols(db, t, cs).tab[t].crdt = db.tab[t].crdt
        /\ SetCols(db, t, cs).tab[t].trig = db.tab[t].trig
        /\ SetCols(db, t, cs).tab[t].cols = cs
        /\ SetCols(db, t, cs).tab[t].loose = (db.tab[t].loose \/ (db.tab[t].crdt /\ Unguarded))
    BY <1>1, <1>2, SetColsReshapes
  <1> QED
    BY <1>3, <1>4 DEF cs

\* ALTER TABLE ... RENAME TO.
LEMMA EffectRenames ==
    ASSUME NEW db \in Database, NEW s \in Statement, s.op = "rename",
           Exists(db, s.table), ~Exists(db, s.other)
    PROVE  LET d == Effect(db, s)
               t == s.table
               u == s.other
           IN
           /\ d \in Database /\ t # u
           /\ d.ref = (IF db.ref = t THEN u ELSE db.ref) /\ d.gate = db.gate /\ d.hlc = db.hlc
           /\ d.dirty = db.dirty /\ d.log = db.log
           /\ d.tab[u] \in Table /\ d.tab[t] = None
           /\ \A n \in Names \ {t, u} : d.tab[n] = db.tab[n]
           /\ d.tab[u].rows = db.tab[t].rows /\ d.tab[u].crdt = db.tab[t].crdt
           /\ d.tab[u].trig = db.tab[t].trig /\ d.tab[u].cols = db.tab[t].cols
           /\ d.tab[u].loose = (db.tab[t].loose \/ (db.tab[t].crdt /\ Unguarded))
  <1> DEFINE t == s.table
             u == s.other
             e == SetCols(db, t, db.tab[t].cols)
             d == RenameTable(e, t, u)
  <1>1. t \in Names /\ u \in Names /\ db.tab[t] \in Table /\ db.tab[t].cols \in SUBSET Cols
    BY TableOf DEF Statement, Table
  <1>2. t # u
    OBVIOUS
  <1>3. Effect(db, s) = d
    BY DEF Effect
  <1>4. /\ Reshapes(db, e, t)
        /\ e.tab[t].crdt = db.tab[t].crdt /\ e.tab[t].trig = db.tab[t].trig
        /\ e.tab[t].cols = db.tab[t].cols
        /\ e.tab[t].loose = (db.tab[t].loose \/ (db.tab[t].crdt /\ Unguarded))
    BY <1>1, SetColsReshapes
  <1> HIDE DEF e
  <1>5. e \in Database /\ Exists(e, t) /\ ~Exists(e, u)
    BY <1>1, <1>2, <1>4 DEF Reshapes, Exists
  <1>6. /\ d \in Database
        /\ d.ref = (IF e.ref = t THEN u ELSE e.ref) /\ d.gate = e.gate /\ d.hlc = e.hlc
        /\ d.dirty = e.dirty /\ d.log = e.log
        /\ d.tab[u] \in Table /\ d.tab[t] = None
        /\ \A n \in Names \ {t, u} : d.tab[n] = e.tab[n]
        /\ d.tab[u].rows = e.tab[t].rows /\ d.tab[u].crdt = e.tab[t].crdt
        /\ d.tab[u].trig = e.tab[t].trig /\ d.tab[u].cols = e.tab[t].cols
        /\ d.tab[u].loose = e.tab[t].loose
    BY <1>1, <1>5, RenameMoves
  <1> HIDE DEF d
  <1>7. \A n \in Names \ {t, u} : d.tab[n] = db.tab[n]
    BY <1>4, <1>6 DEF Reshapes
  <1> HIDE DEF t, u
  <1>8. /\ d.ref = (IF db.ref = t THEN u ELSE db.ref) /\ d.gate = db.gate /\ d.hlc = db.hlc
        /\ d.dirty = db.dirty /\ d.log = db.log
        /\ d.tab[u].rows = db.tab[t].rows /\ d.tab[u].crdt = db.tab[t].crdt
        /\ d.tab[u].trig = db.tab[t].trig /\ d.tab[u].cols = db.tab[t].cols
        /\ d.tab[u].loose = (db.tab[t].loose \/ (db.tab[t].crdt /\ Unguarded))
    BY <1>4, <1>6 DEF Reshapes, SameRest
  <1> QED
    BY <1>2, <1>3, <1>6, <1>7, <1>8 DEF t, u

LEMMA EffectTyped ==
    ASSUME NEW db \in Database, NEW s \in Statement, s.hlc <= MaxHlc, Runs(db, s)
    PROVE  Effect(db, s) \in Database /\ Effect(db, s).hlc = db.hlc
  <1>0. s.table \in Names /\ s.other \in Names
    BY DEF Statement
  <1>1. CASE s.op = "query"
    BY <1>1 DEF Effect
  <1>2. CASE s.op \in {"insert", "upsert", "update"}
    BY <1>2, EffectWrites DEF WritesRow, RowsOnly
  <1>3. CASE s.op = "delete"
    BY <1>3, RunsNeeds, EffectDeletes DEF RemovesRows, RowsOnly
  <1>4. CASE s.op = "create"
    BY <1>4, CreatePuts DEF SameRest
  <1>5. CASE s.op \in {"add", "remove"}
    BY <1>5, RunsNeeds, EffectAlters DEF Reshapes, SameRest
  <1>6. CASE s.op = "rename"
    BY <1>6, RunsNeeds, EffectRenames
  <1>7. CASE s.op = "drop"
    <2> DEFINE e == Cascade(db, s.table, RowKeys(db, s.table))
    <2>1. RowKeys(db, s.table) \in SUBSET Keys
      BY <1>0, TableOf
    <2>2. e.hlc = db.hlc
      BY <1>0, <2>1, CascadeRemoves DEF RemovesRows, RowsOnly
    <2> QED
      BY <1>7, <2>2, RunsNeeds, DropPuts DEF SameRest
  <1>8. CASE s.op = "copy"
    BY <1>0, <1>8, RunsNeeds, CopyCopies DEF Effect, Copies
  <1> QED
    BY <1>1, <1>2, <1>3, <1>4, <1>5, <1>6, <1>7, <1>8 DEF Statement, Ops

-----------------------------------------------------------------------------
(* What a step may do to the databases                                     *)

\* Every HLC in use is behind the clock, which a statement, an install_crdt and, after
\* a call that died, a reopen advance by one.
BoundInv ==
    /\ clock + (IF pc = "idle" THEN 0 ELSE 1) <= FirstDb.hlc + steps + calls
    /\ disk.hlc <= clock /\ work.hlc <= clock /\ txHlc <= clock
    /\ savepoint # None => savepoint.hlc <= clock
    /\ pc \in Handling => stmt.hlc <= clock

\* The observer's state while the transaction holds its changes back.
HeldBack ==
    /\ ~auto => changed \subseteq changed'
    /\ ~auto \/ ~unnoted \/ pc \notin Writing => UNCHANGED reported

\* Nothing is written.
Stays ==
    /\ UNCHANGED <<disk, work, savepoint, auto, base, did, result, unnoted>>
    /\ HeldBack
    /\ pc \in Writing <=> pc' \in Writing
    /\ pc \in Writing => UNCHANGED call
    /\ pc \notin Writing => UNCHANGED <<pc, call>> \/ pc' # "idle" \/ ~call'.schema
    /\ savepoint # None => UNCHANGED <<pc, stmt, call>>

\* install_crdt refuses.
Declines ==
    /\ pc = "idle" /\ pc' = "idle" /\ result' = "err" /\ ~call'.schema
    /\ base' = disk /\ reported' = {} /\ did' = {}
    /\ UNCHANGED <<disk, work, savepoint, auto, changed, unnoted>>

\* The transaction is rolled back, and the call goes on, returns Err or dies.
RollsBack ==
    /\ RolledBack
    /\ UNCHANGED base
    /\ ~unnoted' => ~unnoted
    /\ pc' = "closure" => pc \in Writing /\ UNCHANGED call
    /\ pc' # "closure" => /\ pc' \in {"idle", "closed"}
                          /\ IF pc \in Writing THEN result' \in {"err", "crash"}
                             ELSE pc' = "closed" /\ UNCHANGED <<result, did>>

\* The statement is rolled back to its savepoint.
BacksUp ==
    /\ savepoint # None /\ savepoint' = None
    /\ work' = savepoint /\ disk' = (IF auto THEN savepoint ELSE disk)
    /\ UNCHANGED <<auto, base, call, result, unnoted>>
    /\ HeldBack
    /\ pc \in {"running", "ran"} /\ pc' = "closure"
    /\ did' = IF pc = "ran" THEN did \ {<<stmt.op, stmt.table, stmt.other>>} ELSE did

\* The transaction's HLC is stored.
SetsHlc ==
    /\ pc = "closure" /\ pc' \in {"prepared", "running"}
    /\ savepoint = None /\ savepoint' = None
    /\ \E h \in 0..MaxHlc : /\ h = IF txHlc = 0 THEN clock + 1 ELSE txHlc
                            /\ work' = [work EXCEPT !.hlc = h]
    /\ disk' = IF auto THEN work' ELSE disk
    /\ UNCHANGED <<auto, base, call, did, result, unnoted>>
    /\ HeldBack

\* The other steps as they are.
Writes ==
    \/ BeginSchemaChange \/ (\E s \in Statements : BeginCopy(s))
    \/ Execute \/ CompleteSchemaChange \/ EndCopy
Ends == Commit \/ CommitFails \/ Reopen \/ \E t \in Names : InstallCrdt(t)
Begins == \E g, s, l \in BOOLEAN : BeginWrite(g, s, l)

Moves ==
    Stays \/ Declines \/ RollsBack \/ BacksUp \/ SetsHlc \/ Writes \/ Ends \/ Begins

LEMMA BackUpSettles ==
    ASSUME RolledBackToSavepoint
    PROVE  /\ work' = savepoint /\ savepoint' = None /\ UNCHANGED auto
           /\ disk' = IF auto THEN savepoint ELSE disk
           /\ ~auto => changed \subseteq changed' /\ UNCHANGED reported
  BY DEF RolledBackToSavepoint, Settle

LEMMA StepMoves == TypeOK /\ BoundInv /\ Control /\ [Next]_vars => Moves
  <1> SUFFICES ASSUME TypeOK, BoundInv, Control, [Next]_vars PROVE Moves
    OBVIOUS
  <1>0. FileInv /\ GateInv /\ TxInv /\ UndoInv /\ ConnInv /\ ShapeInv
    BY DEF Control
  <1>a. pc \in Writing /\ savepoint # None => pc \in {"running", "ran"} /\ InSavepoint
    BY <1>0 DEF TxInv, Writing, ShapeInv
  <1>b. pc \notin Writing => savepoint = None
    BY <1>0 DEF TxInv
  <1>1. ASSUME NEW s \in Statements, Query(s) \/ PrepareLocal(s) PROVE Stays
    BY <1>0, <1>1 DEF Query, PrepareLocal, NextStatement, Start, sqlite, Stays, HeldBack, Writing,
       TxInv
  <1>2. ASSUME NEW s \in Statements, Refuse(s) \/ RefuseCopy(s) PROVE Stays
    BY <1>0, <1>2 DEF Refuse, RefuseCopy, Refused, NextStatement, sqlite, Stays, HeldBack, Writing
  <1>3. ASSUME NEW s \in Statements, PrepareStamped(s) PROVE SetsHlc
    <2> DEFINE h == IF txHlc = 0 THEN clock + 1 ELSE txHlc
    <2>1. clock \in Nat /\ txHlc \in Nat /\ txHlc <= MaxHlc /\ steps \in Nat /\ calls \in Nat
          /\ calls <= MaxCalls
      BY DEF TypeOK
    <2>2. clock + 1 <= FirstDb.hlc + steps + calls /\ steps < MaxStatements
      BY <1>3 DEF BoundInv, PrepareStamped, NextStatement
    <2>3. h \in 0..MaxHlc
      BY <2>1, <2>2, MaxHlcNat, WriteConstants DEF MaxHlc
    <2>4. /\ pc = "closure" /\ pc' \in {"prepared", "running"} /\ ~aborted
          /\ UNCHANGED <<savepoint, auto, base, call, did, result, unnoted>>
      BY <1>3 DEF PrepareStamped, NextStatement, Start
    <2>5. savepoint = None
      BY <1>0, <2>4 DEF TxInv
    <2>6. work' = [work EXCEPT !.hlc = h]
      BY <1>3 DEF PrepareStamped, Settle
    <2>7. IF ~auto THEN changed' = changed /\ UNCHANGED <<disk, reported>> ELSE disk' = work'
      BY <1>3, <2>5 DEF PrepareStamped, Settle, Held
    <2>8. ~unnoted => ~auto
      BY <1>0, <2>4 DEF FileInv, Writing
    <2>9. h = IF txHlc = 0 THEN clock + 1 ELSE txHlc
      OBVIOUS
    <2> HIDE DEF h
    <2> QED
      BY <2>3, <2>4, <2>5, <2>6, <2>7, <2>8, <2>9 DEF SetsHlc, HeldBack, Writing
  <1>4. ASSUME NEW s \in Statements, PersistFailsHard(s) PROVE RollsBack
    BY <1>4 DEF PersistFailsHard, NextStatement, RollsBack, Writing
  <1>5. ASSUME NEW s \in Statements, BeginCopyFails(s) PROVE Stays \/ RollsBack
    BY <1>0, <1>5 DEF BeginCopyFails, NextStatement, sqlite, Stays, HeldBack, RollsBack, Writing
  <1>6. ASSUME BeginSchemaChangeFails PROVE Stays \/ RollsBack
    <2>1. ASSUME UNCHANGED <<sqlite, unnoted>> PROVE Stays
      BY <1>0, <1>6, <2>1 DEF BeginSchemaChangeFails, sqlite, Stays, HeldBack, Writing, TxInv,
         handle
    <2>2. ASSUME RolledBack, unnoted' = TRUE PROVE RollsBack
      BY <1>6, <2>2 DEF BeginSchemaChangeFails, RollsBack, Writing, handle
    <2> QED
      BY <1>6, <2>1, <2>2 DEF BeginSchemaChangeFails
  <1>7. ASSUME ExecuteFails PROVE Stays \/ BacksUp
    <2>0. pc = "running" /\ pc' = "closure" /\ UNCHANGED <<call, base, did, unnoted, result>>
      BY <1>7 DEF ExecuteFails, ToClosure
    <2>1. ~unnoted => ~auto
      BY <1>0, <2>0 DEF FileInv, Writing
    <2>2. ASSUME InSavepoint PROVE BacksUp
      <3>1. savepoint # None
        BY <1>0, <2>0, <2>2, NoneHasNoGate DEF GateInv
      <3>2. RolledBackToSavepoint
        BY <1>7, <2>2 DEF ExecuteFails
      <3> QED
        BY <2>0, <2>1, <3>1, <3>2, BackUpSettles DEF BacksUp, HeldBack, Writing
    <2>3. ASSUME ~InSavepoint PROVE Stays
      <3>1. savepoint = None /\ UNCHANGED <<savepoint, auto>>
        BY <1>0, <1>7, <2>0, <2>3 DEF TxInv, ExecuteFails
      <3>2. \E ts : Settle(work, IF Held THEN ts ELSE {}, Held)
        BY <1>7, <2>3 DEF ExecuteFails
      <3>3. work' = work /\ IF ~auto THEN changed \subseteq changed' /\ UNCHANGED <<disk, reported>>
                            ELSE disk' = work
        BY <3>1, <3>2 DEF Settle, Held
      <3>4. UNCHANGED disk
        BY <1>0, <3>1, <3>3 DEF ShapeInv
      <3> QED
        BY <2>0, <2>1, <3>1, <3>3, <3>4 DEF Stays, HeldBack, Writing
    <2> QED
      BY <2>2, <2>3
  <1>8. ASSUME ExecuteFailsHard PROVE RollsBack
    BY <1>8 DEF ExecuteFailsHard, ToClosure, RollsBack, Writing
  <1>9. ASSUME Interrupt PROVE Stays \/ BacksUp \/ RollsBack
    <2>0. pc = "running" /\ pc' = "closure" /\ UNCHANGED <<call, base, did, unnoted, result>>
      BY <1>9 DEF Interrupt, ToClosure
    <2>1. ~unnoted => ~auto
      BY <1>0, <2>0 DEF FileInv, Writing
    <2>2. ASSUME RolledBack PROVE RollsBack
      BY <2>0, <2>2 DEF RollsBack, Writing
    <2>3. ASSUME InSavepoint, RolledBackToSavepoint PROVE BacksUp
      <3>1. savepoint # None
        BY <1>0, <2>0, <2>3, NoneHasNoGate DEF GateInv
      <3> QED
        BY <2>0, <2>1, <2>3, <3>1, BackUpSettles DEF BacksUp, HeldBack, Writing
    <2>4. ASSUME ~InSavepoint, UNCHANGED sqlite PROVE Stays
      BY <1>0, <2>0, <2>4 DEF TxInv, Stays, HeldBack, Writing, sqlite
    <2> QED
      BY <1>9, <2>2, <2>3, <2>4 DEF Interrupt
  <1>10. ASSUME CompleteSchemaChangeFails \/ EndCopyFails PROVE BacksUp \/ RollsBack
    <2>0. /\ pc = "ran" /\ pc' = "closure" /\ UNCHANGED <<call, base, result>>
          /\ did' = did \ {<<stmt.op, stmt.table, stmt.other>>}
      BY <1>10 DEF CompleteSchemaChangeFails, EndCopyFails, ToClosure
    <2>1. ~unnoted => ~auto
      BY <1>0, <2>0 DEF FileInv, Writing
    <2>2. ASSUME RolledBack PROVE RollsBack
      BY <1>10, <2>0, <2>2 DEF CompleteSchemaChangeFails, EndCopyFails, RollsBack, Writing
    <2>3. ASSUME RolledBackToSavepoint, UNCHANGED unnoted PROVE BacksUp
      <3>1. savepoint # None
        BY <1>0, <2>0, NoneHasNoGate DEF GateInv
      <3> QED
        BY <2>0, <2>1, <2>3, <3>1, BackUpSettles DEF BacksUp, HeldBack, Writing
    <2> QED
      BY <1>10, <2>2, <2>3 DEF CompleteSchemaChangeFails, EndCopyFails
  <1>11. ASSUME Abandon PROVE RollsBack
    BY <1>11 DEF Abandon, Return, RollsBack, Writing
  <1>12. ASSUME Crash PROVE RollsBack
    BY <1>0, <1>12 DEF Crash, RollsBack, Writing, ShapeInv, Phases
  <1>13. ASSUME InstallCrdtFails PROVE Declines
    BY <1>13 DEF InstallCrdtFails, Declines, NoCall
  <1>14. ASSUME NEW g \in BOOLEAN, BeginRead(g) PROVE Stays
    BY <1>b, <1>14 DEF BeginRead, sqlite, handle, history, Stays, HeldBack, Writing
  <1>15. ASSUME ReadStatement \/ ReadStatementEnds PROVE Stays
    BY <1>b, <1>15 DEF ReadStatement, ReadStatementEnds, sqlite, handle, history, Stays,
       HeldBack, Writing
  <1>16. ASSUME EndRead PROVE Stays
    BY <1>b, <1>16 DEF EndRead, sqlite, handle, history, Stays, HeldBack, Writing, NoCall
  <1>17. ASSUME UNCHANGED vars PROVE Stays
    BY <1>17 DEF vars, sqlite, handle, history, Stays, HeldBack, Writing
  <1> QED
    BY <1>1, <1>2, <1>3, <1>4, <1>5, <1>6, <1>7, <1>8, <1>9, <1>10, <1>11, <1>12, <1>13,
       <1>14, <1>15, <1>16, <1>17 DEF Next, Moves, Writes, Ends, Begins

-----------------------------------------------------------------------------
(* Types                                                                   *)

TypeInv == TypeOK /\ BoundInv

\* There is room for one more HLC wherever the code draws one.
LEMMA RoomForHlc ==
    ASSUME TypeInv
    PROVE  /\ clock \in Nat /\ disk.hlc \in Nat /\ work.hlc \in Nat
           /\ pc # "idle" => clock + 1 <= MaxHlc
           /\ calls < MaxCalls => clock + 1 <= MaxHlc
  <1>1. /\ clock \in Nat /\ steps \in Nat /\ calls \in Nat
        /\ steps <= MaxStatements /\ calls <= MaxCalls
        /\ disk.hlc \in Nat /\ work.hlc \in Nat
    BY DEF TypeInv, TypeOK, Database
  <1>2. clock + (IF pc = "idle" THEN 0 ELSE 1) <= FirstDb.hlc + steps + calls
    BY DEF TypeInv, BoundInv
  <1> QED
    BY <1>1, <1>2, MaxHlcNat, WriteConstants DEF MaxHlc

LEMMA StampUnstampedTyped ==
    ASSUME NEW db \in Database, db.hlc + 1 <= MaxHlc
    PROVE  LET d == StampUnstampedRows(db)
               ts == {t \in Names : IsCrdt(db, t) /\ Unstamped(db, t) # {}}
           IN  d = db \/ Stamps(db, d, ts, db.hlc + 1)
  <1> DEFINE ts == {t \in Names : IsCrdt(db, t) /\ Unstamped(db, t) # {}}
             h == db.hlc + 1
  <1>1. h \in 0..MaxHlc
    BY MaxHlcNat DEF Database
  <1>2. ts \in SUBSET Names /\ \A t \in ts : Exists(db, t)
    BY DEF IsCrdt
  <1>3. StampUnstampedRows(db) = IF ts = {} THEN db ELSE StampRows(db, ts, NoSyncCols, h)
    BY DEF StampUnstampedRows
  <1> HIDE DEF ts, h
  <1>4. Stamps(db, StampRows(db, ts, NoSyncCols, h), ts, h)
    BY <1>1, <1>2, StampStamps
  <1> QED
    BY <1>3, <1>4 DEF ts, h

\* install_crdt: the columns and triggers, then the stamps if the table is new to it.
LEMMA InstallTyped ==
    ASSUME TypeInv, NEW t \in Names, InstallCrdt(t)
    PROVE  LET on == EnsureCrdt(disk, t) IN
           /\ Reshapes(disk, on, t)
           /\ IF ~IsCrdt(disk, t) /\ RowKeys(disk, t) # {}
              THEN Stamps(on, disk', {t}, clock + 1) /\ reported' = {t} /\ clock' = clock + 1
              ELSE disk' = on /\ UNCHANGED clock
           /\ disk' \in Database /\ disk'.hlc <= clock'
  <1> DEFINE on == EnsureCrdt(disk, t)
             fresh == ~IsCrdt(disk, t) /\ RowKeys(disk, t) # {}
             d == StampRows(on, {t}, {}, clock + 1)
  <1>1. disk \in Database /\ Exists(disk, t) /\ disk.hlc <= clock
    BY DEF TypeInv, TypeOK, BoundInv, InstallCrdt
  <1>2. Reshapes(disk, on, t)
    BY <1>1, EnsureCrdtReshapes
  <1>3. clock + 1 \in 0..MaxHlc
    BY RoomForHlc, MaxHlcNat DEF InstallCrdt
  <1>4. disk' = (IF fresh THEN d ELSE on) /\ clock' = IF fresh THEN clock + 1 ELSE clock
    BY DEF InstallCrdt
  <1> HIDE DEF on
  <1>5. Stamps(on, d, {t}, clock + 1)
    BY <1>2, <1>3, StampStamps DEF Reshapes
  <1> HIDE DEF d
  <1>6. d \in Database /\ d.hlc = clock + 1 /\ on \in Database /\ on.hlc = disk.hlc
    BY <1>2, <1>5 DEF Stamps, Reshapes, SameRest
  <1>7. clock \in Nat
    BY RoomForHlc
  <1>8. fresh => reported' = {t}
    BY DEF InstallCrdt
  <1> QED
    BY <1>1, <1>2, <1>4, <1>5, <1>6, <1>7, <1>8 DEF on

LEMMA StepDatabases ==
    ASSUME TypeInv, Control, Moves
    PROVE  /\ disk' \in Database /\ work' \in Database
           /\ savepoint' \in Database \cup {None}
  <1>0. /\ disk \in Database /\ work \in Database /\ savepoint \in Database \cup {None}
        /\ FirstDb.hlc \in Nat /\ clock <= MaxHlc
    BY MaxHlcNat DEF TypeInv, TypeOK
  <1>1. CASE Stays \/ Declines \/ RollsBack \/ BacksUp
    BY <1>0, <1>1 DEF Stays, Declines, RollsBack, RolledBack, BacksUp
  <1>2. CASE SetsHlc
    <2>1. \A h \in 0..MaxHlc : [work EXCEPT !.hlc = h] \in Database
      BY <1>0 DEF Database
    <2> QED
      BY <1>0, <1>2, <2>1 DEF SetsHlc
  <1>3. CASE BeginSchemaChange
    <2>1. pc = "prepared" /\ stmt.table \in Names
      BY <1>3 DEF BeginSchemaChange, Control, ShapeInv, Handling, Statement
    <2>2. IsCrdt(work, stmt.table) => DropTriggers(work, stmt.table) \in Database
      BY <1>0, <2>1, TriggersReshape DEF IsCrdt, Reshapes
    <2> QED
      BY <1>0, <1>3, <2>2 DEF BeginSchemaChange, Settle
  <1>4. ASSUME NEW s \in Statements, BeginCopy(s)
        PROVE  /\ disk' \in Database /\ work' \in Database
               /\ savepoint' \in Database \cup {None}
    <2>1. [work EXCEPT !.gate = FALSE] \in Database
      BY <1>0 DEF Database
    <2> QED
      BY <1>0, <1>4, <2>1 DEF BeginCopy, Settle
  <1>5. CASE Execute
    <2>1. stmt \in Statement /\ stmt.hlc <= MaxHlc /\ Runs(work, stmt)
      <3>1. stmt \in Statement /\ stmt.hlc <= clock /\ Runs(work, stmt)
        BY <1>5 DEF Execute, Control, ShapeInv, TypeInv, BoundInv, Handling
      <3> QED
        BY <1>0, <3>1, RoomForHlc, MaxHlcNat DEF Statement
    <2>2. Effect(work, stmt) \in Database
      BY <1>0, <2>1, EffectTyped
    <2> QED
      BY <1>0, <1>5, <2>2 DEF Execute, Settle
  <1>6. CASE CompleteSchemaChange
    <2>1. NameAfter \in Names
      BY <1>6 DEF CompleteSchemaChange, Control, ShapeInv, Handling, NameAfter, Statement
    <2>2. IsCrdt(work, NameAfter) => SetupTriggers(work, NameAfter) \in Database
      BY <1>0, <2>1, TriggersReshape DEF IsCrdt, Reshapes
    <2> QED
      BY <1>0, <1>6, <2>2 DEF CompleteSchemaChange, Settle
  <1>7. CASE EndCopy
    <2>1. Gated(savepoint)
      BY <1>7 DEF EndCopy, Control, GateInv
    <2>2. [work EXCEPT !.gate = savepoint.gate] \in Database
      BY <1>0, <2>1 DEF Database, Gated
    <2> QED
      BY <1>0, <1>7, <2>2 DEF EndCopy, Settle
  <1>8. CASE Commit \/ CommitFails
    BY <1>0, <1>8 DEF Commit, CommitFails, Settle
  <1>9. CASE Reopen
    <2>1. disk.hlc + 1 <= MaxHlc
      BY <1>9, RoomForHlc, MaxHlcNat DEF Reopen, TypeInv, BoundInv
    <2>2. StampUnstampedRows(disk) \in Database
      BY <1>0, <2>1, StampUnstampedTyped DEF Stamps
    <2> QED
      BY <1>0, <1>9, <2>2 DEF Reopen
  <1>10. ASSUME NEW t \in Names, InstallCrdt(t)
         PROVE  /\ disk' \in Database /\ work' \in Database
                /\ savepoint' \in Database \cup {None}
    BY <1>0, <1>10, InstallTyped DEF InstallCrdt
  <1>11. CASE Begins
    BY <1>0, <1>11 DEF Begins, BeginWrite
  <1> QED
    BY <1>1, <1>2, <1>3, <1>4, <1>5, <1>6, <1>7, <1>8, <1>9, <1>10, <1>11
       DEF Moves, Writes, Ends

-----------------------------------------------------------------------------
(* Types                                                                   *)

LEMMA MinMaxOfTwo ==
    ASSUME NEW a \in Int, NEW b \in Int
    PROVE  /\ Min({a, b}) = IF a <= b THEN a ELSE b
           /\ Max({a, b}) = IF a >= b THEN a ELSE b
  <1>1. \E x \in {a, b} : \A y \in {a, b} : x =< y
    OBVIOUS
  <1>2. \E x \in {a, b} : \A y \in {a, b} : x >= y
    OBVIOUS
  <1> QED
    BY <1>1, <1>2 DEF Min, Max

LEMMA ChargedTyped ==
    ASSUME NEW s \in Statements, bytes \in Nat
    PROVE  Charged(s) \in 0..(MaxBytes + 1)
  <1>1. s.bytes \in Nat /\ MaxBytes \in Nat
    BY WriteConstants DEF Statement
  <1> DEFINE a == bytes + s.bytes
             b == MaxBytes + 1
  <1>2. a \in Nat /\ b \in Nat
    BY <1>1
  <1>3. Charged(s) = Min({a, b})
    BY DEF Charged
  <1> HIDE DEF a, b
  <1>4. Min({a, b}) \in 0..b
    BY <1>2, MinMaxOfTwo
  <1> QED
    BY <1>3, <1>4 DEF b

LEMMA TouchedTyped ==
    ASSUME NEW db, NEW s \in Statement
    PROVE  Touched(db, s) \subseteq Names \cup {DeletedRows}
  <1>1. s.table \in Names /\ Child \in Names
    BY WriteConstants DEF Statement
  <1> QED
    BY <1>1 DEF Touched

\* The tables the observer hears of.
\* The statement's part of the call's state.
LEMMA StepHistory ==
    ASSUME TypeInv, Control, [Next]_vars, disk' \in Database, work' \in Database
    PROVE  /\ base' \in Database /\ before' \in Database
           /\ did' \subseteq Ops \X Names \X Names
           /\ result' \in {"ok", "err", "uncommitted", "crash"}
  <1> DEFINE P == /\ base' \in {base, disk, disk'}
                  /\ before' \in {before, work, work', disk, disk'}
                  /\ \/ did' \in {did, {}}
                     \/ /\ stmt \in Statement
                        /\ did' \in {did \cup {<<stmt.op, stmt.table, stmt.other>>},
                                     did \ {<<stmt.op, stmt.table, stmt.other>>}}
                  /\ result' \in {result, "ok", "err", "uncommitted", "crash"}
  <1>1. P
    <2>0. pc \in {"running", "ran"} => stmt \in Statement
      BY DEF Control, ShapeInv, Handling
    <2>1. CASE \E g, s, l \in BOOLEAN : BeginWrite(g, s, l)
      BY <2>1 DEF BeginWrite
    <2>2. CASE \E s \in Statements :
                 \/ Query(s) \/ Refuse(s) \/ PrepareLocal(s) \/ PrepareStamped(s)
                 \/ PersistFailsHard(s) \/ RefuseCopy(s) \/ BeginCopy(s) \/ BeginCopyFails(s)
      BY <2>2 DEF Query, Refuse, PrepareLocal, PrepareStamped, PersistFailsHard, RefuseCopy,
         BeginCopy, BeginCopyFails, NextStatement, Refused
    <2>3. CASE BeginSchemaChange \/ BeginSchemaChangeFails \/ Execute \/ ExecuteFails
               \/ ExecuteFailsHard \/ Interrupt
      BY <2>0, <2>3 DEF BeginSchemaChange, BeginSchemaChangeFails, Execute, ExecuteFails,
         ExecuteFailsHard, Interrupt, history
    <2>4. CASE CompleteSchemaChange \/ CompleteSchemaChangeFails \/ EndCopy \/ EndCopyFails
      BY <2>0, <2>4 DEF CompleteSchemaChange, CompleteSchemaChangeFails, EndCopy, EndCopyFails
    <2>5. CASE Commit \/ CommitFails \/ Abandon \/ Crash \/ Reopen
      BY <2>5 DEF Commit, CommitFails, Abandon, Crash, Reopen, Return
    <2>6. CASE (\E t \in Names : InstallCrdt(t)) \/ InstallCrdtFails
      BY <2>6 DEF InstallCrdt, InstallCrdtFails
    <2>7. CASE (\E g \in BOOLEAN : BeginRead(g)) \/ ReadStatement \/ ReadStatementEnds \/ EndRead
               \/ UNCHANGED vars
      BY <2>7 DEF BeginRead, ReadStatement, ReadStatementEnds, EndRead, vars, history
    <2> HIDE DEF P
    <2> QED
      BY <2>1, <2>2, <2>3, <2>4, <2>5, <2>6, <2>7 DEF Next
  <1>2. base' \in Database /\ before' \in Database
    BY <1>1 DEF TypeInv, TypeOK
  <1>3. did' \subseteq Ops \X Names \X Names
    <2>1. stmt \in Statement => <<stmt.op, stmt.table, stmt.other>> \in Ops \X Names \X Names
      BY DEF Statement
    <2> QED
      BY <1>1, <2>1 DEF TypeInv, TypeOK
  <1> QED
    BY <1>1, <1>2, <1>3 DEF TypeInv, TypeOK

\* The counters and flags.
LEMMA StepFlags ==
    ASSUME TypeInv, Control, [Next]_vars
    PROVE  /\ auto' \in BOOLEAN /\ aborted' \in BOOLEAN
           /\ failed' \in BOOLEAN /\ unnoted' \in BOOLEAN
           /\ bytes' \in 0..(MaxBytes + 1)
           /\ steps' \in 0..MaxStatements /\ calls' \in 0..MaxCalls
  <1>0. /\ auto \in BOOLEAN /\ aborted \in BOOLEAN /\ failed \in BOOLEAN /\ unnoted \in BOOLEAN
        /\ bytes \in 0..(MaxBytes + 1) /\ steps \in 0..MaxStatements /\ calls \in 0..MaxCalls
    BY DEF TypeInv, TypeOK
  <1>1. auto' \in BOOLEAN /\ aborted' \in BOOLEAN /\ failed' \in BOOLEAN /\ unnoted' \in BOOLEAN
    <2>1. CASE \E g, s, l \in BOOLEAN : BeginWrite(g, s, l)
      BY <1>0, <2>1 DEF BeginWrite
    <2>2. CASE \E s \in Statements :
                 \/ Query(s) \/ Refuse(s) \/ PrepareLocal(s) \/ PrepareStamped(s)
                 \/ PersistFailsHard(s) \/ RefuseCopy(s) \/ BeginCopy(s) \/ BeginCopyFails(s)
      BY <1>0, <2>2 DEF Query, Refuse, PrepareLocal, PrepareStamped, PersistFailsHard, RefuseCopy,
         BeginCopy, BeginCopyFails, NextStatement, Refused, sqlite, RolledBack
    <2>3. CASE BeginSchemaChange \/ BeginSchemaChangeFails \/ Execute \/ ExecuteFails
               \/ ExecuteFailsHard \/ Interrupt
      BY <1>0, <2>3 DEF BeginSchemaChange, BeginSchemaChangeFails, Execute, ExecuteFails,
         ExecuteFailsHard, Interrupt, history, handle, sqlite, RolledBack, RolledBackToSavepoint
    <2>4. CASE CompleteSchemaChange \/ CompleteSchemaChangeFails \/ EndCopy \/ EndCopyFails
      BY <1>0, <2>4 DEF CompleteSchemaChange, CompleteSchemaChangeFails, EndCopy, EndCopyFails,
         handle, RolledBack, RolledBackToSavepoint
    <2>5. CASE Commit \/ CommitFails \/ Abandon \/ Crash \/ Reopen
      BY <1>0, <2>5 DEF Commit, CommitFails, Abandon, Crash, Reopen, Return, RolledBack
    <2>6. CASE (\E t \in Names : InstallCrdt(t)) \/ InstallCrdtFails
      BY <1>0, <2>6 DEF InstallCrdt, InstallCrdtFails
    <2>7. CASE (\E g \in BOOLEAN : BeginRead(g)) \/ ReadStatement \/ ReadStatementEnds \/ EndRead
               \/ UNCHANGED vars
      BY <1>0, <2>7 DEF BeginRead, ReadStatement, ReadStatementEnds, EndRead, vars, history,
         handle, sqlite
    <2> QED
      BY <2>1, <2>2, <2>3, <2>4, <2>5, <2>6, <2>7 DEF Next
  <1>2. /\ bytes' = 0 \/ bytes' = bytes \/ \E s \in Statements : bytes' = Charged(s)
        /\ steps' = steps \/ (steps < MaxStatements /\ steps' = steps + 1)
        /\ calls' = calls \/ (calls < MaxCalls /\ calls' = calls + 1)
    <2>1. CASE \E g, s, l \in BOOLEAN : BeginWrite(g, s, l)
      BY <2>1 DEF BeginWrite
    <2>2. CASE \E s \in Statements :
                 \/ Query(s) \/ Refuse(s) \/ PrepareLocal(s) \/ PrepareStamped(s)
                 \/ PersistFailsHard(s) \/ RefuseCopy(s) \/ BeginCopy(s) \/ BeginCopyFails(s)
      BY <2>2 DEF Query, Refuse, PrepareLocal, PrepareStamped, PersistFailsHard, RefuseCopy,
         BeginCopy, BeginCopyFails, NextStatement, Refused
    <2>3. CASE BeginSchemaChange \/ BeginSchemaChangeFails \/ Execute \/ ExecuteFails
               \/ ExecuteFailsHard \/ Interrupt
      BY <2>3 DEF BeginSchemaChange, BeginSchemaChangeFails, Execute, ExecuteFails,
         ExecuteFailsHard, Interrupt, handle
    <2>4. CASE CompleteSchemaChange \/ CompleteSchemaChangeFails \/ EndCopy \/ EndCopyFails
      BY <2>4 DEF CompleteSchemaChange, CompleteSchemaChangeFails, EndCopy, EndCopyFails, handle
    <2>5. CASE Commit \/ CommitFails \/ Abandon \/ Crash \/ Reopen
      BY <2>5 DEF Commit, CommitFails, Abandon, Crash, Reopen, Return
    <2>6. CASE (\E t \in Names : InstallCrdt(t)) \/ InstallCrdtFails
      BY <2>6 DEF InstallCrdt, InstallCrdtFails
    <2>7. CASE (\E g \in BOOLEAN : BeginRead(g)) \/ ReadStatement \/ ReadStatementEnds \/ EndRead
               \/ UNCHANGED vars
      BY <2>7 DEF BeginRead, ReadStatement, ReadStatementEnds, EndRead, vars, handle
    <2> QED
      BY <2>1, <2>2, <2>3, <2>4, <2>5, <2>6, <2>7 DEF Next
  <1>3. bytes' \in 0..(MaxBytes + 1)
    <2>1. MaxBytes \in Nat /\ bytes \in Nat
      BY <1>0, WriteConstants
    <2>2. \A s \in Statements : Charged(s) \in 0..(MaxBytes + 1)
      BY <2>1, ChargedTyped
    <2> QED
      BY <1>0, <1>2, <2>1, <2>2
  <1>4. steps' \in 0..MaxStatements /\ calls' \in 0..MaxCalls
    BY <1>0, <1>2, WriteConstants
  <1> QED
    BY <1>1, <1>3, <1>4

\* What the observer is told of.
LEMMA StepTables ==
    ASSUME TypeInv, Control, [Next]_vars
    PROVE  /\ changed' \subseteq Names \cup {DeletedRows}
           /\ reported' \subseteq Names \cup {DeletedRows}
  <1> DEFINE T == Names \cup {DeletedRows}
             P == changed' \subseteq T /\ reported' \subseteq T
  <1>0. changed \subseteq T /\ reported \subseteq T /\ TypeOK
    BY DEF TypeInv, TypeOK
  <1>a. \A db, held : Settle(db, {}, held) => P
    BY <1>0 DEF Settle
  <1>b. pc = "running" => Touched(work, stmt) \subseteq T
    BY TouchedTyped DEF Control, ShapeInv, Handling
  <1>c. \A db, held : pc = "running" /\ Settle(db, Touched(work, stmt), held) => P
    BY <1>0, <1>b DEF Settle
  <1>d. RolledBack \/ RolledBackToSavepoint \/ UNCHANGED sqlite => P
    BY <1>0, <1>a DEF RolledBack, RolledBackToSavepoint, sqlite
  <1> SUFFICES P
    OBVIOUS
  <1> HIDE DEF P
  <1>1. CASE \E g, s, l \in BOOLEAN : BeginWrite(g, s, l)
    BY <1>0, <1>1 DEF BeginWrite, P
  <1>2. CASE \E s \in Statements :
               \/ Query(s) \/ Refuse(s) \/ PrepareLocal(s) \/ PrepareStamped(s)
               \/ PersistFailsHard(s) \/ RefuseCopy(s) \/ BeginCopy(s) \/ BeginCopyFails(s)
    BY <1>2, <1>a, <1>d DEF Query, Refuse, PrepareLocal, PrepareStamped, PersistFailsHard,
       RefuseCopy, BeginCopy, BeginCopyFails, Refused
  <1>3. CASE BeginSchemaChange \/ BeginSchemaChangeFails \/ ExecuteFailsHard \/ Interrupt
    BY <1>3, <1>a, <1>d DEF BeginSchemaChange, BeginSchemaChangeFails, ExecuteFailsHard, Interrupt
  <1>4. CASE Execute
    BY <1>4, <1>c DEF Execute
  <1>5. CASE ExecuteFails
    <2>1. \A ts \in {{}, IF Runs(work, stmt) THEN Touched(work, stmt) ELSE {}} :
            (IF Held THEN ts ELSE {}) \in {{}, Touched(work, stmt)}
      OBVIOUS
    <2>2. CASE InSavepoint
      BY <1>5, <1>d, <2>2 DEF ExecuteFails
    <2>3. CASE ~InSavepoint
      BY <1>5, <1>a, <1>c, <2>1, <2>3 DEF ExecuteFails
    <2> QED
      BY <2>2, <2>3
  <1>6. CASE CompleteSchemaChange \/ CompleteSchemaChangeFails \/ EndCopy \/ EndCopyFails
    BY <1>6, <1>a, <1>d DEF CompleteSchemaChange, CompleteSchemaChangeFails, EndCopy, EndCopyFails
  <1>7. CASE Commit \/ Abandon \/ Crash
    BY <1>7, <1>a, <1>d DEF Commit, Abandon, Crash
  <1>8. CASE CommitFails \/ Reopen
    BY <1>0, <1>8 DEF CommitFails, Reopen, P
  <1>9. CASE (\E t \in Names : InstallCrdt(t)) \/ InstallCrdtFails
    BY <1>0, <1>9 DEF InstallCrdt, InstallCrdtFails, P
  <1>10. CASE (\E g \in BOOLEAN : BeginRead(g)) \/ ReadStatement \/ ReadStatementEnds \/ EndRead
              \/ UNCHANGED vars
    BY <1>10, <1>d DEF BeginRead, ReadStatement, ReadStatementEnds, EndRead, vars, sqlite
  <1> QED
    BY <1>1, <1>2, <1>3, <1>4, <1>5, <1>6, <1>7, <1>8, <1>9, <1>10 DEF Next

\* The clock keeps to its bound; only a crash sets it back, to what the file has.
LEMMA StepClock ==
    ASSUME TypeInv, Control, [Next]_vars
    PROVE  /\ clock' \in Nat
           /\ clock' + (IF pc' = "idle" THEN 0 ELSE 1) <= FirstDb.hlc + steps' + calls'
           /\ Crash \/ Reopen \/ clock <= clock'
  <1> DEFINE Slack(p) == IF p = "idle" THEN 0 ELSE 1
             Q == /\ clock' \in Nat
                  /\ clock' + Slack(pc') <= FirstDb.hlc + steps' + calls'
                  /\ Crash \/ Reopen \/ clock <= clock'
  <1>0. /\ clock \in Nat /\ txHlc \in Nat /\ disk.hlc \in Nat /\ steps \in Nat /\ calls \in Nat
        /\ clock + Slack(pc) <= FirstDb.hlc + steps + calls
        /\ disk.hlc <= clock /\ txHlc <= clock /\ FirstDb.hlc \in Nat
    BY MaxHlcNat DEF TypeInv, TypeOK, BoundInv, Database
  <1> SUFFICES Q
    OBVIOUS
  <1>a. ASSUME UNCHANGED <<clock, steps, calls>>, pc # "idle" \/ pc' = "idle" PROVE Q
    BY <1>0, <1>a
  <1>b. ASSUME UNCHANGED clock,
               \/ steps' = steps + 1 /\ calls' = calls
               \/ steps' = steps /\ calls' = calls + 1
        PROVE  Q
    <2>1. clock' + 1 <= FirstDb.hlc + steps' + calls'
      BY <1>0, <1>b
    <2> QED
      BY <1>0, <1>b, <2>1
  <1> HIDE DEF Q
  <1>1. CASE \E g, s, l \in BOOLEAN : BeginWrite(g, s, l)
    <2>1. UNCHANGED <<clock, steps>> /\ calls' = calls + 1
      BY <1>1 DEF BeginWrite
    <2> QED
      BY <1>0, <1>b, <2>1
  <1>2. ASSUME NEW s \in Statements,
               \/ Query(s) \/ Refuse(s) \/ PrepareLocal(s) \/ RefuseCopy(s) \/ BeginCopy(s)
               \/ BeginCopyFails(s)
        PROVE  Q
    <2>1. UNCHANGED <<clock, calls>> /\ steps' = steps + 1
      BY <1>2 DEF Query, Refuse, PrepareLocal, RefuseCopy, BeginCopy, BeginCopyFails,
         NextStatement, Refused
    <2> QED
      BY <1>0, <1>b, <2>1
  <1>3. ASSUME NEW s \in Statements, PrepareStamped(s) \/ PersistFailsHard(s) PROVE Q
    <2> DEFINE h == IF txHlc = 0 THEN clock + 1 ELSE txHlc
    <2>1. UNCHANGED calls /\ steps' = steps + 1 /\ pc = "closure"
      BY <1>3 DEF PrepareStamped, PersistFailsHard, NextStatement
    <2>2. h \in Nat
      BY <1>0
    <2>3. clock' = Max({h, clock}) \/ clock' = clock + (IF txHlc = 0 THEN 1 ELSE 0)
      BY <1>3 DEF PrepareStamped, PersistFailsHard
    <2>4. clock' \in {clock, clock + 1}
      <3>1. h \in {txHlc, clock + 1}
        OBVIOUS
      <3> HIDE DEF h
      <3>a. h \in Int /\ clock \in Int
        BY <1>0, <2>2
      <3>b. Max({h, clock}) = IF h >= clock THEN h ELSE clock
        BY <3>a, MinMaxOfTwo
      <3>2. Max({h, clock}) \in {clock, clock + 1}
        BY <1>0, <2>2, <3>1, <3>b
      <3> QED
        BY <1>0, <2>3, <3>2
    <2> HIDE DEF h
    <2>5. clock + 1 <= FirstDb.hlc + steps + calls
      BY <1>0, <2>1
    <2>6. clock' + 1 <= FirstDb.hlc + steps' + calls'
      BY <1>0, <2>1, <2>4, <2>5
    <2> QED
      BY <1>0, <2>1, <2>4, <2>6 DEF Q
  <1>4. CASE BeginSchemaChange \/ BeginSchemaChangeFails \/ Execute \/ ExecuteFails
             \/ ExecuteFailsHard \/ Interrupt
    BY <1>4, <1>a DEF BeginSchemaChange, BeginSchemaChangeFails, Execute, ExecuteFails,
       ExecuteFailsHard, Interrupt, handle
  <1>5. CASE CompleteSchemaChange \/ CompleteSchemaChangeFails \/ EndCopy \/ EndCopyFails
    BY <1>5, <1>a DEF CompleteSchemaChange, CompleteSchemaChangeFails, EndCopy, EndCopyFails, handle
  <1>6. CASE Commit \/ CommitFails \/ Abandon
    BY <1>6, <1>a DEF Commit, CommitFails, Abandon, Return
  <1>7. CASE Crash
    <2>1. pc # "idle" /\ UNCHANGED <<steps, calls>> /\ clock' = disk.hlc /\ pc' = "closed"
      BY <1>7 DEF Crash
    <2> QED
      BY <1>0, <1>7, <2>1 DEF Q
  <1>8. CASE Reopen
    <2>1. disk.hlc + 1 <= MaxHlc
      BY <1>8, RoomForHlc, MaxHlcNat DEF Reopen, TypeInv, BoundInv
    <2>2. disk'.hlc \in {disk.hlc, disk.hlc + 1}
      BY <1>8, <2>1, StampUnstampedTyped DEF Stamps, Reopen, TypeInv, TypeOK
    <2>3. pc = "closed" /\ UNCHANGED <<steps, calls>> /\ clock' = disk'.hlc /\ pc' = "idle"
      BY <1>8 DEF Reopen
    <2> QED
      BY <1>0, <1>8, <2>2, <2>3 DEF Q
  <1>9. CASE (\E t \in Names : InstallCrdt(t)) \/ InstallCrdtFails
    <2>1. /\ clock' \in {clock, clock + 1} /\ calls' = calls + 1 /\ UNCHANGED <<pc, steps>>
          /\ pc = "idle"
      BY <1>9 DEF InstallCrdt, InstallCrdtFails
    <2> QED
      BY <1>0, <2>1 DEF Q
  <1>10. CASE \E g \in BOOLEAN : BeginRead(g)
    <2>1. UNCHANGED <<clock, steps>> /\ calls' = calls + 1
      BY <1>10 DEF BeginRead, handle
    <2> QED
      BY <1>0, <1>b, <2>1
  <1>11. CASE ReadStatement \/ ReadStatementEnds \/ EndRead \/ UNCHANGED vars
    BY <1>11, <1>a DEF ReadStatement, ReadStatementEnds, EndRead, vars, handle
  <1> QED
    BY <1>1, <1>2, <1>3, <1>4, <1>5, <1>6, <1>7, <1>8, <1>9, <1>10, <1>11 DEF Next

\* After the step the HLCs of the file, the transaction, the savepoint and the slot are
\* behind n.
Behind(n) ==
    /\ disk'.hlc <= n /\ work'.hlc <= n /\ txHlc' \in Nat /\ txHlc' <= n
    /\ savepoint' # None => savepoint'.hlc <= n

LEMMA StepHlcs ==
    ASSUME TypeInv, Control, [Next]_vars
    PROVE  \E n \in Nat : n <= clock' /\ Behind(n)
  <1>0. /\ clock \in Nat /\ txHlc \in Nat /\ disk.hlc \in Nat /\ work.hlc \in Nat
        /\ disk.hlc <= clock /\ txHlc <= clock /\ work.hlc <= clock
        /\ savepoint # None => savepoint \in Database /\ savepoint.hlc <= clock
        /\ disk \in Database /\ work \in Database /\ clock <= MaxHlc
    BY MaxHlcNat DEF TypeInv, TypeOK, BoundInv, Database
  <1>1. clock' \in Nat /\ (Crash \/ Reopen \/ clock <= clock')
    BY StepClock
  <1>2. TxInv /\ GateInv /\ ShapeInv
    BY DEF Control
  <1> DEFINE B == \E n \in Nat : n <= clock' /\ Behind(n)
  <1> SUFFICES B
    OBVIOUS
  <1>a. ASSUME Behind(clock), ~Crash, ~Reopen PROVE B
    BY <1>0, <1>1, <1>a DEF Behind
  <1>b. UNCHANGED sqlite => Behind(clock)
    BY <1>0 DEF sqlite, Behind
  <1>c. RolledBack => Behind(clock)
    BY <1>0 DEF RolledBack, Behind
  <1>d. \A db, ts, held : Settle(db, ts, held) /\ db.hlc <= clock
                            => disk'.hlc <= clock /\ work'.hlc <= clock
    BY <1>0 DEF Settle
  <1>e. RolledBackToSavepoint /\ savepoint # None => Behind(clock)
    BY <1>0, <1>d DEF RolledBackToSavepoint, Behind
  <1>f. pc \in {"running", "ran"} /\ InSavepoint => savepoint # None
    BY <1>2, NoneHasNoGate DEF GateInv, ShapeInv
  <1>g. ~Crash \/ pc' = "closed"
    BY DEF Crash
  <1>h. ~Reopen \/ pc = "closed"
    BY DEF Reopen
  <1> HIDE DEF B
  <1>3. CASE \E g, s, l \in BOOLEAN : BeginWrite(g, s, l)
    BY <1>0, <1>3, <1>a, <1>g, <1>h DEF BeginWrite, Behind
  <1>4. ASSUME NEW s \in Statements,
               \/ Query(s) \/ Refuse(s) \/ PrepareLocal(s) \/ RefuseCopy(s) \/ BeginCopyFails(s)
               \/ PersistFailsHard(s)
        PROVE  B
    <2>1. pc = "closure" /\ pc' # "closed"
      BY <1>4 DEF Query, Refuse, PrepareLocal, RefuseCopy, BeginCopyFails, PersistFailsHard,
         NextStatement, Start, Refused
    <2>2. UNCHANGED sqlite \/ RolledBack
      BY <1>4 DEF Query, Refuse, PrepareLocal, RefuseCopy, BeginCopyFails, PersistFailsHard, Refused
    <2> QED
      BY <2>1, <2>2, <1>a, <1>b, <1>c, <1>g, <1>h
  <1>5. ASSUME NEW s \in Statements, BeginCopy(s) PROVE B
    <2>1. pc = "closure" /\ pc' # "closed" /\ savepoint' = work /\ UNCHANGED <<txHlc>>
          /\ Settle([work EXCEPT !.gate = FALSE], {}, TRUE)
      BY <1>5 DEF BeginCopy, NextStatement, Start
    <2>2. [work EXCEPT !.gate = FALSE].hlc <= clock
      BY <1>0 DEF Database
    <2>3. Behind(clock)
      BY <1>0, <1>d, <2>1, <2>2 DEF Behind
    <2> QED
      BY <2>1, <2>3, <1>a, <1>g, <1>h
  <1>6. ASSUME NEW s \in Statements, PrepareStamped(s) PROVE B
    <2> DEFINE h == IF txHlc = 0 THEN clock + 1 ELSE txHlc
    <2>1. h \in Nat /\ h \in Int /\ clock \in Int
      BY <1>0
    <2>2. /\ clock' = Max({h, clock}) /\ UNCHANGED savepoint
          /\ work' = [work EXCEPT !.hlc = h] /\ disk' \in {disk, work'}
          /\ txHlc' \in {0, h}
      BY <1>6 DEF PrepareStamped, Settle
    <2> HIDE DEF h
    <2>3. h <= clock' /\ clock <= clock'
      BY <2>1, <2>2, MinMaxOfTwo
    <2>4. work'.hlc = h
      BY <1>0, <2>2 DEF Database
    <2>5. savepoint = None
      BY <1>2, <1>6 DEF TxInv, PrepareStamped, NextStatement
    <2>6. Behind(clock')
      <3>1. disk'.hlc <= clock'
        <4>1. CASE disk' = disk
          BY <1>0, <1>1, <2>3, <4>1
        <4>2. CASE disk' = work'
          BY <2>3, <2>4, <4>2
        <4> QED
          BY <2>2, <4>1, <4>2
      <3>2. txHlc' \in Nat /\ txHlc' <= clock'
        BY <1>1, <2>1, <2>2, <2>3
      <3>3. work'.hlc <= clock'
        BY <2>3, <2>4
      <3> QED
        BY <2>2, <2>5, <3>1, <3>2, <3>3 DEF Behind
    <2> QED
      BY <1>1, <2>6 DEF B, Behind
  <1>7. CASE BeginSchemaChange
    <2>1. /\ pc = "prepared" /\ pc' # "closed" /\ savepoint' = work /\ UNCHANGED txHlc
          /\ work' = work \/ (IsCrdt(work, stmt.table) /\ work' = DropTriggers(work, stmt.table))
          /\ UNCHANGED disk
      BY <1>7 DEF BeginSchemaChange, Start, Settle
    <2>2. stmt.table \in Names
      BY <1>2, <2>1 DEF ShapeInv, Handling, Statement
    <2>3. IsCrdt(work, stmt.table) => DropTriggers(work, stmt.table).hlc = work.hlc
      BY <1>0, <2>2, TriggersReshape DEF Reshapes, SameRest, IsCrdt
    <2>4. Behind(clock)
      BY <1>0, <2>1, <2>3 DEF Behind
    <2> QED
      BY <2>1, <2>4, <1>a, <1>g, <1>h
  <1>8. CASE BeginSchemaChangeFails \/ ExecuteFailsHard \/ Interrupt
    <2>1. pc \in {"prepared", "running"} /\ pc' = "closure"
      BY <1>8 DEF BeginSchemaChangeFails, ExecuteFailsHard, Interrupt, ToClosure
    <2>2. \/ UNCHANGED sqlite \/ RolledBack
          \/ pc = "running" /\ InSavepoint /\ RolledBackToSavepoint
      BY <1>8 DEF BeginSchemaChangeFails, ExecuteFailsHard, Interrupt
    <2> QED
      BY <2>1, <2>2, <1>a, <1>b, <1>c, <1>e, <1>f, <1>g, <1>h
  <1>9. CASE Execute
    <2>1. pc = "running" /\ pc' # "closed" /\ Runs(work, stmt) /\ UNCHANGED savepoint
          /\ txHlc' \in {txHlc, 0} /\ Settle(Effect(work, stmt), Touched(work, stmt), Held)
      BY <1>9 DEF Execute, ToClosure
    <2>2. stmt \in Statement /\ stmt.hlc <= clock
      BY <1>2, <2>1 DEF ShapeInv, TypeInv, BoundInv, Handling
    <2>3. stmt.hlc <= MaxHlc
      BY <1>0, <2>2, MaxHlcNat DEF Statement
    <2>4. Effect(work, stmt).hlc <= clock
      BY <1>0, <2>1, <2>2, <2>3, EffectTyped
    <2>5. Behind(clock)
      BY <1>0, <1>d, <2>1, <2>4 DEF Behind
    <2> QED
      BY <2>1, <2>5, <1>a, <1>g, <1>h
  <1>10. CASE ExecuteFails
    <2>1. pc = "running" /\ pc' # "closed"
      BY <1>10 DEF ExecuteFails, ToClosure
    <2>2. CASE InSavepoint
      BY <1>10, <2>1, <2>2, <1>a, <1>e, <1>f, <1>g, <1>h DEF ExecuteFails
    <2>3. CASE ~InSavepoint
      <3>1. UNCHANGED <<savepoint, txHlc>> /\ \E ts : Settle(work, ts, Held)
        BY <1>10, <2>3 DEF ExecuteFails
      <3>2. Behind(clock)
        BY <1>0, <1>d, <3>1 DEF Behind
      <3> QED
        BY <2>1, <3>2, <1>a, <1>g, <1>h
    <2> QED
      BY <2>2, <2>3
  <1>11. CASE CompleteSchemaChange
    <2> DEFINE d == IF IsCrdt(work, NameAfter) THEN SetupTriggers(work, NameAfter) ELSE work
    <2>1. pc = "ran" /\ pc' # "closed" /\ Settle(d, {}, ~auto) /\ savepoint' = None
          /\ UNCHANGED txHlc
      BY <1>11 DEF CompleteSchemaChange, ToClosure
    <2>2. NameAfter \in Names
      BY <1>2, <2>1 DEF ShapeInv, Handling, NameAfter, Statement
    <2>3. d.hlc = work.hlc
      BY <1>0, <2>2, TriggersReshape DEF Reshapes, SameRest, IsCrdt
    <2> HIDE DEF d
    <2>4. Behind(clock)
      BY <1>0, <1>d, <2>1, <2>3 DEF Behind
    <2> QED
      BY <2>1, <2>4, <1>a, <1>g, <1>h
  <1>12. CASE CompleteSchemaChangeFails \/ EndCopyFails
    <2>1. pc = "ran" /\ pc' # "closed" /\ (RolledBack \/ RolledBackToSavepoint)
      BY <1>12 DEF CompleteSchemaChangeFails, EndCopyFails, ToClosure
    <2>2. InSavepoint
      BY <1>2, <2>1 DEF ShapeInv
    <2> QED
      BY <2>1, <2>2, <1>a, <1>c, <1>e, <1>f, <1>g, <1>h
  <1>13. CASE EndCopy
    <2> DEFINE d == [work EXCEPT !.gate = savepoint.gate]
    <2>1. pc = "ran" /\ pc' # "closed" /\ Settle(d, {}, ~auto) /\ savepoint' = None
          /\ UNCHANGED txHlc
      BY <1>13 DEF EndCopy, ToClosure
    <2>2. d.hlc = work.hlc
      BY <1>0 DEF Database
    <2> HIDE DEF d
    <2>3. Behind(clock)
      BY <1>0, <1>d, <2>1, <2>2 DEF Behind
    <2> QED
      BY <2>1, <2>3, <1>a, <1>g, <1>h
  <1>14. CASE Commit \/ CommitFails
    <2>1. pc = "closure" /\ pc' # "closed" /\ UNCHANGED savepoint /\ txHlc' = 0
          /\ disk' \in {disk, work} /\ work' \in {disk, work}
      BY <1>14 DEF Commit, CommitFails, Return, Settle
    <2>2. Behind(clock)
      BY <1>0, <2>1 DEF Behind
    <2> QED
      BY <2>1, <2>2, <1>a, <1>g, <1>h
  <1>15. CASE Abandon
    <2>1. pc # "closed" /\ pc' # "closed" /\ RolledBack
      BY <1>15 DEF Abandon, Return
    <2> QED
      BY <2>1, <1>a, <1>c, <1>g, <1>h
  <1>16. CASE Crash
    <2>1. RolledBack /\ clock' = disk.hlc
      BY <1>16 DEF Crash
    <2>2. Behind(clock')
      BY <1>0, <2>1 DEF Behind, RolledBack
    <2> QED
      BY <1>1, <2>2 DEF B, Behind
  <1>17. CASE Reopen
    <2>1. work' = disk' /\ clock' = disk'.hlc /\ UNCHANGED <<savepoint, txHlc>> /\ pc = "closed"
      BY <1>17 DEF Reopen
    <2>2. savepoint = None /\ txHlc = 0
      BY <1>2, <2>1 DEF TxInv, Writing
    <2>3. Behind(clock')
      BY <1>1, <2>1, <2>2 DEF Behind
    <2> QED
      BY <1>1, <2>3 DEF B, Behind
  <1>18. ASSUME NEW t \in Names, InstallCrdt(t) PROVE B
    <2>1. disk'.hlc <= clock'
      BY <1>18, InstallTyped
    <2>2. work' = disk' /\ UNCHANGED <<savepoint, txHlc>> /\ pc = "idle"
      BY <1>18 DEF InstallCrdt
    <2>3. savepoint = None /\ txHlc = 0
      BY <1>2, <2>2 DEF TxInv, Writing
    <2>4. Behind(clock')
      BY <1>1, <2>1, <2>2, <2>3 DEF Behind
    <2> QED
      BY <1>1, <2>4 DEF B, Behind
  <1>19. CASE InstallCrdtFails
    <2>1. pc = "idle" /\ pc' = "idle" /\ UNCHANGED <<disk, work, savepoint, txHlc>>
      BY <1>19 DEF InstallCrdtFails
    <2>2. Behind(clock)
      BY <1>0, <2>1 DEF Behind
    <2> QED
      BY <2>1, <2>2, <1>a, <1>g, <1>h
  <1>20. CASE (\E g \in BOOLEAN : BeginRead(g)) \/ ReadStatement \/ ReadStatementEnds \/ EndRead
    <2>1. UNCHANGED sqlite /\ pc # "closed" /\ pc' # "closed"
      BY <1>20 DEF BeginRead, ReadStatement, ReadStatementEnds, EndRead
    <2> QED
      BY <2>1, <1>a, <1>b, <1>g, <1>h
  <1>21. CASE UNCHANGED vars
    <2>1. UNCHANGED <<sqlite, clock>>
      BY <1>21 DEF vars, handle
    <2>2. Behind(clock)
      BY <2>1, <1>b
    <2> QED
      BY <1>0, <2>1, <2>2 DEF B, Behind
  <1> QED
    BY <1>3, <1>4, <1>5, <1>6, <1>7, <1>8, <1>9, <1>10, <1>11, <1>12, <1>13, <1>14, <1>15,
       <1>16, <1>17, <1>18, <1>19, <1>20, <1>21 DEF Next

LEMMA StepStatement ==
    ASSUME TypeInv, Control, [Next]_vars
    PROVE  pc' \in Handling => stmt'.hlc <= clock'
  <1>0. clock \in Nat /\ txHlc \in Nat /\ (pc \in Handling => stmt.hlc <= clock)
    BY DEF TypeInv, TypeOK, BoundInv
  <1>1. CASE \E g, s, l \in BOOLEAN : BeginWrite(g, s, l)
    BY <1>1 DEF BeginWrite, Handling
  <1>2. ASSUME NEW s \in Statements, Query(s) \/ PrepareLocal(s) \/ BeginCopy(s)
        PROVE  pc' \in Handling => stmt'.hlc <= clock'
    <2>1. stmt'.hlc = 0 /\ UNCHANGED clock
      BY <1>2, WriteConstants DEF Query, PrepareLocal, BeginCopy, Start
    <2> QED
      BY <1>0, <2>1
  <1>3. ASSUME NEW s \in Statements, PrepareStamped(s)
        PROVE  pc' \in Handling => stmt'.hlc <= clock'
    <2> DEFINE h == IF txHlc = 0 THEN clock + 1 ELSE txHlc
               n == IF Synced(s.table) THEN h ELSE 0
    <2>1. h \in Nat /\ h \in Int /\ clock \in Int /\ n \in Nat
      BY <1>0
    <2>2. clock' = Max({h, clock}) /\ stmt' = [s EXCEPT !.hlc = n]
      BY <1>3 DEF PrepareStamped, Start
    <2>3. n \in {0, h}
      OBVIOUS
    <2> HIDE DEF h, n
    <2>4. h <= clock' /\ clock <= clock' /\ clock' \in Int
      BY <2>1, <2>2, MinMaxOfTwo
    <2>5. stmt'.hlc = n
      BY <2>1, <2>2, StampedIsStatement
    <2> QED
      BY <1>0, <2>1, <2>3, <2>4, <2>5
  <1>4. ASSUME NEW s \in Statements,
               Refuse(s) \/ RefuseCopy(s) \/ BeginCopyFails(s) \/ PersistFailsHard(s)
        PROVE  pc' \in Handling => stmt'.hlc <= clock'
    BY <1>4 DEF Refuse, RefuseCopy, BeginCopyFails, PersistFailsHard, NextStatement, Refused, Handling
  <1>5. CASE BeginSchemaChange \/ Execute
    BY <1>0, <1>5 DEF BeginSchemaChange, Execute, Start, ToClosure, handle, Handling
  <1>6. CASE BeginSchemaChangeFails \/ ExecuteFails \/ ExecuteFailsHard \/ Interrupt
             \/ CompleteSchemaChange \/ CompleteSchemaChangeFails \/ EndCopy \/ EndCopyFails
    BY <1>6 DEF BeginSchemaChangeFails, ExecuteFails, ExecuteFailsHard, Interrupt,
       CompleteSchemaChange, CompleteSchemaChangeFails, EndCopy, EndCopyFails, ToClosure, Handling
  <1>7. CASE Commit \/ CommitFails \/ Abandon \/ Crash \/ Reopen
    BY <1>7 DEF Commit, CommitFails, Abandon, Return, Crash, Reopen, Handling
  <1>8. CASE (\E t \in Names : InstallCrdt(t)) \/ InstallCrdtFails
    BY <1>8 DEF InstallCrdt, InstallCrdtFails, Handling
  <1>9. CASE (\E g \in BOOLEAN : BeginRead(g)) \/ ReadStatement \/ ReadStatementEnds \/ EndRead
    BY <1>9 DEF BeginRead, ReadStatement, ReadStatementEnds, EndRead, Handling
  <1>10. CASE UNCHANGED vars
    BY <1>0, <1>10 DEF vars, handle
  <1> QED
    BY <1>1, <1>2, <1>3, <1>4, <1>5, <1>6, <1>7, <1>8, <1>9, <1>10 DEF Next

LEMMA StepTypes == TypeInv /\ Control /\ [Next]_vars => TypeInv'
  <1> SUFFICES ASSUME TypeInv, Control, [Next]_vars PROVE TypeInv'
    OBVIOUS
  <1>1. ConnInv' /\ ShapeInv'
    BY StepConn, StepShape DEF Control, TypeInv
  <1>2. Moves
    BY StepMoves DEF TypeInv
  <1>3. disk' \in Database /\ work' \in Database /\ savepoint' \in Database \cup {None}
    BY <1>2, StepDatabases
  <1>4. /\ base' \in Database /\ before' \in Database
        /\ did' \subseteq Ops \X Names \X Names
        /\ result' \in {"ok", "err", "uncommitted", "crash"}
    BY <1>3, StepHistory
  <1>5. /\ auto' \in BOOLEAN /\ aborted' \in BOOLEAN
        /\ failed' \in BOOLEAN /\ unnoted' \in BOOLEAN
        /\ bytes' \in 0..(MaxBytes + 1)
        /\ steps' \in 0..MaxStatements /\ calls' \in 0..MaxCalls
    BY StepFlags
  <1>6. changed' \subseteq Names \cup {DeletedRows} /\ reported' \subseteq Names \cup {DeletedRows}
    BY StepTables
  <1>7. /\ conn' \in [auth : {"none", "readonly", "guard", "both"},
                      queryOnly : BOOLEAN, fk : BOOLEAN]
        /\ call' \in [guard : BOOLEAN, schema : BOOLEAN, local : BOOLEAN, wasFk : BOOLEAN]
        /\ pc' \in {"idle", "closure", "prepared", "running", "ran", "read", "reading", "closed"}
        /\ stmt' \in Statement \cup {None}
    BY <1>1 DEF ConnInv, ShapeInv, Phases, Writing, Handling
  <1>8. /\ clock' \in Nat
        /\ clock' + (IF pc' = "idle" THEN 0 ELSE 1) <= FirstDb.hlc + steps' + calls'
    BY StepClock
  <1>9. PICK n \in Nat : n <= clock' /\ Behind(n)
    BY StepHlcs
  <1>10. txHlc' \in Nat /\ txHlc' <= clock'
    BY <1>8, <1>9 DEF Behind
  <1>11. clock' <= MaxHlc /\ MaxHlc \in Nat
    BY <1>5, <1>8, MaxHlcNat, WriteConstants DEF MaxHlc
  <1>12. txHlc' \in 0..MaxHlc /\ clock' \in 0..MaxHlc
    BY <1>8, <1>10, <1>11
  <1>13. TypeOK'
    BY <1>3, <1>4, <1>5, <1>6, <1>7, <1>12 DEF TypeOK
  <1>14. /\ disk'.hlc <= clock' /\ work'.hlc <= clock'
         /\ savepoint' # None => savepoint'.hlc <= clock'
    <2>1. disk'.hlc \in Nat /\ work'.hlc \in Nat /\ (savepoint' # None => savepoint'.hlc \in Nat)
      BY <1>3, MaxHlcNat DEF Database
    <2> QED
      BY <1>8, <1>9, <2>1 DEF Behind
  <1>15. BoundInv'
    BY <1>8, <1>10, <1>14, StepStatement DEF BoundInv
  <1> QED
    BY <1>13, <1>15 DEF TypeInv

LEMMA InitTypes == Init => TypeInv
  <1> SUFFICES ASSUME Init PROVE TypeInv
    OBVIOUS
  <1>1. FirstDb \in Database /\ FirstDb.hlc \in 0..MaxHlc /\ MaxHlc \in Nat
    BY WriteConstants, MaxHlcNat DEF Database
  <1>2. TypeOK
    <2>1. AtRest \in [auth : {"none", "readonly", "guard", "both"},
                      queryOnly : BOOLEAN, fk : BOOLEAN]
          /\ NoCall \in [guard : BOOLEAN, schema : BOOLEAN, local : BOOLEAN, wasFk : BOOLEAN]
      BY DEF AtRest, NoCall
    <2>2. 0 \in 0..(MaxBytes + 1) /\ 0 \in 0..MaxStatements /\ 0 \in 0..MaxCalls /\ 0 \in 0..MaxHlc
      BY <1>1, WriteConstants
    <2> QED
      BY <1>1, <2>1, <2>2 DEF Init, TypeOK
  <1>3. BoundInv
    BY <1>1 DEF Init, BoundInv, Handling
  <1> QED
    BY <1>2, <1>3 DEF TypeInv

LEMMA InitControl == Init => Control
  BY InitFile, InitUndo, InitRest, InitShape DEF Control, RestInv

LEMMA StepControl == TypeInv /\ Control /\ [Next]_vars => Control'
  BY StepFile, StepUndo, StepConn, StepTx, StepGate, StepShape DEF Control, TypeInv

\* The types and the control, inductive together.
LEMMA TypedControl == Spec => [](TypeInv /\ Control)
  <1>1. Init => TypeInv /\ Control
    BY InitTypes, InitControl
  <1>2. TypeInv /\ Control /\ [Next]_vars => (TypeInv /\ Control)'
    BY StepTypes, StepControl
  <1> QED
    BY <1>1, <1>2, PTL DEF Spec

\* Every database a call reaches, commits or falls back to is well formed, and no HLC
\* outruns the statements and calls that draw them (TypeOK).
THEOREM TypeCorrect == Spec => []TypeOK
  <1>1. TypeInv /\ Control => TypeOK
    BY DEF TypeInv
  <1> QED
    BY <1>1, TypedControl, PTL
=============================================================================
