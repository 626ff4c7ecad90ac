--------------------------- MODULE Cleanup_proofs ---------------------------
(***************************************************************************)
(* Proofs about Cleanup for every log, retention window and integer width. *)
(* Neither property is inductive: what the DELETE will remove, what was    *)
(* reported and where the anchor went must agree from the start of the     *)
(* transaction to its commit.                                              *)
(***************************************************************************)
EXTENDS Cleanup, TLAPS

Times == Hlc \cup {NoHlc}

\* Until the DELETE the transaction sees the committed log, afterwards the log
\* without the prunable entries; the report is of those.
LogInv ==
    /\ phase \in {"hook", "delete"} => txLog = log
    /\ phase = "commit" => txLog = log \ Prunable(log, policy, cutoff)
    /\ phase # "idle" => reported \in MaxPrunable(log, policy, cutoff)

\* The transaction's anchor never falls behind the committed one, and covers the
\* report once the hook has run.
AnchorInv ==
    /\ phase # "idle" => AsInteger(anchor) <= AsInteger(txAnchor)
    /\ phase \in {"delete", "commit"} => AsInteger(reported) <= AsInteger(txAnchor)

Inv == TypeOK /\ LogInv /\ AnchorInv /\ AnchorCovers

-----------------------------------------------------------------------------
(* Operators                                                               *)

\* The cast gives an integer, in the order of the times.
LEMMA AsIntegerMonotone ==
    /\ \A h \in Times : AsInteger(h) \in Int
    /\ \A g, h \in Times : g.t <= h.t => AsInteger(g) <= AsInteger(h)
  BY CleanupConstants DEF Times, Hlc, NoHlc, AsInteger

LEMMA CutoffType ==
    ASSUME NEW p \in Policies, NEW now \in 0..MaxTime
    PROVE  Cutoff(p, now) \in None..SignedMax
  <1>1. CASE p.all \/ now = 0
    BY <1>1, CleanupConstants DEF Cutoff, None
  <1>2. CASE ~(p.all \/ now = 0)
    <2>1. p.days \in Nat
      <3>1. All.all
        BY DEF All
      <3>2. p \in [all : {FALSE}, days : Days]
        BY <1>2, <3>1 DEF Policies
      <3> QED
        BY <3>2, CleanupConstants
    <2>2. p.days * NsPerDay \in Nat
      BY <2>1, CleanupConstants
    <2> DEFINE retention == p.days * NsPerDay
               c == IF retention > now THEN 0 ELSE now - retention
    <2>3. c \in Nat
      BY <2>2, CleanupConstants
    <2>4. Cutoff(p, now) = IF c > SignedMax THEN None ELSE c
      BY <1>2 DEF Cutoff, CutoffNum
    <2> HIDE DEF c
    <2> QED
      BY <2>3, <2>4, CleanupConstants DEF None
  <1> QED
    BY <1>1, <1>2

\* What read_max_prunable_hlc may return.
LEMMA MaxPrunableIsMax ==
    ASSUME NEW L, NEW p, NEW c, NEW r \in MaxPrunable(L, p, c)
    PROVE  IF r = NoHlc THEN Prunable(L, p, c) = {}
           ELSE /\ r \in Prunable(L, p, c)
                /\ \A h \in Prunable(L, p, c) : AsInteger(h) <= AsInteger(r)
  <1>1. NoHlc \notin Prunable(L, p, c)
    BY DEF Prunable
  <1> QED
    BY <1>1 DEF MaxPrunable

LEMMA PrunableInLog ==
    ASSUME NEW L, NEW p, NEW c
    PROVE  Prunable(L, p, c) \subseteq L \ {NoHlc}
  BY DEF Prunable

LEMMA MaxPrunableType ==
    ASSUME NEW L \in SUBSET Times, NEW p, NEW c, NEW r \in MaxPrunable(L, p, c)
    PROVE  r \in Times
  BY PrunableInLog DEF MaxPrunable, Times

-----------------------------------------------------------------------------
(* The steps                                                               *)

LEMMA InitInv == Init => Inv
  <1> SUFFICES ASSUME Init PROVE Inv
    OBVIOUS
  <1>1. All \in Policies
    BY DEF Policies
  <1>2. TypeOK
    BY <1>1, CleanupConstants DEF Init, TypeOK, None
  <1>3. LogInv /\ AnchorInv /\ AnchorCovers
    BY DEF Init, LogInv, AnchorInv, AnchorCovers
  <1> QED
    BY <1>2, <1>3 DEF Inv

\* A new entry, between calls.
LEMMA LogStep ==
    ASSUME Inv, NEW h \in Times, phase = "idle", log' = log \cup {h},
           stored' \in 0..MaxTime, UNCHANGED <<anchor, phase, call, tx, pruned>>
    PROVE  Inv'
  <1>1. TypeOK'
    BY DEF Inv, TypeOK, Times, call, tx
  <1>2. LogInv' /\ AnchorInv' /\ AnchorCovers'
    BY DEF Inv, LogInv, AnchorInv, AnchorCovers, AsInteger
  <1> QED
    BY <1>1, <1>2 DEF Inv

LEMMA StartStep ==
    ASSUME Inv, NEW p \in Policies, Start(p)
    PROVE  Inv'
  <1>1. cutoff' \in None..SignedMax
    BY CutoffType DEF Inv, TypeOK, Start
  <1>2. reported' \in MaxPrunable(log, p, cutoff')
    BY DEF Start
  <1>3. reported' \in Times
    BY <1>2, MaxPrunableType DEF Inv, TypeOK, Times
  <1>4. TypeOK'
    BY <1>1, <1>3 DEF Inv, TypeOK, Start, Times
  <1>5. LogInv'
    BY <1>2 DEF LogInv, Start
  <1>6. AnchorInv'
    <2>1. AsInteger(anchor) \in Int
      BY AsIntegerMonotone DEF Inv, TypeOK, Times
    <2>2. phase' = "hook" /\ anchor' = anchor /\ txAnchor' = anchor
      BY DEF Start
    <2> QED
      BY <2>1, <2>2 DEF AnchorInv, AsInteger
  <1>7. AnchorCovers'
    BY DEF Inv, Start, AnchorCovers, AsInteger
  <1> QED
    BY <1>4, <1>5, <1>6, <1>7 DEF Inv

LEMMA BeforePruneStep ==
    ASSUME Inv, NEW now \in 0..MaxTime, BeforePrune(now)
    PROVE  Inv'
  <1>1. TypeOK'
    BY DEF Inv, TypeOK, BeforePrune, call
  <1>2. LogInv'
    BY DEF Inv, LogInv, BeforePrune, call
  <1>3. AnchorInv'
    <2>1. anchor \in Times /\ txAnchor \in Times /\ reported \in Times
      BY DEF Inv, TypeOK, Times
    <2>2. txAnchor' \in {reported, txAnchor}
          /\ reported.t <= txAnchor'.t /\ txAnchor.t <= txAnchor'.t
      BY <2>1, CleanupConstants DEF BeforePrune, Before, Times, Hlc, NoHlc
    <2>3. /\ AsInteger(reported) <= AsInteger(txAnchor')
          /\ AsInteger(txAnchor) <= AsInteger(txAnchor')
      BY <2>1, <2>2, AsIntegerMonotone
    <2>4. AsInteger(anchor) <= AsInteger(txAnchor)
      BY DEF Inv, AnchorInv, BeforePrune
    <2>5. AsInteger(anchor) <= AsInteger(txAnchor')
      BY <2>1, <2>2, <2>3, <2>4, AsIntegerMonotone
    <2>6. UNCHANGED <<anchor, reported>>
      BY DEF BeforePrune, call
    <2> QED
      BY <2>3, <2>5, <2>6 DEF AnchorInv, AsInteger
  <1>4. AnchorCovers'
    BY DEF Inv, BeforePrune, AnchorCovers, AsInteger
  <1> QED
    BY <1>1, <1>2, <1>3, <1>4 DEF Inv

LEMMA PruneStep ==
    ASSUME Inv, Prune
    PROVE  Inv'
  <1>1. txLog = log
    BY DEF Inv, LogInv, Prune
  <1>2. TypeOK'
    BY <1>1 DEF Inv, TypeOK, Prune, call
  <1>3. LogInv'
    BY <1>1 DEF Inv, LogInv, Prune, call
  <1>4. AnchorInv' /\ AnchorCovers'
    BY DEF Inv, AnchorInv, AnchorCovers, AsInteger, Prune, call
  <1> QED
    BY <1>2, <1>3, <1>4 DEF Inv

\* The report is of the rows that the DELETE removes.
LEMMA ReportFollows == Inv => ReportCoversDelete
  <1> SUFFICES ASSUME Inv, phase = "commit"
               PROVE  IF reported = NoHlc THEN log \ txLog = {}
                      ELSE /\ reported \in log \ txLog
                           /\ \A h \in log \ txLog : AsInteger(h) <= AsInteger(reported)
    BY DEF ReportCoversDelete
  <1>1. log \ txLog = Prunable(log, policy, cutoff)
    BY PrunableInLog DEF Inv, LogInv
  <1>2. reported \in MaxPrunable(log, policy, cutoff)
    BY DEF Inv, LogInv
  <1> QED
    BY <1>1, <1>2, MaxPrunableIsMax

LEMMA CommitStep ==
    ASSUME Inv, Commit
    PROVE  Inv'
  <1>1. All \in Policies
    BY DEF Policies
  <1>2. log \ txLog \subseteq Hlc
    BY PrunableInLog DEF Inv, LogInv, TypeOK, Commit
  <1>3. TypeOK'
    BY <1>1, <1>2, CleanupConstants DEF Inv, TypeOK, Commit, Closed, None
  <1>4. LogInv' /\ AnchorInv'
    BY DEF LogInv, AnchorInv, Commit, Closed
  <1>5. AnchorCovers'
    <2>1. anchor \in Times /\ txAnchor \in Times /\ reported \in Times
      BY DEF Inv, TypeOK, Times
    <2>2. pruned \subseteq Times /\ log \ txLog \subseteq Times
      BY <1>2 DEF Inv, TypeOK, Times
    <2>3. /\ AsInteger(anchor) <= AsInteger(txAnchor)
          /\ AsInteger(reported) <= AsInteger(txAnchor)
      BY DEF Inv, AnchorInv, Commit
    <2>4. \A h \in pruned : h # NoHlc /\ AsInteger(h) <= AsInteger(txAnchor)
      BY <2>1, <2>2, <2>3, AsIntegerMonotone DEF Inv, AnchorCovers
    <2>5. \A h \in log \ txLog : AsInteger(h) <= AsInteger(reported)
      BY ReportFollows DEF ReportCoversDelete, Commit
    <2>6. \A h \in log \ txLog : h # NoHlc /\ AsInteger(h) <= AsInteger(txAnchor)
      <3>1. NoHlc \notin Hlc
        BY DEF Hlc, NoHlc
      <3> QED
        BY <1>2, <2>1, <2>2, <2>3, <2>5, <3>1, AsIntegerMonotone
    <2>7. pruned' = pruned \cup (log \ txLog) /\ anchor' = txAnchor
      BY DEF Commit
    <2> QED
      BY <2>4, <2>6, <2>7 DEF AnchorCovers, AsInteger
  <1> QED
    BY <1>3, <1>4, <1>5 DEF Inv

LEMMA RollbackStep ==
    ASSUME Inv, Rollback
    PROVE  Inv'
  <1>1. All \in Policies
    BY DEF Policies
  <1>2. TypeOK'
    BY <1>1, CleanupConstants DEF Inv, TypeOK, Rollback, Closed, None
  <1>3. LogInv' /\ AnchorInv' /\ AnchorCovers'
    BY DEF Inv, LogInv, AnchorInv, AnchorCovers, AsInteger, Rollback, Closed
  <1> QED
    BY <1>2, <1>3 DEF Inv

LEMMA StepInv == Inv /\ [Next]_vars => Inv'
  <1> SUFFICES ASSUME Inv, [Next]_vars PROVE Inv'
    OBVIOUS
  <1>1. ASSUME NEW h \in Hlc, LogLocal(h) PROVE Inv'
    <2>1. h.t \in 0..MaxTime
      BY CleanupConstants DEF Hlc
    <2> QED
      BY <1>1, <2>1, LogStep DEF LogLocal, Times
  <1>2. ASSUME NEW h \in Times, LogRemote(h) PROVE Inv'
    BY <1>2, LogStep DEF LogRemote, Inv, TypeOK
  <1>3. CASE UNCHANGED vars
    BY <1>3 DEF Inv, TypeOK, LogInv, AnchorInv, AnchorCovers, AsInteger, vars, call, tx
  <1> QED
    BY <1>1, <1>2, <1>3, StartStep, BeforePruneStep, PruneStep, CommitStep, RollbackStep
       DEF Next, Times

-----------------------------------------------------------------------------
\* Inv is an invariant of every sequence of calls.
THEOREM Invariance == Spec => []Inv
  BY InitInv, StepInv, PTL DEF Spec

\* Every step of cleanup_deleted_rows keeps the types, and the transaction's log
\* is never more than the committed one.
THEOREM TypeCorrect == Spec => []TypeOK
  <1>1. Inv => TypeOK
    BY DEF Inv
  <1> QED
    BY <1>1, Invariance, PTL

\* A pruned entry is covered by the anchor that before_prune stored, however
\* many calls commit, fail or die, at every integer width.
THEOREM AnchorFirst == Spec => []AnchorCovers
  <1>1. Inv => AnchorCovers
    BY DEF Inv
  <1> QED
    BY <1>1, Invariance, PTL

\* read_max_prunable_hlc and the DELETE speak of the same rows, whatever the hook
\* does to the persisted HLC.
THEOREM ReportExact == Spec => []ReportCoversDelete
  BY ReportFollows, Invariance, PTL
=============================================================================
