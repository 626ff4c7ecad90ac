--------------------------- MODULE HlcClock_proofs ---------------------------
(***************************************************************************)
(* Proofs about HlcClock for every counter width, drift tolerance and      *)
(* bound: the invariant Inv is inductive, and the properties the clock     *)
(* runs check follow from it.                                              *)
(***************************************************************************)
EXTENDS HlcClock, TLAPS

\* Masking the counter bits of the wall clock (uhlc's physical reading)
\* leaves a natural number.
LEMMA PhysicalIsNat ==
    ASSUME wall \in Nat
    PROVE  Physical \in Nat
  BY ClockConstants DEF Physical

\* Masking keeps the order of readings.
LEMMA MaskMonotone ==
    ASSUME NEW a \in Nat, NEW b \in Nat, a <= b, NEW c \in Nat \ {0}
    PROVE  a - (a % c) <= b - (b % c)
  <1> DEFINE p == a \div c
             q == b \div c
             r == a % c
             s == b % c
  <1>1. p \in Nat /\ q \in Nat /\ r \in 0..(c - 1) /\ s \in 0..(c - 1)
    OBVIOUS
  <1>2. a = c * p + r /\ b = c * q + s
    OBVIOUS
  <1>3. p <= q
    OBVIOUS
  <1>4. c * p <= c * q
    BY <1>1, <1>3
  <1> QED
    BY <1>1, <1>2, <1>4

\* A draw is a natural number greater than the clock's last value.
LEMMA NewTimestampFresh ==
    ASSUME wall \in Nat, NEW l \in Nat
    PROVE  NewTimestamp(l) \in Nat /\ NewTimestamp(l) > l
  BY PhysicalIsNat DEF NewTimestamp

\* Folding a timestamp in never moves the clock back, and takes it to that
\* timestamp at least.
LEMMA UpdateCovers ==
    ASSUME wall \in Nat, NEW l \in Nat, NEW t \in Nat
    PROVE  LET u == UpdateWithTimestamp(l, t)
           IN  u \in Nat /\ u >= l /\ u >= t
  BY PhysicalIsNat DEF UpdateWithTimestamp

\* current_hlc() either returns the pinned value and leaves the clock alone,
\* or draws a value beyond the clock and pins it.
LEMMA TxHlcCases ==
    ASSUME wall \in Nat, NEW l \in Nat, NEW p \in Nat, NEW w \in BOOLEAN
    PROVE  LET r == CurrentOrNewTxHlc(w, p, l)
           IN  /\ r.ts \in Nat /\ r.last \in Nat /\ r.slot = r.ts
               /\ \/ w /\ p # None /\ r.ts = p /\ r.last = l
                  \/ ~(w /\ p # None) /\ r.ts > l /\ r.last = r.ts
  BY NewTimestampFresh DEF CurrentOrNewTxHlc

-----------------------------------------------------------------------------
(* Inv is inductive: one lemma per action that draws or moves the clock.   *)

\* The initial states satisfy the invariant.
LEMMA InitInv == Init => Inv
  <1> SUFFICES ASSUME Init PROVE Inv
    OBVIOUS
  <1> USE DEF Init, None
  <1>1. TypeOK
    <2>1. wall \in Nat
      BY ClockConstants
    <2> QED
      BY <2>1 DEF TypeOK
  <1>2. ControlInv
    BY DEF ControlInv
  <1>3. ClockInv /\ PinInv
    BY DEF ClockInv, PinInv
  <1>4. HeardInv /\ DriftInv /\ AdvanceRefusedOnlyIfSetBack
    BY DEF HeardInv, DriftInv, AdvanceRefusedOnlyIfSetBack
  <1> QED
    BY <1>1, <1>2, <1>3, <1>4 DEF Inv

\* The clock of a reopened file covers what was persisted.
LEMMA OpenInv == Inv /\ Open => Inv'
  <1> SUFFICES ASSUME Inv, Open PROVE Inv'
    OBVIOUS
  <1> USE DEF Open, ResetTxSlot, transaction, history, None
  <1>1. TypeOK /\ wall \in Nat /\ persisted \in Nat
    BY DEF Inv, TypeOK
  <1>2. last' \in Nat /\ last' >= persisted
    BY <1>1, UpdateCovers
  <1>3. TypeOK'
    BY <1>1, <1>2 DEF TypeOK
  <1>4. ControlInv' /\ ClockInv' /\ PinInv'
    BY <1>1, <1>2 DEF Inv, TypeOK, ControlInv, ClockInv, PinInv
  <1>5. HeardInv' /\ DriftInv' /\ AdvanceRefusedOnlyIfSetBack'
    BY <1>1, <1>2 DEF Inv, TypeOK, ControlInv, HeardInv, DriftInv, AdvanceRefusedOnlyIfSetBack
  <1> QED
    BY <1>3, <1>4, <1>5 DEF Inv
\* A running wall clock keeps an owed advance within the drift.
LEMMA TickInv == Inv /\ Tick => Inv'
  <1> SUFFICES ASSUME Inv, Tick PROVE Inv'
    OBVIOUS
  <1> USE DEF Tick, context, transaction, history, None
  <1>1. wall \in Nat /\ wall' \in Nat /\ wall <= wall'
    BY DEF Inv, TypeOK
  <1>2. Physical \in Nat /\ Physical' \in Nat /\ Physical <= Physical'
    <2>1. CounterSpan \in Nat \ {0}
      BY ClockConstants
    <2>2. wall - (wall % CounterSpan) <= wall' - (wall' % CounterSpan)
      BY <1>1, <2>1, MaskMonotone
    <2>3. wall - (wall % CounterSpan) \in Nat /\ wall' - (wall' % CounterSpan) \in Nat
      BY <1>1, <2>1
    <2> QED
      BY <2>2, <2>3 DEF Physical
  <1>11. TypeOK'
    BY <1>1 DEF Inv, TypeOK
  <1>12. ControlInv'
    BY <1>1 DEF Inv, TypeOK, ControlInv, PinInv
  <1>13. ClockInv'
    BY <1>1 DEF Inv, TypeOK, ControlInv, ClockInv, PinInv
  <1>14. PinInv'
    BY <1>1 DEF Inv, TypeOK, ControlInv, ClockInv, PinInv
  <1>15. HeardInv'
    BY <1>1 DEF Inv, TypeOK, ControlInv, ClockInv, PinInv, HeardInv
  <1>16. DriftInv' /\ AdvanceRefusedOnlyIfSetBack'
    <2>1. owed \in Nat /\ owed' = owed /\ MaxDrift \in Nat
      BY ClockConstants DEF Inv, TypeOK
    <2>2. WithinDrift(owed) => WithinDrift(owed)'
      <3> DEFINE P == Physical
                 Q == Physical'
      <3>1. P \in Nat /\ Q \in Nat /\ P <= Q
        BY <1>2
      <3> HIDE DEF P, Q
      <3>2. owed - P <= MaxDrift => owed - Q <= MaxDrift
        BY <2>1, <3>1
      <3> QED
        BY <2>1, <3>2 DEF WithinDrift, P, Q
    <2> QED
      BY <2>2 DEF Inv, DriftInv, AdvanceRefusedOnlyIfSetBack
  <1> QED
    BY <1>11, <1>12, <1>13, <1>14, <1>15, <1>16 DEF Inv

\* A wall clock set back while an advance is owed is remembered.
LEMMA StepBackInv == Inv /\ StepBack => Inv'
  <1> SUFFICES ASSUME Inv, StepBack PROVE Inv'
    OBVIOUS
  <1> USE DEF StepBack, context, transaction, history, None
  <1>11. TypeOK'
    BY DEF Inv, TypeOK
  <1>12. ControlInv'
    BY DEF Inv, TypeOK, ControlInv, PinInv
  <1>13. ClockInv'
    BY DEF Inv, TypeOK, ControlInv, ClockInv, PinInv
  <1>14. PinInv'
    BY DEF Inv, TypeOK, ControlInv, ClockInv, PinInv
  <1>15. HeardInv'
    BY DEF Inv, TypeOK, ControlInv, ClockInv, PinInv, HeardInv
  <1>16. DriftInv' /\ AdvanceRefusedOnlyIfSetBack'
    BY DEF Inv, TypeOK, ControlInv, DriftInv, AdvanceRefusedOnlyIfSetBack
  <1> QED
    BY <1>11, <1>12, <1>13, <1>14, <1>15, <1>16 DEF Inv

\* A crash loses only what was not durable.
LEMMA CrashInv == Inv /\ Crash => Inv'
  <1> SUFFICES ASSUME Inv, Crash PROVE Inv'
    OBVIOUS
  <1> USE DEF Crash, ResetTxSlot, NoTransaction, None
  <1>11. TypeOK'
    BY DEF Inv, TypeOK
  <1>12. ControlInv'
    BY DEF Inv, TypeOK, ControlInv, PinInv
  <1>13. ClockInv'
    BY DEF Inv, TypeOK, ControlInv, ClockInv, PinInv
  <1>14. PinInv'
    BY DEF Inv, TypeOK, ControlInv, ClockInv, PinInv
  <1>15. HeardInv'
    BY DEF Inv, TypeOK, ControlInv, ClockInv, PinInv, HeardInv
  <1>16. DriftInv' /\ AdvanceRefusedOnlyIfSetBack'
    BY DEF Inv, TypeOK, ControlInv, DriftInv, AdvanceRefusedOnlyIfSetBack
  <1> QED
    BY <1>11, <1>12, <1>13, <1>14, <1>15, <1>16 DEF Inv

\* A read-only probe leaves a slot value no commit has used.
LEMMA ProbeInv == Inv /\ Probe => Inv'
  <1> SUFFICES ASSUME Inv, Probe PROVE Inv'
    OBVIOUS
  <1> USE DEF Probe, Idle, transaction, history, None
  <1>1. wall \in Nat /\ last \in Nat /\ slot \in Nat /\ pending \in BOOLEAN
    BY DEF Inv, TypeOK
  <1> DEFINE r == CurrentOrNewTxHlc(pending, slot, last)
  <1>2. /\ r.ts \in Nat /\ r.last \in Nat /\ r.slot = r.ts
        /\ \/ pending /\ slot # None /\ r.ts = slot /\ r.last = last
           \/ ~(pending /\ slot # None) /\ r.ts > last /\ r.last = r.ts
    BY <1>1, TxHlcCases
  <1>3. last' = r.last /\ slot' = r.slot
    OBVIOUS
  <1> HIDE DEF r, CurrentOrNewTxHlc
  <1>11. TypeOK'
    BY <1>1, <1>2, <1>3 DEF Inv, TypeOK
  <1>12. ControlInv'
    BY <1>1, <1>2, <1>3 DEF Inv, TypeOK, ControlInv, PinInv
  <1>13. ClockInv'
    BY <1>1, <1>2, <1>3 DEF Inv, TypeOK, ControlInv, ClockInv, PinInv
  <1>14. PinInv'
    BY <1>1, <1>2, <1>3 DEF Inv, TypeOK, ControlInv, ClockInv, PinInv
  <1>15. HeardInv'
    BY <1>1, <1>2, <1>3 DEF Inv, TypeOK, ControlInv, ClockInv, PinInv, HeardInv
  <1>16. DriftInv' /\ AdvanceRefusedOnlyIfSetBack'
    BY <1>1, <1>2, <1>3 DEF Inv, TypeOK, ControlInv, DriftInv, AdvanceRefusedOnlyIfSetBack
  <1> QED
    BY <1>11, <1>12, <1>13, <1>14, <1>15, <1>16 DEF Inv

\* A transaction starts from the persisted HLC row.
LEMMA BeginWriteInv == Inv /\ BeginWrite => Inv'
  <1> SUFFICES ASSUME Inv, BeginWrite PROVE Inv'
    OBVIOUS
  <1> USE DEF BeginWrite, Idle, context, history, None
  <1>11. TypeOK'
    BY DEF Inv, TypeOK
  <1>12. ControlInv'
    BY DEF Inv, TypeOK, ControlInv, PinInv
  <1>13. ClockInv'
    BY DEF Inv, TypeOK, ControlInv, ClockInv, PinInv
  <1>14. PinInv'
    BY DEF Inv, TypeOK, ControlInv, ClockInv, PinInv
  <1>15. HeardInv'
    BY DEF Inv, TypeOK, ControlInv, ClockInv, PinInv, HeardInv
  <1>16. DriftInv' /\ AdvanceRefusedOnlyIfSetBack'
    BY DEF Inv, TypeOK, ControlInv, DriftInv, AdvanceRefusedOnlyIfSetBack
  <1> QED
    BY <1>11, <1>12, <1>13, <1>14, <1>15, <1>16 DEF Inv

\* An unstamped write only sets write_pending.
LEMMA UnstampedWriteInv == Inv /\ UnstampedWrite => Inv'
  <1> SUFFICES ASSUME Inv, UnstampedWrite PROVE Inv'
    OBVIOUS
  <1> USE DEF UnstampedWrite, transaction, history, None
  <1>11. TypeOK'
    BY DEF Inv, TypeOK
  <1>12. ControlInv'
    BY DEF Inv, TypeOK, ControlInv, PinInv
  <1>13. ClockInv'
    BY DEF Inv, TypeOK, ControlInv, ClockInv, PinInv
  <1>14. PinInv'
    BY DEF Inv, TypeOK, ControlInv, ClockInv, PinInv
  <1>15. HeardInv'
    BY DEF Inv, TypeOK, ControlInv, ClockInv, PinInv, HeardInv
  <1>16. DriftInv' /\ AdvanceRefusedOnlyIfSetBack'
    BY DEF Inv, TypeOK, ControlInv, DriftInv, AdvanceRefusedOnlyIfSetBack
  <1> QED
    BY <1>11, <1>12, <1>13, <1>14, <1>15, <1>16 DEF Inv

\* A read inside the transaction cannot move a pinned slot.
LEMMA ReadInTxInv == Inv /\ ReadInTx => Inv'
  <1> SUFFICES ASSUME Inv, ReadInTx PROVE Inv'
    OBVIOUS
  <1> USE DEF ReadInTx, transaction, history, None
  <1>1. wall \in Nat /\ last \in Nat /\ slot \in Nat /\ pending \in BOOLEAN
    BY DEF Inv, TypeOK
  <1> DEFINE r == CurrentOrNewTxHlc(pending, slot, last)
  <1>2. /\ r.ts \in Nat /\ r.last \in Nat /\ r.slot = r.ts
        /\ \/ pending /\ slot # None /\ r.ts = slot /\ r.last = last
           \/ ~(pending /\ slot # None) /\ r.ts > last /\ r.last = r.ts
    BY <1>1, TxHlcCases
  <1>3. last' = r.last /\ slot' = r.slot
    OBVIOUS
  <1> HIDE DEF r, CurrentOrNewTxHlc
  <1>11. TypeOK'
    BY <1>1, <1>2, <1>3 DEF Inv, TypeOK
  <1>12. ControlInv'
    BY <1>1, <1>2, <1>3 DEF Inv, TypeOK, ControlInv, PinInv
  <1>13. ClockInv'
    BY <1>1, <1>2, <1>3 DEF Inv, TypeOK, ControlInv, ClockInv, PinInv
  <1>14. PinInv'
    BY <1>1, <1>2, <1>3 DEF Inv, TypeOK, ControlInv, ClockInv, PinInv
  <1>15. HeardInv'
    BY <1>1, <1>2, <1>3 DEF Inv, TypeOK, ControlInv, ClockInv, PinInv, HeardInv
  <1>16. DriftInv' /\ AdvanceRefusedOnlyIfSetBack'
    BY <1>1, <1>2, <1>3 DEF Inv, TypeOK, ControlInv, DriftInv, AdvanceRefusedOnlyIfSetBack
  <1> QED
    BY <1>11, <1>12, <1>13, <1>14, <1>15, <1>16 DEF Inv

\* A refused statement leaves the transaction's rows alone.
LEMMA StatementRefusedInv == Inv /\ StatementRefused => Inv'
  <1> SUFFICES ASSUME Inv, StatementRefused PROVE Inv'
    OBVIOUS
  <1> USE DEF StatementRefused, transaction, history, None
  <1>1. wall \in Nat /\ last \in Nat /\ slot \in Nat /\ pending \in BOOLEAN
    BY DEF Inv, TypeOK
  <1> DEFINE r == CurrentOrNewTxHlc(pending, slot, last)
  <1>2. /\ r.ts \in Nat /\ r.last \in Nat /\ r.slot = r.ts
        /\ \/ pending /\ slot # None /\ r.ts = slot /\ r.last = last
           \/ ~(pending /\ slot # None) /\ r.ts > last /\ r.last = r.ts
    BY <1>1, TxHlcCases
  <1>3. last' = r.last /\ slot' = r.slot
    OBVIOUS
  <1> HIDE DEF r, CurrentOrNewTxHlc
  <1>11. TypeOK'
    BY <1>1, <1>2, <1>3 DEF Inv, TypeOK
  <1>12. ControlInv'
    BY <1>1, <1>2, <1>3 DEF Inv, TypeOK, ControlInv, PinInv
  <1>13. ClockInv'
    BY <1>1, <1>2, <1>3 DEF Inv, TypeOK, ControlInv, ClockInv, PinInv
  <1>14. PinInv'
    BY <1>1, <1>2, <1>3 DEF Inv, TypeOK, ControlInv, ClockInv, PinInv
  <1>15. HeardInv'
    BY <1>1, <1>2, <1>3 DEF Inv, TypeOK, ControlInv, ClockInv, PinInv, HeardInv
  <1>16. DriftInv' /\ AdvanceRefusedOnlyIfSetBack'
    BY <1>1, <1>2, <1>3 DEF Inv, TypeOK, ControlInv, DriftInv, AdvanceRefusedOnlyIfSetBack
  <1> QED
    BY <1>11, <1>12, <1>13, <1>14, <1>15, <1>16 DEF Inv

\* A rollback clears the slot and keeps the clock.
LEMMA RollbackWriteInv == Inv /\ RollbackWrite => Inv'
  <1> SUFFICES ASSUME Inv, RollbackWrite PROVE Inv'
    OBVIOUS
  <1> USE DEF RollbackWrite, ResetTxSlot, NoTransaction, history, None
  <1>11. TypeOK'
    BY DEF Inv, TypeOK
  <1>12. ControlInv'
    BY DEF Inv, TypeOK, ControlInv, PinInv
  <1>13. ClockInv'
    BY DEF Inv, TypeOK, ControlInv, ClockInv, PinInv
  <1>14. PinInv'
    BY DEF Inv, TypeOK, ControlInv, ClockInv, PinInv
  <1>15. HeardInv'
    BY DEF Inv, TypeOK, ControlInv, ClockInv, PinInv, HeardInv
  <1>16. DriftInv' /\ AdvanceRefusedOnlyIfSetBack'
    BY DEF Inv, TypeOK, ControlInv, DriftInv, AdvanceRefusedOnlyIfSetBack
  <1> QED
    BY <1>11, <1>12, <1>13, <1>14, <1>15, <1>16 DEF Inv

\* A stamping transaction persists the value it drew.
LEMMA StampRowsInv == Inv /\ StampRows => Inv'
  <1> SUFFICES ASSUME Inv, StampRows PROVE Inv'
    OBVIOUS
  <1> USE DEF StampRows, Idle, ResetTxSlot, transaction, None
  <1>1. wall \in Nat /\ last \in Nat /\ slot \in Nat /\ pending \in BOOLEAN
    BY DEF Inv, TypeOK
  <1>2. NewTimestamp(last) \in Nat /\ NewTimestamp(last) > last
    BY <1>1, NewTimestampFresh
  <1>11. TypeOK'
    BY <1>1, <1>2 DEF Inv, TypeOK
  <1>12. ControlInv'
    BY <1>1, <1>2 DEF Inv, TypeOK, ControlInv, PinInv
  <1>13. ClockInv'
    BY <1>1, <1>2 DEF Inv, TypeOK, ControlInv, ClockInv, PinInv
  <1>14. PinInv'
    BY <1>1, <1>2 DEF Inv, TypeOK, ControlInv, ClockInv, PinInv
  <1>15. HeardInv'
    BY <1>1, <1>2 DEF Inv, TypeOK, ControlInv, ClockInv, PinInv, HeardInv
  <1>16. DriftInv' /\ AdvanceRefusedOnlyIfSetBack'
    BY <1>1, <1>2 DEF Inv, TypeOK, ControlInv, DriftInv, AdvanceRefusedOnlyIfSetBack
  <1> QED
    BY <1>11, <1>12, <1>13, <1>14, <1>15, <1>16 DEF Inv

\* A failed stamping transaction only moves the clock.
LEMMA StampRowsFailsInv == Inv /\ StampRowsFails => Inv'
  <1> SUFFICES ASSUME Inv, StampRowsFails PROVE Inv'
    OBVIOUS
  <1> USE DEF StampRowsFails, Idle, ResetTxSlot, transaction, history, None
  <1>1. wall \in Nat /\ last \in Nat /\ slot \in Nat /\ pending \in BOOLEAN
    BY DEF Inv, TypeOK
  <1>2. NewTimestamp(last) \in Nat /\ NewTimestamp(last) > last
    BY <1>1, NewTimestampFresh
  <1>11. TypeOK'
    BY <1>1, <1>2 DEF Inv, TypeOK
  <1>12. ControlInv'
    BY <1>1, <1>2 DEF Inv, TypeOK, ControlInv, PinInv
  <1>13. ClockInv'
    BY <1>1, <1>2 DEF Inv, TypeOK, ControlInv, ClockInv, PinInv
  <1>14. PinInv'
    BY <1>1, <1>2 DEF Inv, TypeOK, ControlInv, ClockInv, PinInv
  <1>15. HeardInv'
    BY <1>1, <1>2 DEF Inv, TypeOK, ControlInv, ClockInv, PinInv, HeardInv
  <1>16. DriftInv' /\ AdvanceRefusedOnlyIfSetBack'
    BY <1>1, <1>2 DEF Inv, TypeOK, ControlInv, DriftInv, AdvanceRefusedOnlyIfSetBack
  <1> QED
    BY <1>11, <1>12, <1>13, <1>14, <1>15, <1>16 DEF Inv

\* A stamped statement uses the pinned HLC, or pins a fresh one; the trigger
\* reads the same value.
LEMMA StatementInv == Inv /\ Statement => Inv'
  <1> SUFFICES ASSUME Inv, Statement PROVE Inv'
    OBVIOUS
  <1> USE DEF Statement, history, None
  <1>1. wall \in Nat /\ last \in Nat /\ slot \in Nat /\ pending \in BOOLEAN
    BY DEF Inv, TypeOK
  <1> DEFINE r == CurrentOrNewTxHlc(pending, slot, last)
             aligned == UpdateWithTimestamp(r.last, r.ts)
             trigger == CurrentOrNewTxHlc(TRUE, r.slot, aligned)
  <1>2. /\ r.ts \in Nat /\ r.last \in Nat /\ r.slot = r.ts
        /\ \/ pending /\ slot # None /\ r.ts = slot /\ r.last = last
           \/ ~(pending /\ slot # None) /\ r.ts > last /\ r.last = r.ts
    BY <1>1, TxHlcCases
  <1>3. /\ last' = trigger.last /\ slot' = trigger.slot /\ hlcRow' = r.ts
        /\ stamps' = stamps \cup {r.ts, trigger.ts} \/ stamps' = stamps
    OBVIOUS
  <1> HIDE DEF r, CurrentOrNewTxHlc
  <1>4. aligned \in Nat /\ aligned >= r.last /\ aligned >= r.ts
    BY <1>1, <1>2, UpdateCovers
  <1> HIDE DEF aligned
  <1>5. r.ts # None
    BY <1>1, <1>2
  <1>6. trigger.ts = r.ts /\ trigger.slot = r.ts /\ trigger.last = aligned
    BY <1>2, <1>4, <1>5 DEF CurrentOrNewTxHlc
  <1> HIDE DEF trigger
  <1>7. last' = aligned /\ slot' = r.ts /\ stamps' \subseteq stamps \cup {r.ts}
    BY <1>3, <1>6
  <1>8. persisted < r.ts /\ \A s \in stamps : s = r.ts
    BY <1>1, <1>2 DEF Inv, TypeOK, ControlInv, ClockInv, PinInv
  <1>9. ~missed => heard < r.ts
    BY <1>1, <1>2 DEF Inv, TypeOK, ControlInv, HeardInv
  <1> HIDE DEF Statement
  <1>10. /\ pending' = TRUE /\ inTx /\ inTx' = inTx
         /\ UNCHANGED <<wall, up, persisted, owed, issued, heard, remote, missed, setBack>>
    BY DEF Statement
  <1>11. TypeOK'
    BY <1>2, <1>3, <1>4, <1>7, <1>10 DEF Inv, TypeOK
  <1>12. ControlInv'
    BY <1>10 DEF Inv, ControlInv
  <1>13. ClockInv'
    BY <1>2, <1>4, <1>7, <1>8, <1>10 DEF Inv, TypeOK, ControlInv, ClockInv
  <1>14. PinInv'
    BY <1>3, <1>5, <1>7, <1>8, <1>10 DEF PinInv
  <1>15. HeardInv'
    BY <1>2, <1>4, <1>7, <1>9, <1>10 DEF Inv, TypeOK, ControlInv, HeardInv
  <1>16. DriftInv' /\ AdvanceRefusedOnlyIfSetBack'
    BY <1>10 DEF Inv, ControlInv, DriftInv, AdvanceRefusedOnlyIfSetBack
  <1> QED
    BY <1>11, <1>12, <1>13, <1>14, <1>15, <1>16 DEF Inv

\* The newest of a single timestamp is that timestamp.
LEMMA NewestOfOne ==
    ASSUME NEW x \in Nat
    PROVE  Newest({x}) = x
  <1>1. \E t \in {x} : \A u \in {x} : u <= t
    OBVIOUS
  <1> QED
    BY <1>1 DEF Newest

\* The HLC a transaction has stamped its rows with is the one in its 'hlc'
\* row, and is later than the committed one.
LEMMA NewestStampIsHlcRow ==
    ASSUME Inv, stamps # {}
    PROVE  Newest(stamps) = hlcRow /\ hlcRow > persisted
  <1>1. \A s \in stamps : s = hlcRow /\ slot # None /\ s = slot
    BY DEF Inv, PinInv
  <1>2. stamps = {hlcRow}
    BY <1>1
  <1>3. hlcRow \in Nat
    BY DEF Inv, TypeOK
  <1>4. Newest({hlcRow}) = hlcRow
    BY <1>3, NewestOfOne
  <1>5. slot # None /\ slot = hlcRow
    BY <1>1, <1>2
  <1>6. hlcRow > persisted
    BY <1>3, <1>5 DEF Inv, TypeOK, ClockInv
  <1> QED
    BY <1>2, <1>4, <1>6

\* A commit makes durable the HLC its rows carry.
LEMMA CommitWriteInv == Inv /\ CommitWrite => Inv'
  <1> SUFFICES ASSUME Inv, CommitWrite PROVE Inv'
    OBVIOUS
  <1> USE DEF CommitWrite, ResetTxSlot, NoTransaction, None
  <1>1. stamps # {} => Newest(stamps) = hlcRow
    BY NewestStampIsHlcRow
  <1>2. issued' = issued \/ issued' = hlcRow
    BY <1>1
  <1>3. hlcRow >= persisted /\ hlcRow <= last
    BY DEF Inv, TypeOK, ControlInv, ClockInv, PinInv
  <1>11. TypeOK'
    BY <1>2 DEF Inv, TypeOK
  <1>12. ControlInv'
    BY DEF Inv, ControlInv
  <1>13. ClockInv'
    BY <1>2, <1>3 DEF Inv, TypeOK, ClockInv
  <1>14. PinInv'
    BY DEF PinInv
  <1>15. HeardInv'
    BY DEF Inv, ControlInv, HeardInv
  <1>16. DriftInv' /\ AdvanceRefusedOnlyIfSetBack'
    BY DEF Inv, ControlInv, DriftInv, AdvanceRefusedOnlyIfSetBack
  <1> QED
    BY <1>11, <1>12, <1>13, <1>14, <1>15, <1>16 DEF Inv

\* A committed batch owes the clock an advance that passed preflight.
LEMMA ApplyCommitsInv ==
    ASSUME Inv, NEW t \in 1..MaxTime, ApplyCommits(t)
    PROVE  Inv'
  <1> USE DEF ApplyCommits, Idle, ResetTxSlot, transaction, Later, None
  <1>1. t \in Nat /\ t # None /\ heard \in Nat /\ remote \in Nat
    BY ClockConstants DEF Inv, TypeOK
  <1>11. TypeOK'
    BY <1>1 DEF Inv, TypeOK
  <1>12. ControlInv'
    BY DEF Inv, ControlInv
  <1>13. ClockInv'
    BY DEF Inv, ClockInv
  <1>14. PinInv'
    BY DEF Inv, ControlInv, PinInv
  <1>15. HeardInv'
    BY <1>1 DEF Inv, TypeOK, HeardInv
  <1>16. DriftInv' /\ AdvanceRefusedOnlyIfSetBack'
    BY DEF Inv, DriftInv, AdvanceRefusedOnlyIfSetBack, WithinDrift, Physical
  <1> QED
    BY <1>11, <1>12, <1>13, <1>14, <1>15, <1>16 DEF Inv

\* The advance takes the clock past what was heard, or is refused.
LEMMA AdvancePastRemoteInv == Inv /\ AdvancePastRemote => Inv'
  <1> SUFFICES ASSUME Inv, AdvancePastRemote PROVE Inv'
    OBVIOUS
  <1> USE DEF AdvancePastRemote, context, transaction, None
  <1>1. wall \in Nat /\ last \in Nat /\ owed \in Nat
    BY DEF Inv, TypeOK
  <1> DEFINE u == UpdateWithTimestamp(last, owed)
  <1>2. u \in Nat /\ u >= last /\ u >= owed
    BY <1>1, UpdateCovers
  <1>3. \/ WithinDrift(owed) /\ last' = u /\ missed' = missed
        \/ ~WithinDrift(owed) /\ last' = last /\ missed' = TRUE
    BY DEF Inv, TypeOK
  <1> HIDE DEF u
  <1>11. TypeOK'
    BY <1>2, <1>3 DEF Inv, TypeOK
  <1>12. ControlInv'
    BY DEF Inv, ControlInv
  <1>13. ClockInv'
    BY <1>2, <1>3 DEF Inv, TypeOK, ClockInv
  <1>14. PinInv'
    BY DEF Inv, ControlInv, PinInv
  <1>15. HeardInv'
    BY <1>2, <1>3 DEF Inv, TypeOK, HeardInv
  <1>16. DriftInv' /\ AdvanceRefusedOnlyIfSetBack'
    BY <1>3 DEF Inv, DriftInv, AdvanceRefusedOnlyIfSetBack
  <1> QED
    BY <1>11, <1>12, <1>13, <1>14, <1>15, <1>16 DEF Inv

\* Inv is inductive.
LEMMA StepInv == Inv /\ [Next]_vars => Inv'
  <1> SUFFICES ASSUME Inv, [Next]_vars PROVE Inv'
    OBVIOUS
  <1>1. CASE Next
    BY <1>1, TickInv, StepBackInv, OpenInv, CrashInv, ProbeInv, BeginWriteInv,
       UnstampedWriteInv, ReadInTxInv, StatementInv, StatementRefusedInv,
       CommitWriteInv, RollbackWriteInv, StampRowsInv, StampRowsFailsInv,
       ApplyCommitsInv, AdvancePastRemoteInv
    DEF Next
  <1>2. CASE UNCHANGED vars
    BY <1>2 DEF vars, context, transaction, history, Inv, TypeOK, ControlInv,
       ClockInv, PinInv, HeardInv, DriftInv, WithinDrift, Physical,
       AdvanceRefusedOnlyIfSetBack
  <1> QED
    BY <1>1, <1>2

-----------------------------------------------------------------------------
(* Theorems                                                                *)

\* The invariant holds of every state the clock can reach.
THEOREM Invariance == Spec => []Inv
  BY InitInv, StepInv, PTL DEF Spec

\* Types are kept by every operation of the clock.
THEOREM TypeCorrect == Spec => []TypeOK
  <1>1. Inv => TypeOK
    BY DEF Inv
  <1> QED
    BY <1>1, Invariance, PTL

\* All rows a Database::write transaction stamps carry the same HLC.
THEOREM OneHlc == Spec => []OneHlcPerTransaction
  <1>1. Inv => OneHlcPerTransaction
    BY DEF Inv, PinInv, OneHlcPerTransaction
  <1> QED
    BY <1>1, Invariance, PTL

\* While the database stays open, local stamps pass every applied remote HLC.
THEOREM PassHeard == Spec => []StampsPassHeard
  <1>1. Inv => StampsPassHeard
    BY DEF Inv, TypeOK, PinInv, HeardInv, StampsPassHeard
  <1> QED
    BY <1>1, Invariance, PTL

\* Only a wall clock set back between preflight and the advance makes
\* advance_past_remote fail.
THEOREM AdvanceRefusal == Spec => []AdvanceRefusedOnlyIfSetBack
  <1>1. Inv => AdvanceRefusedOnlyIfSetBack
    BY DEF Inv
  <1> QED
    BY <1>1, Invariance, PTL

\* No committed local HLC is ever used again: each commit's is greater than
\* all before it, over crashes and clock steps.
THEOREM NeverReissued == Spec => CommittedHlcsIncrease
  <1>1. ASSUME Inv, [Next]_vars
        PROVE  [issued' # issued => issued' > issued]_vars
    <2>1. CASE CommitWrite
      <3>1. stamps # {} => Newest(stamps) = hlcRow /\ hlcRow > persisted
        BY <1>1, NewestStampIsHlcRow
      <3> QED
        BY <1>1, <2>1, <3>1 DEF CommitWrite, Inv, TypeOK, ClockInv
    <2>2. CASE StampRows
      <3>1. wall \in Nat /\ last \in Nat
        BY <1>1 DEF Inv, TypeOK
      <3>2. NewTimestamp(last) > last /\ NewTimestamp(last) \in Nat
        BY <3>1, NewTimestampFresh
      <3> QED
        BY <1>1, <2>2, <3>1, <3>2 DEF StampRows, Idle, Inv, TypeOK, ClockInv
    <2>3. CASE UNCHANGED issued
      BY <2>3
    <2>4. CommitWrite \/ StampRows \/ UNCHANGED issued
      BY <1>1 DEF Next, vars, context, transaction, history, Tick, StepBack, Open,
         Crash, Probe, BeginWrite, UnstampedWrite, ReadInTx, Statement,
         StatementRefused, RollbackWrite, StampRowsFails, ApplyCommits,
         AdvancePastRemote
    <2> QED
      BY <2>1, <2>2, <2>3, <2>4
  <1> QED
    BY <1>1, Invariance, PTL DEF Spec, CommittedHlcsIncrease
=============================================================================
