------------------------------ MODULE Cleanup -------------------------------
(***************************************************************************)
(* cleanup_deleted_rows (crdt/cleanup): pruning haex_deleted_rows under a  *)
(* retention policy, with the caller's before_prune hook moving an         *)
(* anti-resurrection anchor in the same transaction.                       *)
(*                                                                         *)
(* The cutoff is taken from the persisted HLC, compared with the time part *)
(* of an entry's HLC as SQLite casts it to a signed integer. The hook is   *)
(* the caller's: it may move the persisted HLC and may fail. The process   *)
(* may die at any step; cleanup holds the connection mutex, so entries are *)
(* logged only between calls. It runs under with_fk_disabled, whose        *)
(* restoring of the pragma is in module Apply.                             *)
(***************************************************************************)
EXTENDS Integers

CONSTANTS
    Nodes,        \* node ids
    Self,         \* this database's node id
    Days,         \* retention windows in use, in days
    NsPerDay,     \* nanoseconds in a day
    TicksPerDay,  \* units of HLC time (2^-32 s) in a day
    SignedMax,    \* i64::MAX
    MaxTime       \* bound: latest HLC time

ASSUME CleanupConstants ==
    /\ Nodes \subseteq Nat /\ Self \in Nodes
    /\ Days \subseteq Nat
    /\ NsPerDay \in Nat \ {0} /\ TicksPerDay \in Nat \ {0}
    /\ SignedMax \in Nat
    /\ MaxTime \in Nat

Hlc == [t : 1..MaxTime, n : Nodes]
NoHlc == [t |-> 0, n |-> 0]              \* SQL NULL
All == [all |-> TRUE, days |-> 0]
Policies == {All} \cup [all : {FALSE}, days : Days]

\* compare_hlc_strings.
Before(g, h) == g.t < h.t \/ (g.t = h.t /\ g.n < h.n)

VARIABLES
    log,       \* HLCs of the committed delete log
    stored,    \* time of the committed 'hlc' config row, 0 for no row
    anchor,    \* the caller's committed anchor
    phase,     \* where the call is
    policy,    \* the call's RetentionPolicy
    cutoff,    \* compute_cutoff's result
    reported,  \* max_pruned_hlc
    txLog, txStored, txAnchor,   \* the same as the transaction sees them
    pruned     \* history: every entry a committed call removed

call == <<policy, cutoff, reported>>
tx == <<txLog, txStored, txAnchor>>
vars == <<log, stored, anchor, phase, call, tx, pruned>>

None == -1

TypeOK ==
    /\ log \subseteq Hlc \cup {NoHlc}
    /\ stored \in 0..MaxTime
    /\ anchor \in Hlc \cup {NoHlc}
    /\ phase \in {"idle", "hook", "delete", "commit"}
    /\ policy \in Policies
    /\ cutoff \in None..SignedMax
    /\ reported \in Hlc \cup {NoHlc}
    /\ txLog \subseteq log
    /\ txStored \in 0..MaxTime
    /\ txAnchor \in Hlc \cup {NoHlc}
    /\ pruned \subseteq Hlc

-----------------------------------------------------------------------------
\* compute_cutoff_hlc_num: saturating, and nothing when it exceeds i64.
CutoffNum(now, days) ==
    LET retention == days * NsPerDay
        c == IF retention > now THEN 0 ELSE now - retention IN
    IF c > SignedMax THEN None ELSE c

\* compute_cutoff.
Cutoff(p, now) == IF p.all \/ now = 0 THEN None ELSE CutoffNum(now, p.days)

\* CAST(... AS INTEGER) of the time part: it saturates.
AsInteger(h) == IF h.t > SignedMax THEN SignedMax ELSE h.t

\* Fault: entries without an HLC match RetentionPolicy::All.
PrunableUntimed(L, p, c) ==
    {h \in L : p.all \/ (h # NoHlc /\ c # None /\ AsInteger(h) < c)}

\* The WHERE clause of both policies.
Prunable(L, p, c) ==
    {h \in L \ {NoHlc} : p.all \/ (c # None /\ AsInteger(h) < c)}

\* read_max_prunable_hlc: ORDER BY the integer, LIMIT 1.
MaxPrunable(L, p, c) ==
    LET P == Prunable(L, p, c) IN
    IF P = {} THEN {NoHlc}
    ELSE {h \in P : \A g \in P : AsInteger(g) <= AsInteger(h)}

-----------------------------------------------------------------------------
Init ==
    /\ log = {} /\ stored = 0 /\ anchor = NoHlc
    /\ phase = "idle"
    /\ policy = All /\ cutoff = None /\ reported = NoHlc
    /\ txLog = {} /\ txStored = 0 /\ txAnchor = NoHlc
    /\ pruned = {}

\* The call is over and no transaction is open.
Closed ==
    /\ phase' = "idle"
    /\ policy' = All /\ cutoff' = None /\ reported' = NoHlc
    /\ txLog' = {} /\ txStored' = 0 /\ txAnchor' = NoHlc

\* A local delete stamps its entry and persists the HLC.
LogLocal(h) ==
    /\ phase = "idle"
    /\ h.n = Self /\ h.t > stored
    /\ log' = log \cup {h}
    /\ stored' = h.t
    /\ UNCHANGED <<anchor, phase, call, tx, pruned>>

\* An entry of a peer, or one that a raw connection left without an HLC.
LogRemote(h) ==
    /\ phase = "idle"
    /\ log' = log \cup {h}
    /\ UNCHANGED <<stored, anchor, phase, call, tx, pruned>>

\* The transaction starts; cutoff and maximum are fixed before the hook.
Start(p) ==
    /\ phase = "idle"
    /\ policy' = p
    /\ cutoff' = Cutoff(p, stored)
    /\ reported' \in MaxPrunable(log, p, cutoff')
    /\ txLog' = log /\ txStored' = stored /\ txAnchor' = anchor
    /\ phase' = "hook"
    /\ UNCHANGED <<log, stored, anchor, pruned>>

\* before_prune: the anchor moves past the reported maximum, in this
\* transaction, and the persisted HLC may move as well.
BeforePrune(now) ==
    /\ phase = "hook"
    /\ txAnchor' = IF Before(txAnchor, reported) THEN reported ELSE txAnchor
    /\ now >= txStored /\ txStored' = now
    /\ phase' = "delete"
    /\ UNCHANGED <<log, stored, anchor, call, txLog, pruned>>

\* Fault: the cutoff is computed again after the hook.
PruneRecomputed ==
    /\ phase = "delete"
    /\ txLog' = txLog \ Prunable(txLog, policy, Cutoff(policy, txStored))
    /\ phase' = "commit"
    /\ UNCHANGED <<log, stored, anchor, call, txStored, txAnchor, pruned>>

\* The DELETE.
Prune ==
    /\ phase = "delete"
    /\ txLog' = txLog \ Prunable(txLog, policy, cutoff)
    /\ phase' = "commit"
    /\ UNCHANGED <<log, stored, anchor, call, txStored, txAnchor, pruned>>

\* Fault: the anchor is left for a later transaction.
CommitWithoutAnchor ==
    /\ phase = "commit"
    /\ log' = txLog /\ stored' = txStored
    /\ pruned' = pruned \cup (log \ txLog)
    /\ Closed
    /\ UNCHANGED anchor

Commit ==
    /\ phase = "commit"
    /\ log' = txLog /\ stored' = txStored /\ anchor' = txAnchor
    /\ pruned' = pruned \cup (log \ txLog)
    /\ Closed

\* The hook or a statement fails, a panic unwinds, or the process dies: the
\* transaction is rolled back.
Rollback ==
    /\ phase # "idle"
    /\ Closed
    /\ UNCHANGED <<log, stored, anchor, pruned>>

Next ==
    \/ \E h \in Hlc : LogLocal(h) \/ LogRemote(h)
    \/ LogRemote(NoHlc)
    \/ \E p \in Policies : Start(p)
    \/ \E now \in 0..MaxTime : BeforePrune(now)
    \/ Prune \/ Commit \/ Rollback

Spec == Init /\ [][Next]_vars

-----------------------------------------------------------------------------
(* Properties                                                              *)

\* "Advancing an anchor after the delete instead would leave a resurrection
\* window": whenever an entry is gone for good, the anchor the hook stored
\* already has its time or a later one, at whichever step the process died
\* and however often cleanup ran. Entries without an HLC are never removed.
\* Times compare as far as SQLite's integers tell them apart.
AnchorCovers == \A h \in pruned : h # NoHlc /\ AsInteger(h) <= AsInteger(anchor)

\* "The reported maximum and the DELETE always cover the same rows", though
\* the hook moved the persisted HLC in between: the reported entry is one of
\* those removed, none removed has a later time, and nothing is reported when
\* nothing is removed.
ReportCoversDelete ==
    phase = "commit" =>
        LET removed == log \ txLog IN
        IF reported = NoHlc THEN removed = {}
        ELSE /\ reported \in removed
             /\ \A h \in removed : AsInteger(h) <= AsInteger(reported)

\* "Prune entries whose HLC time-part is more than `days` older than the
\* current HLC." It does not hold: the window is counted in nanoseconds, the
\* time part in units of 2^-32 s, of which a day has four times as many.
RetentionKept ==
    phase = "commit" /\ ~policy.all =>
        \A h \in log \ txLog : stored - h.t > policy.days * TicksPerDay
=============================================================================
