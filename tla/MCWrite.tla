------------------------------ MODULE MCWrite -------------------------------
(* Write for TLC: a parent table, the name its rebuild uses, a child and a  *)
(* _no_sync table. Column m is a _no_sync column.                          *)
EXTENDS Write

S(op, table, other, col, size) ==
    [op |-> op, table |-> table, other |-> other, key |-> 1, col |-> col,
     same |-> FALSE, bytes |-> size, hlc |-> 0]
\* It writes the value that is there.
Same(s) == [s EXCEPT !.same = TRUE]

\* One row in the parent and one in the child, both drained.
OldRow == [hlc |-> 1, cols |-> [c \in Cols |-> IF c = "a" THEN 1 ELSE 0],
           given |-> [c \in Cols |-> None]]
OldTable(t) == [crdt |-> TRUE, cols |-> {"a", "m"}, trig |-> {[of |-> t, cols |-> {"a"}]},
                rows |-> [k \in Keys |-> OldRow], loose |-> FALSE]
LocalTable == [crdt |-> FALSE, cols |-> {"a", "m"}, trig |-> {}, rows |-> NoRows,
               loose |-> FALSE]
OneParentOneChild ==
    [tab |-> [t \in Names |-> CASE t \in {"p", "c"} -> OldTable(t)
                               [] t = "l" -> LocalTable
                               [] OTHER -> None],
     ref |-> "p", dirty |-> {}, log |-> {}, gate |-> TRUE, hlc |-> 1]

\* A table rebuild, an edit of each kind of table and column, with a new value and with
\* the old one, and the rename that is refused.
Migration ==
    {S("query", "p", "p", "a", 0),
     S("create", "n", "n", "a", 0), S("copy", "n", "p", "a", 0),
     S("drop", "p", "p", "a", 0), S("rename", "n", "p", "a", 0),
     S("add", "p", "p", "b", 0), S("remove", "p", "p", "b", 0),
     S("upsert", "n", "n", "a", 1), Same(S("upsert", "p", "p", "a", 1)),
     S("update", "p", "p", "b", 1), S("update", "p", "p", "m", 1),
     S("delete", "p", "p", "a", 1),
     S("insert", "l", "l", "a", 1),
     S("rename", "p", "l", "a", 0)}
=============================================================================
