----------------------------- MODULE MCStartup ------------------------------
(* Startup for TLC: five releases of a consumer meet on one file.          *)
EXTENDS Startup

MCNames == {"m1", "m2", "m3"}
MCContents == {"notes", "tags", "notes2", "clash"}
MCTables == {"notes", "tags"}
MCCreates ==
    [c \in MCContents |->
        CASE c = "tags" -> {"tags"}
          [] OTHER -> {"notes"}]

Ships(list, m1, v) ==
    [list |-> list, version |-> v,
     sql |-> [n \in MCNames |-> CASE n = "m1" -> m1 [] n = "m2" -> "tags" [] n = "m3" -> "clash"]]

\* The first release, one with a new table, one that edits an applied
\* migration, and one with newer triggers and a migration that fails.
MCRelease ==
    [p \in Procs |->
        CASE p = "first"  -> Ships(<<"m1">>, "notes", 1)
          [] p = "second" -> Ships(<<"m1", "m2">>, "notes", 1)
          [] p = "fork"   -> Ships(<<"m1">>, "notes2", 1)
          [] p = "third"  -> Ships(<<"m1", "m2">>, "notes", 2)
          [] p = "broken" -> Ships(<<"m1", "m3">>, "notes", 2)]

\* The second release opens the file through a link to a link.
MCPaths == {"vault", "link", "shortcut"}
MCLink == [x \in MCPaths |-> IF x = "shortcut" THEN "link" ELSE "vault"]
MCSpelling ==
    [p \in Procs |->
        CASE p = "second" -> "shortcut" [] p = "third" -> "link" [] OTHER -> "vault"]
=============================================================================
