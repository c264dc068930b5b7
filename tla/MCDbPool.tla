----------------------------- MODULE MCDbPool -----------------------------
(***************************************************************************)
(* An instance of DbPool for TLC: two names for one database.  Three       *)
(* commands read a key with a session, one of them after it has written;   *)
(* one writes.                                                             *)
(***************************************************************************)
EXTENDS DbPool

CONSTANTS r, s, b, w, k1

TheOpers == [c \in Cmds |-> CASE c \in {r, s} -> "read" [] c = b -> "both" [] c = w -> "write"]
TheKeys == [c \in Cmds |-> k1]
TheSessions == [c \in Cmds |-> c # w]
TheActive == [c \in Cmds |-> c = s]
TheNodes == [c \in Cmds |-> IF c = w THEN "test2" ELSE "test"]
TheIdentity == [n \in {"test", "test2"} |-> "mysql"]
TheMax == [n \in {"test", "test2"} |-> 2]
=============================================================================
