---------------------------- MODULE MCRedisConn ----------------------------
(***************************************************************************)
(* An instance of RedisConn for TLC: a command of each kind, and a second  *)
(* one that writes.                                                        *)
(***************************************************************************)
EXTENDS RedisConn

CONSTANTS r, w, v, b

TheOpers == [c \in Cmds |-> CASE c = r -> "read" [] c = b -> "both" [] OTHER -> "write"]
=============================================================================
