----------------------------- MODULE MCNodeSync -----------------------------
(***************************************************************************)
(* Instances of NodeSync for TLC: a node that registers twice, the second  *)
(* time with fewer workers, and another node.  The ids <<h1, 2>> and       *)
(* <<h2, 1>> have a point in common.                                       *)
(***************************************************************************)
EXTENDS NodeSync

CONSTANTS p1, p2, p3, h1, h2

TheHosts == [p \in Paths |-> IF p = p3 THEN h2 ELSE h1]
TheWorkers == [p \in Paths |-> IF p = p1 THEN 2 ELSE 1]
TheTypes == [p \in Paths |-> "gate"]
TheTimes == [p \in Paths |-> IF p = p2 THEN 2 ELSE 1]
ThePoints ==
    [n \in NodeIds |-> CASE n = <<h1, 1>> -> {1, 4}
                         [] n = <<h1, 2>> -> {2, 5}
                         [] n = <<h2, 1>> -> {2, 3}]
=============================================================================
