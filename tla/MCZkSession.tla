---------------------------- MODULE MCZkSession ----------------------------
(***************************************************************************)
(* An instance of ZkSession for TLC: a gate that can register a few times, *)
(* and a logic node.                                                       *)
(***************************************************************************)
EXTENDS ZkSession

CONSTANTS g1, g2, l1, h1, h2

TheHosts == [p \in Paths |-> IF p \in Mine THEN h1 ELSE h2]
TheTypes == [p \in Paths |-> IF p \in Mine THEN "gate" ELSE "logic"]
TheWorkers == [p \in Paths |-> 1]
TheTimes == [p \in Paths |-> IF p = g2 THEN 2 ELSE 1]
ThePoints == [n \in NodeIds |-> IF n[1] = h1 THEN {1} ELSE {2}]
TheSubscriptions == <<"gate", "logic">>
=============================================================================
