---------------------------- MODULE ConnHandoff ----------------------------
(***************************************************************************)
(* What the gate promises about an accepted client connection: it has one  *)
(* owner at a time, the manager first, then at most one worker, for good.  *)
(* It is never handed from worker to worker, never taken back, and a       *)
(* connection that was given up stays so.                                  *)
(***************************************************************************)
CONSTANTS Conns, Workers

VARIABLE owner   \* connection -> <<"worker", w>>, or one of Places in a tuple

\* Nobody has accepted it, the manager holds it, nobody serves it any more.
Places == {"backlog", "manager", "gone"}

vars == owner

Init == owner = [k \in Conns |-> <<"backlog">>]

\* The owners a connection may have after o.
Successors(o) ==
    CASE o = <<"backlog">> -> {<<"manager">>, <<"gone">>} \cup {<<"worker", w>> : w \in Workers}
      [] o = <<"manager">> -> {<<"gone">>} \cup {<<"worker", w>> : w \in Workers}
      [] o = <<"gone">>    -> {}
      [] OTHER             -> {<<"gone">>}

\* Several connections may move in one step: a worker that dies takes all of
\* its connections with it.
Next ==
    /\ owner' \in [Conns -> {<<p>> : p \in Places} \cup {<<"worker", w>> : w \in Workers}]
    /\ \A k \in Conns : owner'[k] = owner[k] \/ owner'[k] \in Successors(owner[k])

Spec == Init /\ [][Next]_vars
=============================================================================
