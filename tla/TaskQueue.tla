----------------------------- MODULE TaskQueue -----------------------------
(***************************************************************************)
(* What an asynchronous client promises the commands of a worker: a task   *)
(* that it takes is called back once, in the order in which tasks were     *)
(* taken, by an answer for the first of them or by a failure that ends     *)
(* several at once.  A command that is called back may have another task.  *)
(***************************************************************************)
EXTENDS Integers, Sequences

CONSTANT Tasks

VARIABLES
    queue,   \* tasks taken and not called back, in order
    called   \* tasks called back, in order

vars == <<queue, called>>

Init == queue = <<>> /\ called = <<>>

New == {t \in Tasks : \A i \in 1..Len(queue) : queue[i] # t}

Take(t) == queue' = Append(queue, t) /\ UNCHANGED called

CallBack(n, more) ==
    /\ called' = called \o SubSeq(queue, 1, n)
    /\ queue' = SubSeq(queue, n + 1, Len(queue)) \o more

Next ==
    \/ \E t \in New : Take(t)
    \/ \E n \in 1..Len(queue), more \in {<<>>} \cup {<<t>> : t \in New} : CallBack(n, more)

Spec == Init /\ [][Next]_vars
=============================================================================
