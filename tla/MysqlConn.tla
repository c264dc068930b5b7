----------------------------- MODULE MysqlConn -----------------------------
(***************************************************************************)
(* One asynchronous connection to mysql (db/mysql_async_conn.cpp): a state *)
(* machine driven by one io watcher, a queue of tasks and a timer that     *)
(* pings while there is no connection.                                     *)
(*                                                                         *)
(* The handlers call each other, so the connection is one record and every *)
(* method is an operator from a connection to the connections it can end   *)
(* in: what the mysql library returns is not determined.  A task is a      *)
(* number, in the order in which add_task took them.  A command that       *)
(* queries again from its callback does so just before the handler that    *)
(* calls it back, which makes no difference.                               *)
(***************************************************************************)
EXTENDS Integers, Sequences, SequencesExt

CONSTANTS
    MaxTasks,   \* bound: tasks that are added
    Errors      \* what can go wrong: "lost" (the server has gone), "other"

ASSUME ConstantsAssumption == MaxTasks \in Nat /\ Errors \subseteq {"lost", "other"}

VARIABLES
    conn,    \* the MysqlAsyncConn
    added,   \* tasks taken by add_task so far
    done     \* history: tasks called back, in that order

vars == <<conn, added, done>>

MAX_DISCONNECT_TIME == 2

Events == {"read", "write"}
NoTask == 0

\* The library waits for the server: for any events, but for some.
Statuses == SUBSET Events \ {{}}

\* States in which the library works on the current task.
Operating == {"QUERY_WAITING", "EXECSQL_WAITING", "STORE_WAITING"}
States == {"NO_CONNECTED", "CONNECT_WAITING", "WAIT_OPERATE", "PING_WAITING"} \cup Operating

\* called: the callback of the current task is not set any more.
\* flags: m_reading and m_writing.  events: what the watcher waits for, none
\* if it is not active.  acks: the tasks called back by the present handler.
Conn == [state : States, connected : BOOLEAN, cnt : 0..(MAX_DISCONNECT_TIME + 1),
         flags : SUBSET Events, events : SUBSET Events,
         tasks : Seq(1..MaxTasks), cur : 0..MaxTasks, called : BOOLEAN,
         acks : Seq(1..MaxTasks)]

-----------------------------------------------------------------------------
(* Methods *)

set_state(c, s) == [c EXCEPT !.state = s]

stop_task(c) == [c EXCEPT !.events = {}]

set_connected(c, ok) ==
    IF ok THEN [c EXCEPT !.connected = TRUE, !.cnt = 0]
          ELSE set_state(stop_task([c EXCEPT !.connected = FALSE]), "NO_CONNECTED")

\* The watcher is (re)started only if a flag is new, and flags are never reset.
active_ev_io(c, status) ==
    IF status \subseteq c.flags THEN c
    ELSE [c EXCEPT !.flags = @ \cup status, !.events = @ \cup status]

wait_next_task(c) ==
    IF c.tasks = <<>> /\ c.cur = NoTask THEN c ELSE active_ev_io(c, {"write"})

\* Mutant: the callback stays set.
callback_Again(c) ==
    IF c.cur = NoTask THEN c ELSE [c EXCEPT !.acks = Append(@, c.cur), !.called = TRUE]

\* callback(m_cur_task): once for each task.
callback(c) ==
    IF c.cur = NoTask \/ c.called THEN c
    ELSE [c EXCEPT !.acks = Append(@, c.cur), !.called = TRUE]

clear_tasks(c) ==
    LET d == callback(stop_task(c))
    IN  [d EXCEPT !.cur = NoTask, !.acks = @ \o c.tasks, !.tasks = <<>>]

Waiting(c, s) == {active_ev_io(set_state(c, s), status) : status \in Statuses}

\* Connecting goes on, is done at once (m_is_connected stays what it was), or
\* fails.
connect_start(c) ==
    Waiting(c, "CONNECT_WAITING") \cup {set_state(c, "WAIT_OPERATE")}
    \cup {set_connected(c, FALSE) : e \in Errors}

\* The end of an operation, with the library's error.
handle_task(c, error) ==
    LET d    == callback(c)
        lost == set_connected(d, FALSE)
        more == [lost EXCEPT !.cnt = IF @ > MAX_DISCONNECT_TIME THEN @ ELSE @ + 1]
    IN  IF error = "lost"
        THEN IF lost.cnt = MAX_DISCONNECT_TIME THEN {clear_tasks(more)} ELSE connect_start(more)
        ELSE IF d.connected THEN {wait_next_task(set_state(d, "WAIT_OPERATE"))} ELSE {d}

EndsIn(c, errors) == UNION {handle_task(c, e) : e \in errors}

store_result_start(c) == Waiting(c, "STORE_WAITING") \cup EndsIn(c, Errors \cup {"ok"})

query_start(c) ==
    Waiting(c, "QUERY_WAITING") \cup store_result_start(c) \cup EndsIn(c, Errors)

exec_sql_start(c) == Waiting(c, "EXECSQL_WAITING") \cup EndsIn(c, Errors \cup {"ok"})

-----------------------------------------------------------------------------
(* What the loop calls *)

connect_wait(c) ==
    {c, wait_next_task(set_state(set_connected(c, TRUE), "WAIT_OPERATE"))}
    \cup {set_connected(c, FALSE) : e \in Errors}

query_wait(c) == {c} \cup store_result_start(c) \cup EndsIn(c, Errors)

exec_sql_wait(c) == {c} \cup EndsIn(c, Errors \cup {"ok"})

store_result_wait(c) == {c} \cup EndsIn(c, Errors \cup {"ok"})

\* Mutant: the last task stays.
operate_wait_KeepsTask(c) ==
    IF c.cur # NoTask THEN {c}
    ELSE IF c.tasks = <<>> THEN {stop_task(c)}
    ELSE LET d == [c EXCEPT !.cur = Head(c.tasks), !.called = FALSE, !.tasks = Tail(@)]
         IN  query_start(d) \cup exec_sql_start(d)

\* Deletes the last task and starts the next one, a query or another statement.
operate_wait(c) ==
    IF c.tasks = <<>> THEN {stop_task([c EXCEPT !.cur = NoTask, !.called = FALSE])}
    ELSE LET d == [c EXCEPT !.cur = Head(c.tasks), !.called = FALSE, !.tasks = Tail(@)]
         IN  query_start(d) \cup exec_sql_start(d)

ping_wait(c) ==
    {c} \cup {set_connected(c, FALSE) : e \in Errors}
    \cup (IF c.connected THEN {} ELSE handle_task(set_connected(c, TRUE), "ok"))

\* Mutant: it pings although there is a connection.
ping_start_Always(c) ==
    Waiting(c, "PING_WAITING") \cup {set_connected(c, TRUE)} \cup EndsIn(c, Errors)

ping_start(c) ==
    IF c.connected THEN {c}
    ELSE Waiting(c, "PING_WAITING") \cup {set_connected(c, TRUE)} \cup EndsIn(c, Errors)

wait_for_mysql(c) ==
    CASE c.state = "CONNECT_WAITING" -> connect_wait(c)
      [] c.state = "WAIT_OPERATE"    -> operate_wait(c)
      [] c.state = "QUERY_WAITING"   -> query_wait(c)
      [] c.state = "EXECSQL_WAITING" -> exec_sql_wait(c)
      [] c.state = "STORE_WAITING"   -> store_result_wait(c)
      [] c.state = "PING_WAITING"    -> ping_wait(c)
      [] c.state = "NO_CONNECTED"    -> {c}

-----------------------------------------------------------------------------
\* A handler ends with the connection c.
Becomes(c) ==
    /\ conn' = [c EXCEPT !.acks = <<>>]
    /\ done' = done \o c.acks

\* A connection as it is made, before init.
Fresh == [state |-> "NO_CONNECTED", connected |-> TRUE, cnt |-> 0, flags |-> {},
          events |-> {}, tasks |-> <<>>, cur |-> NoTask, called |-> FALSE, acks |-> <<>>]

Init ==
    /\ conn \in connect_start(Fresh)
    /\ added = 0
    /\ done = <<>>

\* add_task; without a connection it refuses and nothing changes.
AddTask ==
    /\ conn.connected /\ added < MaxTasks
    /\ added' = added + 1
    /\ Becomes(wait_next_task([conn EXCEPT !.tasks = Append(@, added + 1)]))

\* The socket can be written, which it mostly can, or read, which depends on
\* the server.
OnWrite ==
    /\ "write" \in conn.events
    /\ \E c \in wait_for_mysql(conn) : Becomes(c)
    /\ UNCHANGED added

OnRead ==
    /\ "read" \in conn.events
    /\ \E c \in wait_for_mysql(conn) : Becomes(c)
    /\ UNCHANGED added

OnTimer ==
    /\ \E c \in ping_start(conn) : Becomes(c)
    /\ UNCHANGED added

Next == AddTask \/ OnWrite \/ OnRead \/ OnTimer

Spec == Init /\ [][Next]_vars

\* Sockets can be written, and operations the library works on end; libev runs
\* the timer.
Fairness == WF_vars(OnWrite) /\ WF_vars(OnRead /\ conn.state # "WAIT_OPERATE") /\ WF_vars(OnTimer)

FairSpec == Spec /\ Fairness

-----------------------------------------------------------------------------
(* Properties *)

Unanswered == conn.cur # NoTask /\ ~conn.called

\* The tasks that wait for their callback.
Pending == (IF Unanswered THEN <<conn.cur>> ELSE <<>>) \o conn.tasks

\* Every variable has its type.
TypeOK == conn \in Conn /\ added \in 0..MaxTasks /\ done \in Seq(1..MaxTasks)

\* Every task is called back at most once and in the order of add_task, and
\* none is dropped, through lost connections, reconnections and clear_tasks
\* (callback, handle_task, operate_wait).
InOrder == done \o Pending = [i \in 1..added |-> i]

\* A task gets the result of its own operation: it is unanswered exactly
\* while the library works on it, and never when a connection attempt or a
\* ping ends, whose handlers call back too (ping_start, handle_task).
ResultIsOwn ==
    /\ TypeOK
    /\ Unanswered <=> conn.state \in Operating
    /\ Unanswered => conn.connected

\* A task is answered, whatever fails, unless the connection is lost or the
\* watcher stops waiting to write (operate_wait, handle_task).
WatchedTasksAnswered ==
    \A t \in 1..MaxTasks :
        t \in Range(Pending) ~>
            t \in Range(done) \/ conn.state = "NO_CONNECTED" \/ "write" \notin conn.events
=============================================================================
