----------------------------- MODULE RedisConn -----------------------------
(***************************************************************************)
(* Commands that use redis: the pool with its one connection to a node     *)
(* (redis/redis_mgr.cpp), the connection and the tasks that wait for it    *)
(* (redis/redis_context.cpp), and a command that sets and gets a key in    *)
(* several steps (cmd_test_redis.h).                                       *)
(*                                                                         *)
(* hiredis calls back: when a connection is made or fails, for every       *)
(* answer in the order of the requests, and when the server closes the     *)
(* connection, first with no answer for each request and then for the      *)
(* connection itself.                                                      *)
(***************************************************************************)
EXTENDS Integers, Sequences, SequencesExt

CONSTANTS
    Cmds,          \* commands
    oper,          \* command -> "read", "write" or "both"
    MaxConnects    \* bound: attempts to connect

ASSUME CmdsAssumption ==
    oper \in [Cmds -> {"read", "write", "both"}] /\ MaxConnects \in Nat

VARIABLES
    step,          \* command -> the step it is at
    answer,        \* command -> what it answered: sequence of "ok" and "error"
    conn,          \* the entry of m_conns: "none", "there" or "deleted"
    m_state,       \* of the connection
    m_ctx,         \* number of its context in hiredis, 0 if it has none
    m_wait_tasks,  \* tasks that wait for the connection
    replies,       \* hiredis: requests without an answer
    live,          \* hiredis: number of the context that is not freed, or 0
    connects,      \* attempts to connect so far
    called,        \* history: tasks called back
    stored         \* redis: commands whose value was set

redis == <<conn, m_state, m_ctx, m_wait_tasks, replies, live, connects>>
vars == <<step, answer, redis, called, stored>>

Task(c, op) == [cmd |-> c, op |-> op]
Tasks == {Task(c, op) : c \in Cmds, op \in {"set", "get"}}

Init ==
    /\ step = [c \in Cmds |-> "new"] /\ answer = [c \in Cmds |-> <<>>]
    /\ conn = "none" /\ m_state = "CLOSED" /\ m_ctx = 0 /\ m_wait_tasks = <<>>
    /\ replies = <<>> /\ live = 0 /\ connects = 0
    /\ called = <<>> /\ stored = {}

-----------------------------------------------------------------------------
(* RedisMgr::send_to, in a step of a command *)

is_active == m_state \in {"CONNECTING", "CONNECTED"}

\* connect, of a new connection or again of one that is closed: the task waits.
Connect(t) ==
    /\ conn = "none" \/ (conn = "there" /\ ~is_active)
    /\ connects < MaxConnects
    /\ connects' = connects + 1
    /\ conn' = "there" /\ m_state' = "CONNECTING" /\ m_ctx' = connects + 1
    /\ live' = connects + 1
    /\ m_wait_tasks' = <<t>>
    /\ UNCHANGED replies

\* redisAsyncConnect fails at once: the connection is deleted, but not its
\* entry in m_conns.
ConnectRefused ==
    /\ conn = "none" \/ (conn = "there" /\ ~is_active)
    /\ conn' = IF conn = "there" THEN "deleted" ELSE "none"
    /\ UNCHANGED <<m_state, m_ctx, m_wait_tasks, replies, live, connects>>

\* send_to of an active connection.
Queue(t) ==
    /\ conn = "there" /\ is_active
    /\ IF m_state = "CONNECTING"
       THEN m_wait_tasks' = Append(m_wait_tasks, t) /\ UNCHANGED replies
       ELSE replies' = Append(replies, t) /\ UNCHANGED m_wait_tasks
    /\ UNCHANGED <<conn, m_state, m_ctx, live, connects>>

\* A deleted connection is used: the task is lost, or refused.
Undefined == conn = "deleted" /\ UNCHANGED redis

Taken(t) == Connect(t) \/ Queue(t) \/ Undefined
Refused == ConnectRefused \/ Undefined

-----------------------------------------------------------------------------
(* CmdTestRedis::execute_steps *)

FirstOp(c) == IF oper[c] = "read" THEN "get" ELSE "set"

Ends(c, text) ==
    /\ step' = [step EXCEPT ![c] = "done"]
    /\ answer' = [answer EXCEPT ![c] = Append(@, text)]

\* The step that sends op, and the one that waits for its answer.
Send(c, op) ==
    \/ Taken(Task(c, op)) /\ step' = [step EXCEPT ![c] = op] /\ UNCHANGED answer
    \/ Refused /\ Ends(c, "error")

\* STEP_PARSE_REQUEST, and the step after it.
Execute(c) ==
    /\ step[c] = "new"
    /\ Send(c, FirstOp(c))
    /\ UNCHANGED <<called, stored>>

\* Network::on_cmd_timer: the command is deleted, without an answer.
Timeout(c) ==
    /\ step[c] \in {"set", "get"}
    /\ step' = [step EXCEPT ![c] = "gone"]
    /\ UNCHANGED <<answer, redis, called, stored>>

-----------------------------------------------------------------------------
(* Callbacks of hiredis *)

\* on_redis_callback with an error for each task, in order: a command that is
\* still there answers and ends.
CallBackAll(tasks) ==
    LET cmds == {tasks[i].cmd : i \in 1..Len(tasks)}
        here == {c \in cmds : step[c] \in {"set", "get"}}
    IN  /\ called' = called \o tasks
        /\ step' = [c \in Cmds |-> IF c \in here THEN "done" ELSE step[c]]
        /\ answer' = [c \in Cmds |-> IF c \in here THEN Append(answer[c], "error")
                                                   ELSE answer[c]]

\* on_redis_connect_callback with REDIS_OK: the tasks that waited are sent.
OnConnected ==
    /\ live # 0 /\ m_state = "CONNECTING"
    /\ m_state' = "CONNECTED"
    /\ replies' = replies \o m_wait_tasks /\ m_wait_tasks' = <<>>
    /\ UNCHANGED <<step, answer, conn, m_ctx, live, connects, called, stored>>

\* Mutant: the tasks that waited are forgotten.
OnConnectFailed_Drops ==
    /\ live # 0 /\ m_state = "CONNECTING"
    /\ m_ctx' = 0 /\ m_state' = "CLOSED" /\ live' = 0
    /\ m_wait_tasks' = <<>>
    /\ UNCHANGED <<step, answer, called, conn, replies, connects, stored>>

\* ... with REDIS_ERR: they are called back with an error.
OnConnectFailed ==
    /\ live # 0 /\ m_state = "CONNECTING"
    /\ m_ctx' = 0 /\ m_state' = "CLOSED" /\ live' = 0
    /\ CallBackAll(m_wait_tasks) /\ m_wait_tasks' = <<>>
    /\ UNCHANGED <<conn, replies, connects, stored>>

\* Mutant: without its command, an answer is not taken.
OnReply_Waits ==
    /\ live # 0 /\ m_state = "CONNECTED" /\ replies # <<>>
    /\ step[Head(replies).cmd] = Head(replies).op
    /\ called' = Append(called, Head(replies)) /\ replies' = Tail(replies)
    /\ Ends(Head(replies).cmd, "error")
    /\ UNCHANGED <<conn, m_state, m_ctx, m_wait_tasks, live, connects, stored>>

\* on_redis_callback with the answer to the first request.  handle_cmd_callback
\* finds the command by its id, unless it is gone, and the command goes on from
\* the step it is in; OK of a "set" that is not all leads to "get".
OnReply ==
    /\ live # 0 /\ m_state = "CONNECTED" /\ replies # <<>>
    /\ LET t == Head(replies)
           c == t.cmd
       IN  \E good \in BOOLEAN :
              /\ t.op = "get" /\ stored = {} => ~good
              /\ stored' = IF t.op = "set" /\ good THEN stored \cup {c} ELSE stored
              /\ called' = Append(called, t)
              /\ IF step[c] \notin {"set", "get"}
                 THEN replies' = Tail(replies) /\ UNCHANGED <<step, answer>>
                 ELSE IF good /\ step[c] = "set" /\ oper[c] # "write" THEN
                      /\ replies' = Append(Tail(replies), Task(c, "get"))
                      /\ step' = [step EXCEPT ![c] = "get"] /\ UNCHANGED answer
                 ELSE replies' = Tail(replies) /\ Ends(c, IF good THEN "ok" ELSE "error")
    /\ UNCHANGED <<conn, m_state, m_ctx, m_wait_tasks, live, connects>>

\* Mutant: the callback of the connection is not set.
OnDisconnected_Unnoticed ==
    /\ live # 0 /\ m_state = "CONNECTED"
    /\ live' = 0
    /\ CallBackAll(replies) /\ replies' = <<>>
    /\ \E done \in SUBSET {c \in Cmds : Contains(replies, Task(c, "set"))} :
          stored' = stored \cup done
    /\ UNCHANGED <<conn, m_state, m_ctx, m_wait_tasks, connects>>

\* The server closes the connection, some requests may be done: no answer for
\* each of them, then on_redis_connect_callback with REDIS_ERR (it is also the
\* callback of disconnections).
OnDisconnected ==
    /\ live # 0 /\ m_state = "CONNECTED"
    /\ m_ctx' = 0 /\ m_state' = "CLOSED" /\ live' = 0
    /\ CallBackAll(replies \o m_wait_tasks) /\ replies' = <<>> /\ m_wait_tasks' = <<>>
    /\ \E done \in SUBSET {c \in Cmds : Contains(replies, Task(c, "set"))} :
          stored' = stored \cup done
    /\ UNCHANGED <<conn, connects>>

-----------------------------------------------------------------------------
Next ==
    \/ \E c \in Cmds : Execute(c) \/ Timeout(c)
    \/ OnConnected \/ OnConnectFailed \/ OnReply \/ OnDisconnected

Spec == Init /\ [][Next]_vars

\* A connection is made or fails, a server answers as long as it is connected,
\* and the timer of a command fires in the end.
Fairness ==
    /\ WF_vars(OnConnected \/ OnConnectFailed)
    /\ WF_vars(OnReply)
    /\ \A c \in Cmds : WF_vars(Timeout(c))

FairSpec == Spec /\ Fairness

-----------------------------------------------------------------------------
(* Properties *)

\* Every variable has its type.
TypeOK ==
    /\ step \in [Cmds -> {"new", "set", "get", "done", "gone"}]
    /\ answer \in [Cmds -> Seq({"ok", "error"})]
    /\ conn \in {"none", "there", "deleted"}
    /\ m_state \in {"CONNECTING", "CONNECTED", "CLOSED"}
    /\ connects \in 0..MaxConnects /\ m_ctx \in 0..connects /\ live \in 0..connects
    /\ m_wait_tasks \in Seq(Tasks) /\ replies \in Seq(Tasks) /\ called \in Seq(Tasks)
    /\ stored \subseteq Cmds

Pending == INSTANCE TaskQueue WITH queue <- replies \o m_wait_tasks

\* Whatever becomes of the connection, each task that it took is called back
\* once and in order, those that wait for the connection (m_wait_tasks) too.
ImplementsTaskQueue == Pending!Spec

\* ... and it is called back in the end, even if the connection is never made.
CalledBackOnce ==
    /\ ImplementsTaskQueue
    /\ \A t \in Tasks : Contains(replies \o m_wait_tasks, t) ~> Contains(called, t)

\* The connection uses no context that hiredis has freed: a disconnection
\* reaches m_ctx (on_redis_disconnect_libev_callback), and m_state says whether
\* there is one.
ContextIsLive == TypeOK /\ m_ctx = live /\ (is_active <=> live # 0)

\* A command answers at most once, with "ok" only if redis did what it asked
\* (an answer never goes to another command's step), and what waits for redis
\* has a task there unless its connection was deleted under it (get_conn).
AnswersAreTrue ==
    \A c \in Cmds :
        /\ Len(answer[c]) <= 1
        /\ answer[c] = <<"ok">> /\ oper[c] # "read" => c \in stored
        /\ answer[c] = <<"ok">> => stored # {}
        /\ step[c] \in {"set", "get"} /\ conn # "deleted" =>
              Contains(replies \o m_wait_tasks, Task(c, step[c]))
=============================================================================
