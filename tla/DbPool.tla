------------------------------- MODULE DbPool -------------------------------
(***************************************************************************)
(* Commands that use mysql and sessions: the pools of connections          *)
(* (db/db_mgr.cpp), the table of sessions (session.cpp), and a command     *)
(* that inserts and queries in several steps and keeps what it read in a   *)
(* session (cmd_test_mysql.h).                                             *)
(*                                                                         *)
(* A connection is what MysqlConn shows of it: it takes tasks while it is  *)
(* connected, calls each back once and in order, may be lost with tasks    *)
(* in its queue, and may leave tasks waiting.  So commands rely on their   *)
(* timers; the count of timeouts is left to CmdTable.                      *)
(***************************************************************************)
EXTENDS Integers, Sequences, FiniteSets, FiniteSetsExt, SequencesExt

CONSTANTS
    Cmds, oper,       \* commands, and "read", "write" or "both" for each
    sessid,           \* command -> the key it reads, as the name of a session
    is_session,       \* command -> whether it looks in sessions
    re_active,        \* command -> whether it re-activates the session it finds
    Rows,             \* keys of which mysql has data
    node,             \* command -> the name of its database in m_dbs
    identity,         \* name -> host, port and database: the key of m_conns
    max_conn_cnt,     \* name -> most connections
    MaxLosses         \* bound: how often connections are lost

Nodes == DOMAIN identity
Keys == {sessid[c] : c \in Cmds}
Identities == {identity[n] : n \in Nodes}

ASSUME PoolAssumption ==
    /\ oper \in [Cmds -> {"read", "write", "both"}]
    /\ is_session \in [Cmds -> BOOLEAN] /\ re_active \in [Cmds -> BOOLEAN]
    /\ node \in [Cmds -> Nodes]
    /\ max_conn_cnt \in [Nodes -> Nat \ {0}]
    /\ MaxLosses \in Nat

VARIABLES
    step,        \* command -> "new", "insert", "query" or "done"
    answer,      \* command -> what it answered
    m_conns,     \* identity -> [list, iter]: its connections [up, tasks, uses],
                 \* and the place of its iterator, 0 if it is not valid
    m_sessions,  \* key -> "none", "idle" or "active" (since its timer started)
    refused,     \* history: commands whose task a connection did not take
    inserted,    \* mysql: commands that inserted, in that order
    found,       \* history: keys of which data was read
    losses       \* connections lost so far

vars == <<step, answer, m_conns, m_sessions, refused, inserted, found, losses>>

Task(c, op) == [cmd |-> c, op |-> op]
Tasks == {Task(c, op) : c \in Cmds, op \in {"insert", "query"}}

Init ==
    /\ step = [c \in Cmds |-> "new"] /\ answer = [c \in Cmds |-> <<>>]
    /\ m_conns = [i \in Identities |-> [list |-> <<>>, iter |-> 0]]
    /\ m_sessions = [k \in Keys |-> "none"]
    /\ refused = {} /\ inserted = <<>> /\ found = {} /\ losses = 0

-----------------------------------------------------------------------------
(* DBMgr: operators from the pools to [conns, at] for each possible outcome *)

\* A connection that was just made; is_connected before it is, unless
\* connecting fails at once (init returns true then, too).
New == {[up |-> up, tasks |-> <<>>, uses |-> 0] : up \in BOOLEAN}

\* Mutant: the iterator does not move.
get_conn_First(conns, n) ==
    LET i == identity[n]
    IN  IF Len(conns[i].list) < max_conn_cnt[n]
        THEN {[at |-> Len(conns[i].list) + 1, ok |-> TRUE,
               conns |-> [conns EXCEPT ![i] = [list |-> Append(@.list, c), iter |-> 1]]] :
                  c \in New}
        ELSE {[at |-> 1, ok |-> conns[i].list[1].up, conns |-> conns]}

\* Where the list is short a new connection is made; else it is the turn of
\* the next one, which is not used unless it is connected.  The first
\* connection of a list puts the iterator of the first entry of m_conns, which
\* may be another, to its beginning, and leaves its own in a list that is gone.
get_conn(conns, n) ==
    LET i == identity[n]
        list == conns[i].list
        turn == IF conns[i].iter = Len(list) THEN 1 ELSE conns[i].iter + 1
        begin == {j \in Identities : conns[j].list # <<>>} \cup {i}
    IN  CASE list = <<>> ->
               {[at |-> 1, ok |-> TRUE,
                 conns |-> [[conns EXCEPT ![i].list = <<c>>] EXCEPT ![j].iter = 1]] :
                    c \in New, j \in begin}
          [] list # <<>> /\ Len(list) < max_conn_cnt[n] ->
               {[at |-> Len(list) + 1, ok |-> TRUE,
                 conns |-> [conns EXCEPT ![i].list = Append(@, c)]] : c \in New}
          [] OTHER ->
               {[at |-> turn, ok |-> list[turn].up, conns |-> [conns EXCEPT ![i].iter = turn]]}

\* Mutant: a connection takes one task at a time.
add_task_Busy(conn, t) ==
    IF conn.up /\ conn.tasks = <<>> THEN [conn EXCEPT !.tasks = Append(@, t)] ELSE conn

add_task(conn, t) == IF conn.up THEN [conn EXCEPT !.tasks = Append(@, t)] ELSE conn

Used(conns, n, at) == [conns EXCEPT ![identity[n]].list[at].uses = @ + 1]

\* handle_sql does not look whether add_task took the task (taken).
handle_sql(conns, c, op) ==
    {LET i == identity[node[c]]
         used == Used(g.conns, node[c], g.at)
     IN  [ret |-> g.ok, taken |-> used[i].list[g.at].up,
          conns |-> IF g.ok THEN [used EXCEPT ![i].list[g.at] = add_task(@, Task(c, op))]
                            ELSE used] : g \in get_conn(conns, node[c])}

-----------------------------------------------------------------------------
(* Steps of a command, from the pools conns *)

Answer(c, a) ==
    /\ answer' = [answer EXCEPT ![c] = Append(@, a)]
    /\ step' = [step EXCEPT ![c] = "done"]

Submit(c, op, conns) ==
    \E h \in handle_sql(conns, c, op) :
        /\ m_conns' = h.conns
        /\ IF h.ret
           THEN /\ step' = [step EXCEPT ![c] = op] /\ UNCHANGED answer
                /\ refused' = IF h.taken THEN refused ELSE refused \cup {c}
           ELSE Answer(c, "error") /\ UNCHANGED refused

\* STEP_DATABASE_INSERT
InsertStep(c, conns) == Submit(c, "insert", conns) /\ UNCHANGED m_sessions

\* get_session
Activated(c) == [m_sessions EXCEPT ![sessid[c]] = IF re_active[c] THEN "active" ELSE @]

\* STEP_DATABASE_QUERY: from the session, if there is one.
QueryStep(c, conns) ==
    IF is_session[c] /\ m_sessions[sessid[c]] # "none"
    THEN /\ m_sessions' = Activated(c)
         /\ Answer(c, "session")
         /\ m_conns' = conns /\ UNCHANGED refused
    ELSE Submit(c, "query", conns) /\ UNCHANGED m_sessions

\* STEP_PARSE_REQUEST, in execute_cmd.
Execute(c) ==
    /\ step[c] = "new"
    /\ IF oper[c] = "read" THEN QueryStep(c, m_conns) ELSE InsertStep(c, m_conns)
    /\ UNCHANGED <<inserted, found, losses>>

\* STEP_DATABASE_INSERT_CALLBACK
InsertCallback(c, ok, conns) ==
    IF ok /\ oper[c] # "write" THEN QueryStep(c, conns)
    ELSE /\ Answer(c, IF ok THEN "ok" ELSE "error")
         /\ m_conns' = conns /\ UNCHANGED <<m_sessions, refused>>

\* Mutant: data is kept although there is none.
QueryCallback_Keeps(c, ok, conns) ==
    /\ Answer(c, IF ok /\ sessid[c] \in Rows THEN "ok" ELSE "error")
    /\ m_sessions' = IF is_session[c] THEN [m_sessions EXCEPT ![sessid[c]] = "idle"]
                                       ELSE m_sessions
    /\ m_conns' = conns /\ UNCHANGED refused

\* STEP_DATABASE_QUERY_CALLBACK: get_alloc_session and add_session; a session
\* that is there stays as it is.
QueryCallback(c, ok, conns) ==
    LET data == ok /\ sessid[c] \in Rows
    IN  /\ Answer(c, IF data THEN "ok" ELSE "error")
        /\ m_sessions' = IF data /\ is_session[c] /\ m_sessions[sessid[c]] = "none"
                         THEN [m_sessions EXCEPT ![sessid[c]] = "idle"] ELSE m_sessions
        /\ m_conns' = conns /\ UNCHANGED refused

\* on_mysql_exec_callback and on_mysql_query_callback: the connection calls its
\* first task back, with an error also if mysql has run it and its answer was
\* lost; one without mysql calls back what it has not sent (clear_tasks).
\* handle_cmd_callback finds the command by its id, unless it has timed out, and
\* the command goes on from the step it is in.
OnMysqlCallback(i, k) ==
    /\ m_conns[i].list[k].tasks # <<>>
    /\ \E run, ok \in {m_conns[i].list[k].up, FALSE} :
        LET t == Head(m_conns[i].list[k].tasks)
            conns == [m_conns EXCEPT ![i].list[k].tasks = Tail(@)]
        IN  /\ ok => run
            /\ inserted' = IF run /\ t.op = "insert" THEN Append(inserted, t.cmd) ELSE inserted
            /\ found' = IF ok /\ t.op = "query" THEN found \cup ({sessid[t.cmd]} \cap Rows)
                        ELSE found
            /\ CASE step[t.cmd] \notin {"insert", "query"} ->
                       m_conns' = conns /\ UNCHANGED <<step, answer, m_sessions, refused>>
                 [] step[t.cmd] = "insert" -> InsertCallback(t.cmd, ok, conns)
                 [] step[t.cmd] = "query" -> QueryCallback(t.cmd, ok, conns)
    /\ UNCHANGED losses

\* External: a connection is lost, and made again by its timer.
Lose(i, k) ==
    /\ m_conns[i].list[k].up /\ losses < MaxLosses
    /\ m_conns' = [m_conns EXCEPT ![i].list[k].up = FALSE]
    /\ losses' = losses + 1
    /\ UNCHANGED <<step, answer, m_sessions, refused, inserted, found>>

Restore(i, k) ==
    /\ ~m_conns[i].list[k].up
    /\ m_conns' = [m_conns EXCEPT ![i].list[k].up = TRUE]
    /\ UNCHANGED <<step, answer, m_sessions, refused, inserted, found, losses>>

-----------------------------------------------------------------------------
(* Timers *)

\* Mutant: only a command with a task has a timer.
OnCmdTimer_Taken(c) ==
    /\ step[c] \in {"insert", "query"} /\ c \notin refused
    /\ step' = [step EXCEPT ![c] = "done"]
    /\ UNCHANGED <<answer, m_conns, m_sessions, refused, inserted, found, losses>>

\* on_cmd_timer: its last timeout ends a command without an answer.
OnCmdTimer(c) ==
    /\ step[c] \in {"insert", "query"}
    /\ step' = [step EXCEPT ![c] = "done"]
    /\ UNCHANGED <<answer, m_conns, m_sessions, refused, inserted, found, losses>>

\* on_session_timer: the timer is started again for what is left; a session
\* that was not active is deleted, since on_timeout is not RUNNING.
OnSessionTimer(k) ==
    /\ m_sessions[k] # "none"
    /\ m_sessions' = [m_sessions EXCEPT ![k] = IF @ = "active" THEN "idle" ELSE "none"]
    /\ UNCHANGED <<step, answer, m_conns, refused, inserted, found, losses>>

Places == UNION {{<<i, k>> : k \in DOMAIN m_conns[i].list} : i \in Identities}

Next ==
    \/ \E c \in Cmds : Execute(c) \/ OnCmdTimer(c)
    \/ \E p \in Places : OnMysqlCallback(p[1], p[2]) \/ Lose(p[1], p[2]) \/ Restore(p[1], p[2])
    \/ \E k \in Keys : OnSessionTimer(k)

Spec == Init /\ [][Next]_vars

\* libev runs the timers of commands and of sessions.  Nothing makes a
\* connection call back.
FairSpec ==
    /\ Spec
    /\ \A c \in Cmds : WF_vars(OnCmdTimer(c))
    /\ \A k \in Keys : WF_vars(OnSessionTimer(k))

-----------------------------------------------------------------------------
\* Every variable has its type.
TypeOK ==
    /\ step \in [Cmds -> {"new", "insert", "query", "done"}]
    /\ \A c \in Cmds : Range(answer[c]) \subseteq {"ok", "error", "session"}
    /\ \A p \in Places : Range(m_conns[p[1]].list[p[2]].tasks) \subseteq Tasks
    /\ m_sessions \in [Keys -> {"none", "idle", "active"}]
    /\ refused \subseteq Cmds /\ found \subseteq Keys /\ losses \in 0..MaxLosses

\* A pool has no more connections than its largest name allows; its iterator
\* is in the list, and the connections are used in turn, lost ones included
\* (get_conn).  For one entry in m_conns, and names of one size.
UsedInTurn ==
    \A i \in Identities :
        LET p == m_conns[i]
            uses == {p.list[k].uses : k \in DOMAIN p.list}
        IN  /\ Len(p.list) <= Max({max_conn_cnt[n] : n \in {m \in Nodes : identity[m] = i}})
            /\ p.list # <<>> => p.iter \in DOMAIN p.list /\ Max(uses) - Min(uses) <= 1

\* Where the connections have the task t.
Queued(t) ==
    UNION {{<<p, j>> : j \in {j \in DOMAIN m_conns[p[1]].list[p[2]].tasks :
                                 m_conns[p[1]].list[p[2]].tasks[j] = t}} : p \in Places}

\* A command waits for exactly one task, in one queue and of its step, or for
\* nothing but its timer, if a connection without mysql was to take its task;
\* no task is queued twice, or before its command begins.  So no command is
\* called back twice for a step, however callbacks, losses, new connections and
\* timeouts follow each other (handle_sql, execute_steps).
TasksOfCommands ==
    TypeOK /\ \A c \in Cmds, op \in {"insert", "query"} :
        LET n == Cardinality(Queued(Task(c, op)))
        IN  /\ n <= 1
            /\ step[c] = op => (n = IF c \in refused THEN 0 ELSE 1)
            /\ step[c] = "new" => n = 0

\* A command answers at most once, and truly: what it says it wrote is in
\* mysql, once; what it says it read was read, by itself or by a command that
\* left it in a session (get_session, get_alloc_session).
AnswersTrue ==
    /\ IsInjective(inserted)
    /\ \A c \in Cmds :
        /\ Len(answer[c]) <= 1
        /\ answer[c] = <<"ok">> /\ oper[c] # "read" => c \in Range(inserted)
        /\ answer[c] \in {<<"ok">>, <<"session">>} /\ oper[c] # "write" => sessid[c] \in found
        /\ answer[c] = <<"session">> => is_session[c]

\* Every command ends, though its task was refused or is never called back
\* (execute_cmd, on_cmd_timer); and every session that is there is deleted some
\* time, however often commands find it, since they stop doing so
\* (on_session_timer).
AllEnds ==
    /\ \A c \in Cmds : step[c] # "new" ~> step[c] = "done"
    /\ \A k \in Keys : []<>(m_sessions[k] = "none")
=============================================================================
