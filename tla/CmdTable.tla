------------------------------ MODULE CmdTable ------------------------------
(***************************************************************************)
(* How a worker serves requests: the connections m_conns, the commands     *)
(* m_cmds that wait for redis, mysql or another node, and the timers of    *)
(* both (network.cpp, module.cpp, module.h, cmd.cpp, module_mgr.cpp).      *)
(*                                                                         *)
(* A command is a state machine of steps.  It ends, or it sends something  *)
(* and waits for the answer, which finds it again by its id.  In the       *)
(* meantime the client may go away, its descriptor number may be given to  *)
(* another client, the command may time out, and the answer may come late  *)
(* or never.                                                               *)
(*                                                                         *)
(* The worker is one thread, so each handler is one step.  Time is         *)
(* abstracted to the one thing the timers ask for: has there been activity *)
(* since the timer was set?                                                *)
(***************************************************************************)
EXTENDS Integers, Sequences, FiniteSets

CONSTANTS
    Fds,       \* descriptor numbers of the worker
    MaxSeq,    \* bound: sequence numbers given out
    MaxSteps   \* bound: answers a command waits for, one after the other

ASSUME ConstantsAssumption ==
    /\ MaxSeq \in Nat
    /\ MaxSeq < 2147483647   \* MsgHead.seq has 32 bits: an ack carries the whole id
    /\ MaxSteps \in Nat

VARIABLES
    m_seq,        \* the last sequence number: ids of connections and commands
    m_conns,      \* fd -> id of the connection open on it, 0 if none
    conn_active,  \* ids of connections with activity since their timer was set
    conn_timers,  \* ids of connections whose io timer is running
    m_cmds,       \* id -> command that waits
    cmd_active,   \* ids of commands with activity since their timer was set
    cmd_timers,   \* ids of commands whose timer is running
    calls,        \* what was sent and is not answered yet
    asker,        \* history: command -> id of the connection that asked
    replies       \* history: command -> ids of the connections it replied to

conns == <<m_conns, conn_active, conn_timers>>
cmds == <<m_cmds, cmd_active, cmd_timers>>
vars == <<m_seq, conns, cmds, calls, asker, replies>>

CMD_MAX_TIMEOUT_CNT == 3

-----------------------------------------------------------------------------
Ids == 1..MaxSeq

\* fd and conn are the fd_t of the request, cnt is m_cur_timeout_cnt.
Cmd == [fd : Fds, conn : Ids, step : 1..MaxSteps, cnt : 0..(CMD_MAX_TIMEOUT_CNT - 1)]

\* wait_cmd_info_t of a call to redis or mysql; of a message to another node
\* nothing is kept but the seq the ack will carry.
Call == [cmd : Ids, step : 1..MaxSteps, to : {"db", "node"}]

OpenConns == {m_conns[fd] : fd \in Fds} \ {0}

\* Mutant: the number alone is looked up.
get_conn_AnyId(fd, id) == m_conns[fd] # 0

\* Network::get_conn finds the connection.
get_conn(fd, id) == m_conns[fd] # 0 /\ m_conns[fd] = id

\* Network::close_conn.
close_conn(fd) ==
    /\ m_conns' = [m_conns EXCEPT ![fd] = 0]
    /\ conn_active' = conn_active \ {m_conns[fd]}
    /\ conn_timers' = conn_timers \ {m_conns[fd]}

\* Network::add_cmd and add_cmd_timer.
add_cmd(id, c) ==
    /\ m_cmds' = [i \in DOMAIN m_cmds \cup {id} |-> IF i = id THEN c ELSE m_cmds[i]]
    /\ cmd_timers' = cmd_timers \cup {id}

\* Mutant: the timer of the command runs on.
del_cmd_KeepsTimer(id) ==
    /\ m_cmds' = [i \in DOMAIN m_cmds \ {id} |-> m_cmds[i]]
    /\ cmd_active' = cmd_active \ {id}
    /\ UNCHANGED cmd_timers

\* Network::del_cmd.
del_cmd(id) ==
    /\ m_cmds' = [i \in DOMAIN m_cmds \ {id} |-> m_cmds[i]]
    /\ cmd_active' = cmd_active \ {id}
    /\ cmd_timers' = cmd_timers \ {id}

\* send_to with the fd_t of the request, by response_http or response_tcp:
\* nothing if get_conn does not find the connection; if the write fails, the
\* connection is closed.
Respond(id, fd, conn) ==
    \/ /\ ~get_conn(fd, conn)
       /\ UNCHANGED <<conns, replies>>
    \/ /\ get_conn(fd, conn)
       /\ replies' = [replies EXCEPT ![id] = Append(@, m_conns[fd])]
       /\ conn_active' = conn_active \cup {m_conns[fd]}
       /\ UNCHANGED <<m_conns, conn_timers>>
    \/ /\ get_conn(fd, conn)
       /\ close_conn(fd)
       /\ UNCHANGED replies

-----------------------------------------------------------------------------
Init ==
    /\ m_seq = 0
    /\ m_conns = [fd \in Fds |-> 0]
    /\ conn_active = {} /\ conn_timers = {}
    /\ m_cmds = <<>>
    /\ cmd_active = {} /\ cmd_timers = {}
    /\ calls = {}
    /\ asker = [id \in Ids |-> 0]
    /\ replies = [id \in Ids |-> <<>>]

\* read_transfer_fd: a client gets a free number, a new id and an io timer.
OpenConn(fd) ==
    /\ m_seq < MaxSeq /\ m_conns[fd] = 0
    /\ m_seq' = m_seq + 1
    /\ m_conns' = [m_conns EXCEPT ![fd] = m_seq + 1]
    /\ conn_timers' = conn_timers \cup {m_seq + 1}
    /\ UNCHANGED <<conn_active, cmds, calls, asker, replies>>

\* Bytes arrived, but no request yet.
ReadPart(fd) ==
    /\ m_conns[fd] # 0
    /\ conn_active' = conn_active \cup {m_conns[fd]}
    /\ UNCHANGED <<m_seq, m_conns, conn_timers, cmds, calls, asker, replies>>

\* The client has closed the connection, or reading failed.
ReadClosed(fd) ==
    /\ m_conns[fd] # 0
    /\ close_conn(fd)
    /\ UNCHANGED <<m_seq, cmds, calls, asker, replies>>

\* A request arrives and gets a new command (HANDLE_CMD).
NewCmd(fd) ==
    /\ m_seq < MaxSeq /\ m_conns[fd] # 0
    /\ m_seq' = m_seq + 1
    /\ asker' = [asker EXCEPT ![m_seq + 1] = m_conns[fd]]

\* Its execute ended it at once, with a response or without.
RequestDone(fd) ==
    /\ NewCmd(fd)
    /\ \/ Respond(m_seq + 1, fd, m_conns[fd])
       \/ /\ conn_active' = conn_active \cup {m_conns[fd]}
          /\ UNCHANGED <<m_conns, conn_timers, replies>>
    /\ UNCHANGED <<cmds, calls>>

\* Its execute sent something, or nothing at all, and returned RUNNING: it is
\* entered and gets a timer.  If there is no timer, it is deleted although
\* its answer is on its way.
RequestRunning(fd) ==
    /\ NewCmd(fd) /\ MaxSteps > 0
    /\ conn_active' = conn_active \cup {m_conns[fd]}
    /\ \/ calls' = calls
       \/ \E to \in {"db", "node"} :
             calls' = calls \cup {[cmd |-> m_seq + 1, step |-> 1, to |-> to]}
    /\ \/ add_cmd(m_seq + 1, [fd |-> fd, conn |-> m_conns[fd], step |-> 1, cnt |-> 0])
       \/ UNCHANGED <<m_cmds, cmd_timers>>
    /\ UNCHANGED <<m_conns, conn_timers, cmd_active, replies>>

-----------------------------------------------------------------------------
(* Answers *)

\* No command of that id (any more).
CallbackLate(call) ==
    /\ call.cmd \notin DOMAIN m_cmds
    /\ calls' = calls \ {call}
    /\ UNCHANGED <<m_seq, conns, cmds, asker, replies>>

\* on_callback sent the next call.  handle_cmd_callback refreshes the active
\* time, process_ack does not.
CallbackNext(call) ==
    /\ call.cmd \in DOMAIN m_cmds /\ m_cmds[call.cmd].step < MaxSteps
    /\ m_cmds' = [m_cmds EXCEPT ![call.cmd].step = @ + 1]
    /\ cmd_active' = IF call.to = "db" THEN cmd_active \cup {call.cmd} ELSE cmd_active
    /\ \E to \in {"db", "node"} :
          calls' = (calls \ {call}) \cup
                   {[cmd |-> call.cmd, step |-> m_cmds[call.cmd].step + 1, to |-> to]}
    /\ UNCHANGED <<m_seq, conns, cmd_timers, asker, replies>>

\* on_callback ended the command, with a response or without.
CallbackDone(call) ==
    /\ call.cmd \in DOMAIN m_cmds
    /\ calls' = calls \ {call}
    /\ \/ Respond(call.cmd, m_cmds[call.cmd].fd, m_cmds[call.cmd].conn)
       \/ UNCHANGED <<conns, replies>>
    /\ del_cmd(call.cmd)
    /\ UNCHANGED <<m_seq, asker>>

\* The answer will never come: the connection to the node broke, or mysql's
\* task queue did not take the task.
CallLost(call) ==
    /\ calls' = calls \ {call}
    /\ UNCHANGED <<m_seq, conns, cmds, asker, replies>>

-----------------------------------------------------------------------------
(* Timers *)

\* Mutant: a timeout is not counted.
OnCmdTimer_NoCount(id) ==
    /\ id \in cmd_timers
    /\ \/ /\ id \in cmd_active
          /\ cmd_active' = cmd_active \ {id}
          /\ UNCHANGED <<m_cmds, cmd_timers>>
       \/ /\ id \notin cmd_active
          /\ IF get_conn(m_cmds[id].fd, m_cmds[id].conn) THEN UNCHANGED cmds
                                                         ELSE del_cmd(id)
    /\ UNCHANGED <<m_seq, conns, calls, asker, replies>>

\* Mutant: a command that timed out sends its call again.
OnCmdTimer_Resends(id) ==
    /\ id \in cmd_timers \ cmd_active
    /\ IF /\ m_cmds[id].cnt + 1 < CMD_MAX_TIMEOUT_CNT
          /\ get_conn(m_cmds[id].fd, m_cmds[id].conn)
       THEN /\ m_cmds' = [m_cmds EXCEPT ![id].cnt = @ + 1]
            /\ calls' = calls \cup {[cmd |-> id, step |-> m_cmds[id].step, to |-> "node"]}
            /\ UNCHANGED <<cmd_active, cmd_timers>>
       ELSE del_cmd(id) /\ UNCHANGED calls
    /\ UNCHANGED <<m_seq, conns, asker, replies>>

\* on_cmd_timer: with activity, wait for the rest of the time; otherwise the
\* command gets another period, unless it has had all of them or its client
\* is gone.  Nothing is sent to the client.
OnCmdTimer(id) ==
    /\ id \in cmd_timers
    /\ \/ /\ id \in cmd_active
          /\ cmd_active' = cmd_active \ {id}
          /\ UNCHANGED <<m_cmds, cmd_timers>>
       \/ /\ id \notin cmd_active
          /\ IF /\ m_cmds[id].cnt + 1 < CMD_MAX_TIMEOUT_CNT
                /\ get_conn(m_cmds[id].fd, m_cmds[id].conn)
             THEN /\ m_cmds' = [m_cmds EXCEPT ![id].cnt = @ + 1]
                  /\ UNCHANGED <<cmd_active, cmd_timers>>
             ELSE del_cmd(id)
    /\ UNCHANGED <<m_seq, conns, calls, asker, replies>>

\* Mutant: the timer is started again in any case.
OnIoTimer_Restarts(fd) ==
    /\ m_conns[fd] \in conn_timers
    /\ conn_active' = conn_active \ {m_conns[fd]}
    /\ UNCHANGED <<m_seq, m_conns, conn_timers, cmds, calls, asker, replies>>

\* on_io_timer: a connection without activity for a whole period is closed.
OnIoTimer(fd) ==
    /\ m_conns[fd] \in conn_timers
    /\ \/ /\ m_conns[fd] \in conn_active
          /\ conn_active' = conn_active \ {m_conns[fd]}
          /\ UNCHANGED <<m_conns, conn_timers>>
       \/ /\ m_conns[fd] \notin conn_active
          /\ close_conn(fd)
    /\ UNCHANGED <<m_seq, cmds, calls, asker, replies>>

-----------------------------------------------------------------------------
Next ==
    \/ \E fd \in Fds :
          \/ OpenConn(fd) \/ ReadPart(fd) \/ ReadClosed(fd)
          \/ RequestDone(fd) \/ RequestRunning(fd)
          \/ OnIoTimer(fd)
    \/ \E call \in calls :
          \/ CallbackLate(call) \/ CallbackNext(call) \/ CallbackDone(call)
          \/ CallLost(call)
    \/ \E id \in Ids : OnCmdTimer(id)

Spec == Init /\ [][Next]_vars

\* Timers that run expire.  Nothing is assumed of clients or of answers.
Fairness ==
    /\ \A id \in Ids : WF_vars(OnCmdTimer(id))
    /\ \A fd \in Fds : WF_vars(OnIoTimer(fd))

FairSpec == Spec /\ Fairness

-----------------------------------------------------------------------------
(* Properties *)

\* Every variable has its type; a command never has more timeouts behind it
\* than on_cmd_timer allows.
TypeOK ==
    /\ m_seq \in 0..MaxSeq
    /\ m_conns \in [Fds -> Ids \cup {0}]
    /\ conn_active \subseteq Ids /\ conn_timers \subseteq Ids
    /\ DOMAIN m_cmds \subseteq Ids
    /\ m_cmds \in [DOMAIN m_cmds -> Cmd]
    /\ cmd_active \subseteq Ids /\ cmd_timers \subseteq Ids
    /\ calls \subseteq Call
    /\ asker \in [Ids -> Ids \cup {0}]
    /\ replies \in [Ids -> Seq(Ids)]

\* A request is answered at most once, and only on the connection it came
\* from: never on one that has since been opened on the same descriptor
\* number, and not again by a late or second callback (get_conn compares the
\* id, handle_cmd_callback finds live commands only).
RepliesToAsker ==
    \A id \in Ids : replies[id] = <<>> \/ (replies[id] = <<asker[id]>> /\ asker[id] # 0)

\* Every open connection and every waiting command has its timer running, so
\* that it cannot stay for ever; and no timer is left of one that is gone,
\* whose handler would use a deleted object (close_conn, del_cmd).
TimersMatch ==
    /\ conn_timers = OpenConns
    /\ cmd_timers = DOMAIN m_cmds

\* Whatever is on its way for a living command answers the call it is waiting
\* for: an answer never arrives at a later step of the command, although
\* handle_cmd_callback does not look at the step that made the call.
AnswersCurrentStep ==
    /\ \A call \in calls :
          call.cmd \in DOMAIN m_cmds => call.step = m_cmds[call.cmd].step
    /\ \A a, b \in calls : a.cmd = b.cmd => a = b

\* A command that waits ends: by its answer or by its timeouts, even if the
\* answer is lost, and whatever the client does.
CmdsEnd == \A id \in Ids : id \in DOMAIN m_cmds ~> id \notin DOMAIN m_cmds

\* A connection on which nothing happens any more is closed (on_io_timer).
SilentConnsClosed == \A id \in Ids : ~<>[](id \in OpenConns \ conn_active)
=============================================================================
