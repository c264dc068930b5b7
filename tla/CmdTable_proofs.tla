-------------------------- MODULE CmdTable_proofs --------------------------
(***************************************************************************)
(* Proofs about CmdTable, for any descriptors, any number of ids and any   *)
(* number of steps.                                                        *)
(***************************************************************************)
EXTENDS CmdTable, TLAPS

\* Ids that were not given out yet are used nowhere.
FreshIds ==
    \A id \in Ids : id > m_seq =>
        /\ id \notin DOMAIN m_cmds
        /\ \A call \in calls : call.cmd # id
        /\ \A fd \in Fds : m_conns[fd] # id
        /\ replies[id] = <<>>

\* A connection is open on one number only.
OneNumber ==
    \A fd, gd \in Fds : m_conns[fd] = m_conns[gd] /\ m_conns[fd] # 0 => fd = gd

\* A command that waits has not replied yet, and replies to whoever asked.
WaitingUnanswered ==
    \A id \in DOMAIN m_cmds : replies[id] = <<>> /\ asker[id] = m_cmds[id].conn

\* The inductive invariant.
IndInv ==
    /\ TypeOK
    /\ FreshIds
    /\ OneNumber
    /\ WaitingUnanswered
    /\ RepliesToAsker
    /\ TimersMatch
    /\ AnswersCurrentStep

\* Commands after del_cmd and add_cmd are well typed.
LEMMA DelCmdFacts ==
    ASSUME TypeOK, TimersMatch, NEW id \in Ids, del_cmd(id)
    PROVE  /\ DOMAIN m_cmds' = DOMAIN m_cmds \ {id}
           /\ \A i \in DOMAIN m_cmds' : m_cmds'[i] = m_cmds[i]
           /\ m_cmds' \in [DOMAIN m_cmds' -> Cmd]
           /\ cmd_timers' = DOMAIN m_cmds'
           /\ cmd_active' \subseteq Ids
BY DEF TypeOK, TimersMatch, del_cmd

\* add_cmd enters one command and its timer.
LEMMA AddCmdFacts ==
    ASSUME TypeOK, TimersMatch, NEW id \in Ids, NEW c \in Cmd, add_cmd(id, c)
    PROVE  /\ DOMAIN m_cmds' = DOMAIN m_cmds \cup {id}
           /\ m_cmds'[id] = c
           /\ \A i \in DOMAIN m_cmds : i # id => m_cmds'[i] = m_cmds[i]
           /\ m_cmds' \in [DOMAIN m_cmds' -> Cmd]
           /\ cmd_timers' = DOMAIN m_cmds'
BY DEF TypeOK, TimersMatch, add_cmd

\* close_conn keeps what is said of connections, and opens none.
LEMMA CloseConnFacts ==
    ASSUME TypeOK, OneNumber, conn_timers = OpenConns,
           NEW fd \in Fds, m_conns[fd] # 0, close_conn(fd)
    PROVE  /\ m_conns' \in [Fds -> Ids \cup {0}]
           /\ conn_active' \subseteq Ids /\ conn_timers' \subseteq Ids
           /\ \A gd \in Fds : m_conns'[gd] = m_conns[gd] \/ m_conns'[gd] = 0
           /\ OneNumber'
           /\ conn_timers' = OpenConns'
<1>1. /\ m_conns' \in [Fds -> Ids \cup {0}]
      /\ conn_active' \subseteq Ids /\ conn_timers' \subseteq Ids
      /\ \A gd \in Fds : m_conns'[gd] = IF gd = fd THEN 0 ELSE m_conns[gd]
  BY DEF TypeOK, close_conn
<1>2. OneNumber'
  BY <1>1 DEF OneNumber
<1>3. conn_timers' = OpenConns'
  <2>1. conn_timers' = {m_conns[gd] : gd \in Fds} \ {0, m_conns[fd]}
    BY DEF close_conn, OpenConns
  <2>2. ASSUME NEW x \in conn_timers' PROVE x \in OpenConns'
    <3>1. PICK gd \in Fds : x = m_conns[gd] /\ x # 0 /\ x # m_conns[fd]
      BY <2>1, <2>2
    <3>2. gd # fd
      BY <3>1
    <3> QED
      BY <1>1, <3>1, <3>2 DEF OpenConns
  <2>3. ASSUME NEW x \in OpenConns' PROVE x \in conn_timers'
    <3>1. PICK gd \in Fds : x = m_conns'[gd] /\ x # 0
      BY <2>3 DEF OpenConns
    <3>2. gd # fd /\ x = m_conns[gd]
      BY <1>1, <3>1
    <3>3. x # m_conns[fd]
      BY <3>1, <3>2 DEF OneNumber
    <3> QED
      BY <2>1, <3>1, <3>2, <3>3
  <2> QED
    BY <2>2, <2>3
<1> QED
  BY <1>1, <1>2, <1>3

\* What a response leaves of connections and replies.
LEMMA RespondFacts ==
    ASSUME TypeOK, OneNumber, conn_timers = OpenConns,
           NEW id \in Ids, NEW fd \in Fds, NEW conn \in Ids,
           replies[id] = <<>>, Respond(id, fd, conn)
    PROVE  /\ m_conns' \in [Fds -> Ids \cup {0}]
           /\ conn_active' \subseteq Ids /\ conn_timers' \subseteq Ids
           /\ \A gd \in Fds : m_conns'[gd] = m_conns[gd] \/ m_conns'[gd] = 0
           /\ OneNumber'
           /\ conn_timers' = OpenConns'
           /\ replies' \in [Ids -> Seq(Ids)]
           /\ replies'[id] \in {<<>>, <<conn>>}
           /\ \A i \in Ids : i # id => replies'[i] = replies[i]
<1>1. CASE ~get_conn(fd, conn) /\ UNCHANGED <<conns, replies>>
  BY <1>1 DEF TypeOK, conns, OneNumber, OpenConns
<1>2. CASE /\ get_conn(fd, conn)
           /\ replies' = [replies EXCEPT ![id] = Append(@, m_conns[fd])]
           /\ conn_active' = conn_active \cup {m_conns[fd]}
           /\ UNCHANGED <<m_conns, conn_timers>>
  <2>1. m_conns[fd] = conn
    BY <1>2 DEF get_conn
  <2>2. replies'[id] = <<conn>>
    BY <1>2, <2>1 DEF TypeOK
  <2>3. replies' \in [Ids -> Seq(Ids)]
    BY <1>2, <2>1 DEF TypeOK
  <2> QED
    BY <1>2, <2>1, <2>2, <2>3 DEF TypeOK, OneNumber, OpenConns
<1>3. CASE get_conn(fd, conn) /\ close_conn(fd) /\ UNCHANGED replies
  <2>1. m_conns[fd] # 0
    BY <1>3 DEF get_conn
  <2> QED
    BY <1>3, <2>1, CloseConnFacts DEF TypeOK
<1> QED
  BY <1>1, <1>2, <1>3 DEF Respond

\* The initial state satisfies the invariant.
LEMMA InitInv == Init => IndInv
BY ConstantsAssumption
   DEF Init, IndInv, TypeOK, FreshIds, OneNumber, WaitingUnanswered, RepliesToAsker,
       TimersMatch, AnswersCurrentStep, OpenConns, Ids

\* A step that touches connections only, closing some or none, and hands out
\* no id.
LEMMA ConnsOnlyInv ==
    ASSUME IndInv, UNCHANGED <<m_seq, cmds, calls, asker, replies>>,
           m_conns' \in [Fds -> Ids \cup {0}],
           conn_active' \subseteq Ids, conn_timers' \subseteq Ids,
           \A fd \in Fds : m_conns'[fd] = m_conns[fd] \/ m_conns'[fd] = 0,
           OneNumber', conn_timers' = OpenConns'
    PROVE  IndInv'
BY ConstantsAssumption
   DEF IndInv, TypeOK, FreshIds, WaitingUnanswered, RepliesToAsker, TimersMatch,
       AnswersCurrentStep, cmds, Ids

\* A new connection has an id that is nowhere yet.
LEMMA OpenConnInv == ASSUME IndInv, NEW fd \in Fds, OpenConn(fd) PROVE IndInv'
<1>1. /\ m_seq \in Nat /\ m_seq + 1 \in Ids /\ m_seq' = m_seq + 1
      /\ m_conns' \in [Fds -> Ids \cup {0}]
      /\ \A gd \in Fds : m_conns'[gd] = IF gd = fd THEN m_seq + 1 ELSE m_conns[gd]
      /\ \A gd \in Fds : m_conns[gd] # m_seq + 1
      /\ m_seq + 1 # 0 /\ m_conns[fd] = 0
  BY ConstantsAssumption DEF OpenConn, IndInv, TypeOK, FreshIds, Ids
<1>2. TypeOK'
  <2>1. m_seq' \in 0..MaxSeq
    BY <1>1, ConstantsAssumption DEF Ids
  <2>2. conn_active' \subseteq Ids /\ conn_timers' \subseteq Ids
    BY <1>1 DEF OpenConn, IndInv, TypeOK
  <2>3. UNCHANGED <<m_cmds, cmd_active, cmd_timers, calls, asker, replies>>
    BY DEF OpenConn, cmds
  <2> QED
    BY <1>1, <2>1, <2>2, <2>3 DEF IndInv, TypeOK, Ids, Cmd, Call
<1>3. FreshIds'
  BY <1>1, ConstantsAssumption DEF OpenConn, IndInv, TypeOK, FreshIds, cmds, Ids
<1>4. OneNumber'
  BY <1>1 DEF IndInv, OneNumber
<1>5. TimersMatch'
  <2>1. OpenConns' = OpenConns \cup {m_seq + 1}
    BY <1>1 DEF OpenConns
  <2> QED
    BY <2>1 DEF OpenConn, IndInv, TimersMatch, cmds
<1> QED
  BY <1>2, <1>3, <1>4, <1>5
     DEF OpenConn, IndInv, WaitingUnanswered, RepliesToAsker, AnswersCurrentStep, cmds

\* The id of a new command is nowhere yet, and who asked is on record.
LEMMA NewCmdFacts ==
    ASSUME IndInv, NEW fd \in Fds, NewCmd(fd)
    PROVE  /\ m_seq \in Nat /\ m_seq + 1 \in Ids
           /\ m_seq' = m_seq + 1 /\ m_seq' \in 0..MaxSeq
           /\ m_conns[fd] \in Ids /\ m_conns[fd] # 0
           /\ m_seq + 1 \notin DOMAIN m_cmds
           /\ \A call \in calls : call.cmd # m_seq + 1
           /\ \A gd \in Fds : m_conns[gd] # m_seq + 1
           /\ replies[m_seq + 1] = <<>>
           /\ asker' \in [Ids -> Ids \cup {0}]
           /\ asker'[m_seq + 1] = m_conns[fd]
           /\ \A id \in Ids : id # m_seq + 1 => asker'[id] = asker[id]
           /\ \A id \in Ids : id > m_seq' => id > m_seq /\ id # m_seq + 1
BY ConstantsAssumption DEF NewCmd, IndInv, TypeOK, FreshIds, Ids

\* A request that is done at once.
LEMMA RequestDoneInv == ASSUME IndInv, NEW fd \in Fds, RequestDone(fd) PROVE IndInv'
<1> DEFINE new == m_seq + 1
<1>1. NewCmd(fd) /\ UNCHANGED <<cmds, calls>>
  BY DEF RequestDone
<1>2. /\ m_conns' \in [Fds -> Ids \cup {0}]
      /\ conn_active' \subseteq Ids /\ conn_timers' \subseteq Ids
      /\ \A gd \in Fds : m_conns'[gd] = m_conns[gd] \/ m_conns'[gd] = 0
      /\ OneNumber'
      /\ conn_timers' = OpenConns'
      /\ replies' \in [Ids -> Seq(Ids)]
      /\ replies'[new] \in {<<>>, <<m_conns[fd]>>}
      /\ \A i \in Ids : i # new => replies'[i] = replies[i]
  <2>1. CASE Respond(new, fd, m_conns[fd])
    BY <1>1, <2>1, NewCmdFacts, RespondFacts DEF IndInv, TimersMatch
  <2>2. CASE /\ conn_active' = conn_active \cup {m_conns[fd]}
             /\ UNCHANGED <<m_conns, conn_timers, replies>>
    BY <1>1, <2>2, NewCmdFacts DEF IndInv, TypeOK, OneNumber, TimersMatch, OpenConns
  <2> QED
    BY <2>1, <2>2 DEF RequestDone
<1>3. TypeOK'
  BY <1>1, <1>2, NewCmdFacts DEF IndInv, TypeOK, cmds
<1>4. FreshIds'
  <2> SUFFICES ASSUME NEW id \in Ids, id > m_seq'
               PROVE  /\ id \notin DOMAIN m_cmds'
                      /\ \A call \in calls' : call.cmd # id
                      /\ \A gd \in Fds : m_conns'[gd] # id
                      /\ replies'[id] = <<>>
    BY DEF FreshIds
  <2>1. id > m_seq /\ id # new /\ id # 0
    BY <1>1, NewCmdFacts, ConstantsAssumption DEF Ids
  <2> QED
    BY <1>1, <1>2, <2>1 DEF IndInv, FreshIds, cmds
<1>5. WaitingUnanswered'
  BY <1>1, <1>2, NewCmdFacts DEF IndInv, TypeOK, WaitingUnanswered, cmds
<1>6. RepliesToAsker'
  BY <1>1, <1>2, NewCmdFacts DEF IndInv, RepliesToAsker
<1>7. TimersMatch' /\ AnswersCurrentStep'
  BY <1>1, <1>2 DEF IndInv, TimersMatch, AnswersCurrentStep, cmds
<1> QED
  BY <1>2, <1>3, <1>4, <1>5, <1>6, <1>7 DEF IndInv

\* A request that waits for an answer.
LEMMA RequestRunningInv == ASSUME IndInv, NEW fd \in Fds, RequestRunning(fd) PROVE IndInv'
<1> DEFINE new == m_seq + 1
           c == [fd |-> fd, conn |-> m_conns[fd], step |-> 1, cnt |-> 0]
<1>1. /\ NewCmd(fd) /\ conn_active' = conn_active \cup {m_conns[fd]}
      /\ UNCHANGED <<m_conns, conn_timers, cmd_active, replies>>
  BY DEF RequestRunning
<1>2. 1 \in 1..MaxSteps
  BY ConstantsAssumption DEF RequestRunning
<1>3. /\ calls' \subseteq Call
      /\ \A call \in calls' : call \in calls \/ (call.cmd = new /\ call.step = 1)
      /\ \A a, b \in calls' : a.cmd = b.cmd => a = b
  <2>1. CASE calls' = calls
    BY <2>1 DEF IndInv, TypeOK, AnswersCurrentStep
  <2>2. CASE \E to \in {"db", "node"} :
                calls' = calls \cup {[cmd |-> new, step |-> 1, to |-> to]}
    <3>1. PICK to \in {"db", "node"} :
             calls' = calls \cup {[cmd |-> new, step |-> 1, to |-> to]}
      BY <2>2
    <3>2. [cmd |-> new, step |-> 1, to |-> to] \in Call
      BY <1>1, <1>2, NewCmdFacts DEF Call
    <3>3. \A call \in calls : call.cmd # new
      BY <1>1, NewCmdFacts
    <3> QED
      BY <3>1, <3>2, <3>3 DEF IndInv, TypeOK, AnswersCurrentStep
  <2> QED
    BY <2>1, <2>2 DEF RequestRunning
<1>4. c \in Cmd
  BY <1>1, <1>2, NewCmdFacts DEF Cmd, CMD_MAX_TIMEOUT_CNT
<1>5. /\ DOMAIN m_cmds' \subseteq DOMAIN m_cmds \cup {new}
      /\ m_cmds' \in [DOMAIN m_cmds' -> Cmd]
      /\ cmd_timers' = DOMAIN m_cmds'
      /\ \A i \in DOMAIN m_cmds' : i # new => i \in DOMAIN m_cmds /\ m_cmds'[i] = m_cmds[i]
      /\ DOMAIN m_cmds \subseteq DOMAIN m_cmds'
      /\ new \in DOMAIN m_cmds' => m_cmds'[new] = c
  <2>1. CASE add_cmd(new, c)
    <3>1. new \in Ids /\ new \notin DOMAIN m_cmds
      BY <1>1, NewCmdFacts
    <3> HIDE DEF new, c
    <3> QED
      BY <1>4, <2>1, <3>1, AddCmdFacts DEF IndInv
  <2>2. CASE UNCHANGED <<m_cmds, cmd_timers>>
    BY <1>1, <2>2, NewCmdFacts DEF IndInv, TypeOK, TimersMatch
  <2> QED
    BY <2>1, <2>2 DEF RequestRunning
<1>6. TypeOK'
  <2>1. DOMAIN m_cmds' \subseteq Ids
    BY <1>1, <1>5, NewCmdFacts DEF IndInv, TypeOK
  <2> QED
    BY <1>1, <1>3, <1>5, <2>1, NewCmdFacts DEF IndInv, TypeOK
<1>7. FreshIds'
  BY <1>1, <1>3, <1>5, NewCmdFacts DEF IndInv, FreshIds
<1>8. WaitingUnanswered'
  <2> SUFFICES ASSUME NEW id \in DOMAIN m_cmds'
               PROVE  replies'[id] = <<>> /\ asker'[id] = m_cmds'[id].conn
    BY DEF WaitingUnanswered
  <2>1. CASE id = new
    BY <1>1, <1>5, <2>1, NewCmdFacts
  <2>2. CASE id # new
    BY <1>1, <1>5, <2>2, NewCmdFacts DEF IndInv, TypeOK, WaitingUnanswered
  <2> QED
    BY <2>1, <2>2
<1>9. RepliesToAsker'
  BY <1>1, NewCmdFacts DEF IndInv, RepliesToAsker
<1>10. OneNumber' /\ TimersMatch'
  BY <1>1, <1>5 DEF IndInv, OneNumber, TimersMatch, OpenConns
<1>11. AnswersCurrentStep'
  <2>1. ASSUME NEW call \in calls', call.cmd \in DOMAIN m_cmds'
        PROVE  call.step = m_cmds'[call.cmd].step
    <3>1. CASE call \in calls
      BY <1>1, <1>5, <2>1, <3>1, NewCmdFacts DEF IndInv, AnswersCurrentStep
    <3>2. CASE call.cmd = new /\ call.step = 1
      BY <1>5, <2>1, <3>2
    <3> QED
      BY <1>3, <2>1, <3>1, <3>2
  <2> QED
    BY <1>3, <2>1 DEF AnswersCurrentStep
<1> QED
  BY <1>6, <1>7, <1>8, <1>9, <1>10, <1>11 DEF IndInv

\* An answer that is dropped, by the worker or on its way.
LEMMA CallGoneInv ==
    ASSUME IndInv, NEW call \in calls, calls' = calls \ {call},
           UNCHANGED <<m_seq, conns, cmds, asker, replies>>
    PROVE  IndInv'
BY DEF IndInv, TypeOK, FreshIds, OneNumber, WaitingUnanswered, RepliesToAsker,
       TimersMatch, AnswersCurrentStep, OpenConns, conns, cmds

\* An answer that starts the next step.
LEMMA CallbackNextInv == ASSUME IndInv, NEW call \in calls, CallbackNext(call) PROVE IndInv'
<1> DEFINE id == call.cmd
           step == m_cmds[id].step + 1
<1>1. /\ id \in DOMAIN m_cmds /\ id \in Ids /\ m_cmds[id] \in Cmd
      /\ step \in 1..MaxSteps
      /\ UNCHANGED <<m_seq, conns, cmd_timers, asker, replies>>
  BY ConstantsAssumption DEF CallbackNext, IndInv, TypeOK, Cmd
<1>2. PICK to \in {"db", "node"} :
         calls' = (calls \ {call}) \cup {[cmd |-> id, step |-> step, to |-> to]}
  BY DEF CallbackNext
<1>3. [cmd |-> id, step |-> step, to |-> to] \in Call
  BY <1>1 DEF Call
<1>4. m_cmds' = [m_cmds EXCEPT ![id] = [m_cmds[id] EXCEPT !.step = step]]
  BY DEF CallbackNext
<1>5. [m_cmds[id] EXCEPT !.step = step] \in Cmd
  BY <1>1 DEF Cmd
<1>6. /\ DOMAIN m_cmds' = DOMAIN m_cmds
      /\ m_cmds' \in [DOMAIN m_cmds' -> Cmd]
      /\ m_cmds'[id].step = step /\ m_cmds'[id].conn = m_cmds[id].conn
      /\ \A i \in DOMAIN m_cmds : i # id => m_cmds'[i] = m_cmds[i]
  <2>1. m_cmds \in [DOMAIN m_cmds -> Cmd]
    BY DEF IndInv, TypeOK
  <2>2. m_cmds'[id] = [m_cmds[id] EXCEPT !.step = step]
    BY <1>1, <1>4, <2>1
  <2>3. /\ DOMAIN m_cmds' = DOMAIN m_cmds
        /\ m_cmds' \in [DOMAIN m_cmds' -> Cmd]
        /\ \A i \in DOMAIN m_cmds : i # id => m_cmds'[i] = m_cmds[i]
    BY <1>1, <1>4, <1>5, <2>1
  <2> QED
    BY <1>1, <2>2, <2>3 DEF Cmd
<1>7. /\ \A a \in calls' : (a \in calls /\ a.cmd # id)
                             \/ a = [cmd |-> id, step |-> step, to |-> to]
  BY <1>2 DEF IndInv, AnswersCurrentStep
<1> HIDE DEF step
<1>8. TypeOK'
  <2>1. calls' \subseteq Call /\ cmd_active' \subseteq Ids
    BY <1>1, <1>2, <1>3 DEF CallbackNext, IndInv, TypeOK
  <2> QED
    BY <1>1, <1>6, <2>1 DEF IndInv, TypeOK, conns
<1>9. FreshIds'
  BY <1>1, <1>6, <1>7 DEF IndInv, FreshIds, conns
<1>10. WaitingUnanswered' /\ RepliesToAsker' /\ OneNumber' /\ TimersMatch'
  BY <1>1, <1>6 DEF IndInv, WaitingUnanswered, RepliesToAsker, OneNumber, TimersMatch,
                    OpenConns, conns
<1>11. AnswersCurrentStep'
  <2>1. ASSUME NEW a \in calls', a.cmd \in DOMAIN m_cmds'
        PROVE  a.step = m_cmds'[a.cmd].step
    <3>1. CASE a \in calls /\ a.cmd # id
      BY <1>6, <2>1, <3>1 DEF IndInv, AnswersCurrentStep
    <3>2. CASE a = [cmd |-> id, step |-> step, to |-> to]
      BY <1>6, <3>2
    <3> QED
      BY <1>7, <3>1, <3>2
  <2>2. ASSUME NEW a \in calls', NEW b \in calls', a.cmd = b.cmd PROVE a = b
    BY <1>7, <2>2 DEF IndInv, AnswersCurrentStep
  <2> QED
    BY <2>1, <2>2 DEF AnswersCurrentStep
<1> QED
  BY <1>8, <1>9, <1>10, <1>11 DEF IndInv

\* A command that is deleted, having replied at most once and to its client.
LEMMA CmdEndsInv ==
    ASSUME IndInv, NEW id \in DOMAIN m_cmds, del_cmd(id),
           UNCHANGED <<m_seq, asker>>, calls' \subseteq calls,
           m_conns' \in [Fds -> Ids \cup {0}],
           conn_active' \subseteq Ids, conn_timers' \subseteq Ids,
           \A fd \in Fds : m_conns'[fd] = m_conns[fd] \/ m_conns'[fd] = 0,
           OneNumber', conn_timers' = OpenConns',
           replies' \in [Ids -> Seq(Ids)],
           replies'[id] \in {<<>>, <<m_cmds[id].conn>>},
           \A i \in Ids : i # id => replies'[i] = replies[i]
    PROVE  IndInv'
<1>1. id \in Ids /\ m_cmds[id].conn \in Ids /\ m_cmds[id].conn # 0
  BY ConstantsAssumption DEF IndInv, TypeOK, Cmd, Ids
<1>2. /\ DOMAIN m_cmds' = DOMAIN m_cmds \ {id}
      /\ \A i \in DOMAIN m_cmds' : m_cmds'[i] = m_cmds[i]
      /\ m_cmds' \in [DOMAIN m_cmds' -> Cmd]
      /\ cmd_timers' = DOMAIN m_cmds'
      /\ cmd_active' \subseteq Ids
  BY <1>1, DelCmdFacts DEF IndInv
<1>3. TypeOK'
  BY <1>2 DEF IndInv, TypeOK
<1>4. FreshIds'
  <2> SUFFICES ASSUME NEW i \in Ids, i > m_seq'
               PROVE  /\ i \notin DOMAIN m_cmds'
                      /\ \A call \in calls' : call.cmd # i
                      /\ \A fd \in Fds : m_conns'[fd] # i
                      /\ replies'[i] = <<>>
    BY DEF FreshIds
  <2>1. i # 0 /\ i # id
    BY ConstantsAssumption DEF IndInv, FreshIds, Ids
  <2> QED
    BY <1>2, <2>1 DEF IndInv, FreshIds
<1>5. WaitingUnanswered'
  BY <1>2 DEF IndInv, TypeOK, WaitingUnanswered
<1>6. RepliesToAsker'
  BY <1>1 DEF IndInv, WaitingUnanswered, RepliesToAsker
<1>7. TimersMatch' /\ AnswersCurrentStep'
  BY <1>2 DEF IndInv, TimersMatch, AnswersCurrentStep
<1> QED
  BY <1>3, <1>4, <1>5, <1>6, <1>7 DEF IndInv

\* An answer that ends its command.
LEMMA CallbackDoneInv == ASSUME IndInv, NEW call \in calls, CallbackDone(call) PROVE IndInv'
<1> DEFINE id == call.cmd
<1>1. /\ id \in DOMAIN m_cmds /\ id \in Ids
      /\ m_cmds[id].fd \in Fds /\ m_cmds[id].conn \in Ids /\ replies[id] = <<>>
      /\ del_cmd(id) /\ calls' \subseteq calls /\ UNCHANGED <<m_seq, asker>>
  BY DEF CallbackDone, IndInv, TypeOK, Cmd, WaitingUnanswered
<1>2. CASE Respond(id, m_cmds[id].fd, m_cmds[id].conn)
  <2>1. /\ m_conns' \in [Fds -> Ids \cup {0}]
        /\ conn_active' \subseteq Ids /\ conn_timers' \subseteq Ids
        /\ \A gd \in Fds : m_conns'[gd] = m_conns[gd] \/ m_conns'[gd] = 0
        /\ OneNumber'
        /\ conn_timers' = OpenConns'
        /\ replies' \in [Ids -> Seq(Ids)]
        /\ replies'[id] \in {<<>>, <<m_cmds[id].conn>>}
        /\ \A i \in Ids : i # id => replies'[i] = replies[i]
    BY <1>1, <1>2, RespondFacts DEF IndInv, TimersMatch
  <2> QED
    BY <1>1, <2>1, CmdEndsInv
<1>3. CASE UNCHANGED <<conns, replies>>
  <2>1. OneNumber' /\ conn_timers' = OpenConns'
    BY <1>3 DEF IndInv, OneNumber, TimersMatch, OpenConns, conns
  <2>2. /\ m_conns' \in [Fds -> Ids \cup {0}] /\ m_conns' = m_conns
        /\ conn_active' \subseteq Ids /\ conn_timers' \subseteq Ids
        /\ replies' \in [Ids -> Seq(Ids)] /\ replies' = replies
    BY <1>3 DEF IndInv, TypeOK, conns
  <2> QED
    BY <1>1, <2>1, <2>2, CmdEndsInv
<1> QED
  BY <1>2, <1>3 DEF CallbackDone

\* The timer of a command.
LEMMA OnCmdTimerInv == ASSUME IndInv, NEW id \in Ids, OnCmdTimer(id) PROVE IndInv'
<1>1. id \in DOMAIN m_cmds /\ UNCHANGED <<m_seq, conns, calls, asker, replies>>
  BY DEF OnCmdTimer, IndInv, TimersMatch
<1>2. CASE cmd_active' = cmd_active \ {id} /\ UNCHANGED <<m_cmds, cmd_timers>>
  BY <1>1, <1>2
     DEF IndInv, TypeOK, FreshIds, OneNumber, WaitingUnanswered, RepliesToAsker,
         TimersMatch, AnswersCurrentStep, OpenConns, conns
<1>3. CASE /\ m_cmds[id].cnt + 1 < CMD_MAX_TIMEOUT_CNT
           /\ m_cmds' = [m_cmds EXCEPT ![id].cnt = @ + 1]
           /\ UNCHANGED <<cmd_active, cmd_timers>>
  <2>1. m_cmds \in [DOMAIN m_cmds -> Cmd] /\ m_cmds[id] \in Cmd
    BY <1>1 DEF IndInv, TypeOK
  <2>2. [m_cmds[id] EXCEPT !.cnt = m_cmds[id].cnt + 1] \in Cmd
    BY <1>3, <2>1 DEF Cmd, CMD_MAX_TIMEOUT_CNT
  <2>3. m_cmds' = [m_cmds EXCEPT ![id] = [m_cmds[id] EXCEPT !.cnt = m_cmds[id].cnt + 1]]
    BY <1>3
  <2>4. /\ DOMAIN m_cmds' = DOMAIN m_cmds
        /\ m_cmds' \in [DOMAIN m_cmds' -> Cmd]
        /\ m_cmds'[id] = [m_cmds[id] EXCEPT !.cnt = m_cmds[id].cnt + 1]
        /\ \A i \in DOMAIN m_cmds : i # id => m_cmds'[i] = m_cmds[i]
    BY <1>1, <2>1, <2>2, <2>3
  <2>5. \A i \in DOMAIN m_cmds : /\ m_cmds'[i].step = m_cmds[i].step
                                 /\ m_cmds'[i].conn = m_cmds[i].conn
    BY <2>1, <2>4 DEF Cmd
  <2>6. TypeOK' /\ FreshIds'
    BY <1>1, <1>3, <2>4 DEF IndInv, TypeOK, FreshIds, conns
  <2>7. WaitingUnanswered' /\ AnswersCurrentStep'
    BY <1>1, <2>4, <2>5 DEF IndInv, WaitingUnanswered, AnswersCurrentStep
  <2>8. OneNumber' /\ RepliesToAsker' /\ TimersMatch'
    BY <1>1, <1>3, <2>4 DEF IndInv, OneNumber, RepliesToAsker, TimersMatch, OpenConns, conns
  <2> QED
    BY <2>6, <2>7, <2>8 DEF IndInv
<1>4. CASE del_cmd(id)
  <2>1. OneNumber' /\ conn_timers' = OpenConns'
    BY <1>1 DEF IndInv, OneNumber, TimersMatch, OpenConns, conns
  <2>2. /\ m_conns' \in [Fds -> Ids \cup {0}] /\ m_conns' = m_conns
        /\ conn_active' \subseteq Ids /\ conn_timers' \subseteq Ids
        /\ replies' \in [Ids -> Seq(Ids)] /\ replies' = replies /\ replies[id] = <<>>
        /\ calls' \subseteq calls
    BY <1>1 DEF IndInv, TypeOK, WaitingUnanswered, conns
  <2> QED
    BY <1>1, <1>4, <2>1, <2>2, CmdEndsInv
<1> QED
  BY <1>2, <1>3, <1>4 DEF OnCmdTimer

\* The timer of a connection.
LEMMA OnIoTimerInv == ASSUME IndInv, NEW fd \in Fds, OnIoTimer(fd) PROVE IndInv'
<1>1. m_conns[fd] # 0 /\ UNCHANGED <<m_seq, cmds, calls, asker, replies>>
  BY DEF OnIoTimer, IndInv, TimersMatch, OpenConns
<1>2. CASE conn_active' = conn_active \ {m_conns[fd]} /\ UNCHANGED <<m_conns, conn_timers>>
  <2>1. OneNumber' /\ conn_timers' = OpenConns'
    BY <1>2 DEF IndInv, OneNumber, TimersMatch, OpenConns
  <2> QED
    BY <1>1, <1>2, <2>1, ConnsOnlyInv DEF IndInv, TypeOK
<1>3. CASE close_conn(fd)
  BY <1>1, <1>3, CloseConnFacts, ConnsOnlyInv DEF IndInv, TimersMatch
<1> QED
  BY <1>2, <1>3 DEF OnIoTimer

\* Every step keeps the invariant.
LEMMA NextInv == IndInv /\ [Next]_vars => IndInv'
<1> SUFFICES ASSUME IndInv, [Next]_vars PROVE IndInv'
  OBVIOUS
<1>1. CASE UNCHANGED vars
  BY <1>1 DEF vars, conns, cmds, IndInv, TypeOK, FreshIds, OneNumber, WaitingUnanswered,
              RepliesToAsker, TimersMatch, AnswersCurrentStep, OpenConns
<1>2. ASSUME NEW fd \in Fds, ReadPart(fd) PROVE IndInv'
  <2>1. OneNumber' /\ conn_timers' = OpenConns'
    BY <1>2 DEF ReadPart, IndInv, OneNumber, TimersMatch, OpenConns
  <2> QED
    BY <1>2, <2>1, ConnsOnlyInv DEF ReadPart, IndInv, TypeOK
<1>3. ASSUME NEW fd \in Fds, ReadClosed(fd) PROVE IndInv'
  BY <1>3, CloseConnFacts, ConnsOnlyInv DEF ReadClosed, IndInv, TimersMatch
<1>4. ASSUME NEW call \in calls, CallbackLate(call) \/ CallLost(call) PROVE IndInv'
  BY <1>4, CallGoneInv DEF CallbackLate, CallLost
<1> QED
  BY <1>1, <1>2, <1>3, <1>4, OpenConnInv, RequestDoneInv, RequestRunningInv, OnIoTimerInv,
     CallbackNextInv, CallbackDoneInv, OnCmdTimerInv DEF Next

\* The inductive invariant holds always.
LEMMA Invariance == Spec => []IndInv
BY InitInv, NextInv, PTL DEF Spec

\* Types hold, the bound on the timeouts of a command included (on_cmd_timer).
THEOREM TypeCorrect == Spec => []TypeOK
<1>1. IndInv => TypeOK
  BY DEF IndInv
<1> QED
  BY <1>1, Invariance, PTL

\* A request is answered at most once, and only on the connection it came from,
\* however descriptor numbers are used again and answers delayed (get_conn,
\* handle_cmd_callback).
THEOREM RepliesCorrect == Spec => []RepliesToAsker
<1>1. IndInv => RepliesToAsker
  BY DEF IndInv
<1> QED
  BY <1>1, Invariance, PTL

\* Timers and the objects they belong to live and die together (close_conn,
\* add_cmd, del_cmd).
THEOREM TimersCorrect == Spec => []TimersMatch
<1>1. IndInv => TimersMatch
  BY DEF IndInv
<1> QED
  BY <1>1, Invariance, PTL

\* An answer finds its command in the step that asked for it.
THEOREM AnswersCorrect == Spec => []AnswersCurrentStep
<1>1. IndInv => AnswersCurrentStep
  BY DEF IndInv
<1> QED
  BY <1>1, Invariance, PTL
=============================================================================
