-------------------------- MODULE MysqlConn_proofs --------------------------
(***************************************************************************)
(* TLAPS proofs about MysqlConn, for every number of tasks and whatever    *)
(* the library returns: tasks are called back once and in order, each with *)
(* the result of its own operation.                                        *)
(*                                                                         *)
(* The methods call each other, so there is a lemma for every method: what *)
(* it does to the tasks and the state of the connection it is called for.  *)
(***************************************************************************)
EXTENDS MysqlConn, SequenceTheorems, TLAPS

-----------------------------------------------------------------------------
(* Sequences *)

\* A sequence is its head and its tail.
LEMMA HeadTailConcat ==
    ASSUME NEW S, NEW s \in Seq(S), s # <<>>
    PROVE  /\ Head(s) \in S
           /\ Tail(s) \in Seq(S)
           /\ s = <<Head(s)>> \o Tail(s)
  <1>1. Head(s) \in S /\ Tail(s) \in Seq(S) /\ Head(s) = s[1]
    BY HeadTailProperties
  <1>2. Len(s) \in Nat /\ Len(s) >= 1
    BY EmptySeq, LenProperties
  <1>3. SubSeq(s, 1, Len(s)) = <<s[1]>> \o SubSeq(s, 2, Len(s))
    BY <1>2, SubSeqRecursiveFirst
  <1>4. SubSeq(s, 1, Len(s)) = s /\ SubSeq(s, 2, Len(s)) = Tail(s)
    BY SubSeqFull, TailIsSubSeq
  <1> QED
    BY <1>1, <1>3, <1>4

-----------------------------------------------------------------------------
(* The tasks of a connection *)

TaskSeq == Seq(1..MaxTasks)

\* The current task waits for its callback.
Open(c) == c.cur # NoTask /\ ~c.called
Left(c) == IF Open(c) THEN <<c.cur>> ELSE <<>>

\* The tasks of c in the order in which they were added: those that the
\* present handler has called back and those that are left.
All(c) == c.acks \o (Left(c) \o c.tasks)

\* Nothing happens to the tasks between c and d.
SameTasks(c, d) ==
    d.acks = c.acks /\ d.tasks = c.tasks /\ d.cur = c.cur /\ d.called = c.called

\* What holds of the connection whenever a handler ends: the current task is
\* open while the library works on it and only then, and the connection is
\* there; and a connection that could start a task is there too.
Own(c) ==
    /\ Open(c) <=> c.state \in Operating
    /\ Open(c) => c.connected
    /\ c.state = "WAIT_OPERATE" /\ c.events # {} => c.connected

\* The library's results.
Results == {"ok", "lost", "other"}

\* What is open and what is left have their types.
LEMMA AllType ==
    ASSUME NEW c \in Conn
    PROVE  /\ c.acks \in TaskSeq /\ c.tasks \in TaskSeq
           /\ Left(c) \in TaskSeq
           /\ Left(c) \o c.tasks \in TaskSeq
           /\ All(c) \in TaskSeq
  <1>1. c.acks \in TaskSeq /\ c.tasks \in TaskSeq /\ c.cur \in 0..MaxTasks /\ c.called \in BOOLEAN
    BY DEF Conn, TaskSeq
  <1>2. Left(c) \in TaskSeq
    <2>1. CASE Open(c)
      <3>1. c.cur \in 1..MaxTasks
        BY <1>1, <2>1, ConstantsAssumption DEF Open, NoTask
      <3> QED
        BY <2>1, <3>1 DEF Left, TaskSeq
    <2>2. CASE ~Open(c)
      BY <2>2 DEF Left, TaskSeq
    <2> QED
      BY <2>1, <2>2
  <1>3. Left(c) \o c.tasks \in TaskSeq
    BY <1>1, <1>2, ConcatProperties DEF TaskSeq
  <1>4. All(c) \in TaskSeq
    BY <1>1, <1>3, ConcatProperties DEF TaskSeq, All
  <1> QED
    BY <1>1, <1>2, <1>3, <1>4

\* Sequences of tasks may be joined in any order.
LEMMA TasksAssociative == \A s, t, u \in TaskSeq : (s \o t) \o u = s \o (t \o u)
  BY ConcatAssociative DEF TaskSeq

\* And give a sequence of tasks.
LEMMA TasksConcat == \A s, t \in TaskSeq : s \o t \in TaskSeq
  BY ConcatProperties DEF TaskSeq

\* The tasks are the same if their fields are.
LEMMA SameAll ==
    ASSUME NEW c, NEW d, SameTasks(c, d)
    PROVE  All(d) = All(c) /\ (Open(d) <=> Open(c))
  BY DEF SameTasks, All, Left, Open

-----------------------------------------------------------------------------
(* One lemma for each method *)

\* active_ev_io changes the watcher only.
LEMMA ActiveFacts ==
    ASSUME NEW c \in Conn, NEW status \in SUBSET Events
    PROVE  LET d == active_ev_io(c, status)
           IN  d \in Conn /\ SameTasks(c, d) /\ d.state = c.state /\ d.connected = c.connected
  BY DEF active_ev_io, Conn, SameTasks

\* And so does wait_next_task.
LEMMA WaitNextFacts ==
    ASSUME NEW c \in Conn
    PROVE  LET d == wait_next_task(c)
           IN  d \in Conn /\ SameTasks(c, d) /\ d.state = c.state /\ d.connected = c.connected
  <1>1. {"write"} \in SUBSET Events
    BY DEF Events
  <1> QED
    BY <1>1, ActiveFacts DEF wait_next_task, SameTasks

\* set_state.
LEMMA SetStateFacts ==
    ASSUME NEW c \in Conn, NEW s \in States
    PROVE  LET d == set_state(c, s)
           IN  /\ d \in Conn /\ SameTasks(c, d) /\ d.state = s
               /\ d.connected = c.connected /\ d.events = c.events
  BY DEF set_state, Conn, SameTasks

\* set_connected(true) keeps the state.
LEMMA ConnectedFacts ==
    ASSUME NEW c \in Conn
    PROVE  LET d == set_connected(c, TRUE)
           IN  /\ d \in Conn /\ SameTasks(c, d) /\ d.state = c.state /\ d.connected
               /\ d.events = c.events
  <1> DEFINE d == [c EXCEPT !.connected = TRUE, !.cnt = 0]
  <1>1. set_connected(c, TRUE) = d
    BY DEF set_connected
  <1>2. d \in Conn
    <2>1. 0 \in 0..(MAX_DISCONNECT_TIME + 1)
      BY DEF MAX_DISCONNECT_TIME
    <2> QED
      BY <2>1 DEF Conn
  <1>3. SameTasks(c, d) /\ d.state = c.state /\ d.events = c.events
    BY DEF Conn, SameTasks
  <1>4. d.connected = TRUE
    BY DEF Conn
  <1> QED
    BY <1>1, <1>2, <1>3, <1>4

\* set_connected(false) also stops the watcher.
LEMMA DisconnectedFacts ==
    ASSUME NEW c \in Conn
    PROVE  LET d == set_connected(c, FALSE)
           IN  /\ d \in Conn /\ SameTasks(c, d) /\ d.state = "NO_CONNECTED" /\ ~d.connected
               /\ d.events = {} /\ d.cnt = c.cnt
  BY DEF set_connected, set_state, stop_task, Conn, SameTasks, States

\* An operation of the library goes on.
LEMMA WaitingFacts ==
    ASSUME NEW c \in Conn, NEW s \in States, NEW d \in Waiting(c, s)
    PROVE  d \in Conn /\ SameTasks(c, d) /\ d.state = s /\ d.connected = c.connected
  <1>1. PICK status \in SUBSET Events : d = active_ev_io(set_state(c, s), status)
    BY DEF Waiting, Statuses
  <1>2. set_state(c, s) \in Conn
    BY SetStateFacts
  <1> QED
    BY <1>1, <1>2, SetStateFacts, ActiveFacts DEF SameTasks

\* callback: the current task moves from those left to those called back.
LEMMA CallbackFacts ==
    ASSUME NEW c \in Conn
    PROVE  LET d == callback(c)
           IN  /\ d \in Conn /\ All(d) = All(c) /\ ~Open(d)
               /\ d.state = c.state /\ d.connected = c.connected /\ d.events = c.events
               /\ d.cnt = c.cnt /\ d.tasks = c.tasks
               /\ ~Open(c) => d = c
  <1>1. CASE ~Open(c)
    <2>1. callback(c) = c
      BY <1>1 DEF callback, Open
    <2> QED
      BY <1>1, <2>1
  <1>2. CASE Open(c)
    <2> DEFINE d == [c EXCEPT !.acks = Append(@, c.cur), !.called = TRUE]
    <2>1. callback(c) = d
      BY <1>2 DEF callback, Open
    <2>2. c.cur \in 1..MaxTasks /\ c.acks \in TaskSeq /\ c.tasks \in TaskSeq
      BY <1>2, ConstantsAssumption DEF Open, NoTask, Conn, TaskSeq
    <2>3. Append(c.acks, c.cur) \in TaskSeq /\ Append(c.acks, c.cur) = c.acks \o <<c.cur>>
      BY <2>2, AppendProperties, AppendIsConcat DEF TaskSeq
    <2>4. /\ d \in Conn /\ d.acks = c.acks \o <<c.cur>> /\ d.tasks = c.tasks
          /\ d.state = c.state /\ d.connected = c.connected /\ d.events = c.events
          /\ d.cnt = c.cnt /\ d.called
      BY <2>3 DEF Conn, TaskSeq
    <2> HIDE DEF d
    <2>5. Left(c) = <<c.cur>> /\ Left(d) = <<>> /\ ~Open(d) /\ <<c.cur>> \in TaskSeq
      BY <1>2, <2>2, <2>4 DEF Left, Open, TaskSeq
    <2>6. All(d) = (c.acks \o <<c.cur>>) \o c.tasks
      BY <2>2, <2>4, <2>5, ConcatEmptySeq DEF All, TaskSeq
    <2>7. All(c) = c.acks \o (<<c.cur>> \o c.tasks)
      BY <2>5 DEF All
    <2>8. All(d) = All(c)
      <3>1. (c.acks \o <<c.cur>>) \o c.tasks = c.acks \o (<<c.cur>> \o c.tasks)
        BY <2>2, <2>5, TasksAssociative
      <3> QED
        BY <2>6, <2>7, <3>1
    <2> QED
      BY <1>2, <2>1, <2>4, <2>5, <2>8
  <1> QED
    BY <1>1, <1>2

\* clear_tasks calls back everything that is left.
LEMMA ClearFacts ==
    ASSUME NEW c \in Conn
    PROVE  LET d == clear_tasks(c)
           IN  /\ d \in Conn /\ All(d) = All(c) /\ ~Open(d)
               /\ d.state = c.state /\ d.connected = c.connected /\ d.events = {}
  <1> DEFINE b == stop_task(c)
             e == callback(b)
             d == [e EXCEPT !.cur = NoTask, !.acks = @ \o c.tasks, !.tasks = <<>>]
  <1>1. /\ b \in Conn /\ SameTasks(c, b) /\ b.state = c.state
        /\ b.connected = c.connected /\ b.events = {}
    BY DEF stop_task, Conn, SameTasks
  <1>2. All(b) = All(c) /\ b.tasks = c.tasks
    BY <1>1, SameAll DEF SameTasks
  <1>3. /\ e \in Conn /\ All(e) = All(c) /\ ~Open(e) /\ e.state = c.state
        /\ e.connected = c.connected /\ e.events = {} /\ e.tasks = c.tasks
    BY <1>1, <1>2, CallbackFacts
  <1>4. clear_tasks(c) = d
    BY DEF clear_tasks
  <1> HIDE DEF b, e
  <1>5. e.acks \in TaskSeq /\ e.tasks \in TaskSeq /\ e.acks \o c.tasks \in TaskSeq
        /\ <<>> \in TaskSeq
    BY <1>3, AllType, TasksConcat, EmptySeq DEF TaskSeq
  <1>6. NoTask \in 0..MaxTasks
    BY ConstantsAssumption DEF NoTask
  <1>7. /\ d \in Conn /\ d.cur = NoTask /\ d.acks = e.acks \o e.tasks /\ d.tasks = <<>>
        /\ d.state = c.state /\ d.connected = c.connected /\ d.events = {}
    BY <1>3, <1>5, <1>6 DEF Conn, TaskSeq
  <1> HIDE DEF d
  <1>8. ~Open(d) /\ Left(d) = <<>> /\ Left(e) = <<>>
    BY <1>3, <1>7 DEF Open, Left
  <1>9. <<>> \o <<>> = <<>> /\ <<>> \o e.tasks = e.tasks
        /\ (e.acks \o e.tasks) \o <<>> = e.acks \o e.tasks
    BY <1>3, <1>5, ConcatEmptySeq, EmptySeq DEF TaskSeq
  <1>10. All(d) = All(e)
    BY <1>7, <1>8, <1>9 DEF All
  <1> QED
    BY <1>3, <1>4, <1>7, <1>8, <1>10

\* connect_start leaves the tasks alone; a connection made at once is ready,
\* but counts as connected only if it did before.
LEMMA ConnectStartFacts ==
    ASSUME NEW c \in Conn, NEW d \in connect_start(c)
    PROVE  /\ d \in Conn /\ SameTasks(c, d)
           /\ d.state \in {"CONNECT_WAITING", "WAIT_OPERATE", "NO_CONNECTED"}
           /\ d.state = "WAIT_OPERATE" => d.events = c.events /\ d.connected = c.connected
  <1>1. CASE d \in Waiting(c, "CONNECT_WAITING")
    <2>1. "CONNECT_WAITING" \in States
      BY DEF States
    <2> QED
      BY <1>1, <2>1, WaitingFacts
  <1>2. CASE d = set_state(c, "WAIT_OPERATE")
    <2>1. "WAIT_OPERATE" \in States
      BY DEF States
    <2> QED
      BY <1>2, <2>1, SetStateFacts
  <1>3. CASE d = set_connected(c, FALSE)
    BY <1>3, DisconnectedFacts
  <1> QED
    BY <1>1, <1>2, <1>3 DEF connect_start

\* handle_task, for a connection that is there or has no open task.
LEMMA HandleTaskFacts ==
    ASSUME NEW c \in Conn, c.connected \/ Own(c), NEW error \in Results,
           NEW d \in handle_task(c, error)
    PROVE  d \in Conn /\ All(d) = All(c) /\ Own(d)
  <1> DEFINE b == callback(c)
             lost == set_connected(b, FALSE)
             more == [lost EXCEPT !.cnt = IF @ > MAX_DISCONNECT_TIME THEN @ ELSE @ + 1]
  <1>1. /\ b \in Conn /\ All(b) = All(c) /\ ~Open(b)
        /\ b.state = c.state /\ b.connected = c.connected
        /\ ~Open(c) => b = c
    BY CallbackFacts
  <1>2. /\ lost \in Conn /\ SameTasks(b, lost) /\ lost.state = "NO_CONNECTED"
        /\ ~lost.connected /\ lost.events = {}
    BY <1>1, DisconnectedFacts
  <1>3. d \in IF error = "lost"
              THEN IF lost.cnt = MAX_DISCONNECT_TIME THEN {clear_tasks(more)}
                                                     ELSE connect_start(more)
              ELSE IF b.connected THEN {wait_next_task(set_state(b, "WAIT_OPERATE"))} ELSE {b}
    BY DEF handle_task
  <1> HIDE DEF b, lost
  <1>4. /\ more \in Conn /\ SameTasks(lost, more) /\ more.state = "NO_CONNECTED"
        /\ more.connected = lost.connected /\ more.events = {}
    <2>1. lost.cnt \in 0..(MAX_DISCONNECT_TIME + 1)
      BY <1>2 DEF Conn
    <2>2. (IF lost.cnt > MAX_DISCONNECT_TIME THEN lost.cnt ELSE lost.cnt + 1)
             \in 0..(MAX_DISCONNECT_TIME + 1)
      BY <2>1 DEF MAX_DISCONNECT_TIME
    <2> QED
      BY <1>2, <2>2 DEF Conn, SameTasks
  <1> HIDE DEF more
  <1>5. All(more) = All(c) /\ ~Open(more)
    BY <1>1, <1>2, <1>4, SameAll
  <1>6. CASE error = "lost" /\ d = clear_tasks(more)
    <2>1. /\ d \in Conn /\ All(d) = All(more) /\ ~Open(d)
          /\ d.state = "NO_CONNECTED" /\ d.events = {}
      BY <1>4, <1>6, ClearFacts
    <2> QED
      BY <1>5, <2>1 DEF Own, Operating
  <1>7. CASE error = "lost" /\ d \in connect_start(more)
    <2>1. /\ d \in Conn /\ SameTasks(more, d)
          /\ d.state \in {"CONNECT_WAITING", "WAIT_OPERATE", "NO_CONNECTED"}
          /\ d.state = "WAIT_OPERATE" => d.events = {}
      BY <1>4, <1>7, ConnectStartFacts
    <2>2. All(d) = All(c) /\ ~Open(d)
      BY <1>5, <2>1, SameAll
    <2> QED
      BY <2>1, <2>2 DEF Own, Operating
  <1>8. CASE b.connected /\ d = wait_next_task(set_state(b, "WAIT_OPERATE"))
    <2> DEFINE e == set_state(b, "WAIT_OPERATE")
    <2>1. "WAIT_OPERATE" \in States
      BY DEF States
    <2>2. e \in Conn /\ SameTasks(b, e) /\ e.state = "WAIT_OPERATE" /\ e.connected = b.connected
      BY <1>1, <2>1, SetStateFacts
    <2> HIDE DEF e
    <2>3. d \in Conn /\ SameTasks(e, d) /\ d.state = "WAIT_OPERATE" /\ d.connected = b.connected
      BY <1>8, <2>2, WaitNextFacts DEF e
    <2>4. All(d) = All(c) /\ ~Open(d)
      BY <1>1, <2>2, <2>3, SameAll
    <2> QED
      BY <1>8, <2>3, <2>4 DEF Own, Operating
  <1>9. CASE ~b.connected /\ d = b
    <2>1. Own(c) /\ ~c.connected
      BY <1>1, <1>9
    <2>2. d = c
      BY <1>1, <1>9, <2>1 DEF Own
    <2> QED
      BY <2>1, <2>2
  <1> QED
    BY <1>3, <1>6, <1>7, <1>8, <1>9

\* The end of an operation, whatever the library returns.
LEMMA EndsInFacts ==
    ASSUME NEW c \in Conn, c.connected \/ Own(c), NEW errors \in SUBSET Results,
           NEW d \in EndsIn(c, errors)
    PROVE  d \in Conn /\ All(d) = All(c) /\ Own(d)
  BY HandleTaskFacts DEF EndsIn

\* An operation on the open task goes on.
LEMMA OperatingFacts ==
    ASSUME NEW c \in Conn, c.connected, Open(c), NEW s \in Operating, NEW d \in Waiting(c, s)
    PROVE  d \in Conn /\ All(d) = All(c) /\ Own(d)
  <1>1. s \in States
    BY DEF States
  <1>2. d \in Conn /\ SameTasks(c, d) /\ d.state = s /\ d.connected = c.connected
    BY <1>1, WaitingFacts
  <1>3. s # "WAIT_OPERATE"
    BY DEF Operating
  <1> QED
    BY <1>2, <1>3, SameAll DEF Own

\* The starts of the operations, for the task that operate_wait has opened.
LEMMA StartFacts ==
    ASSUME NEW c \in Conn, c.connected, Open(c),
           NEW d \in store_result_start(c) \cup query_start(c) \cup exec_sql_start(c)
    PROVE  d \in Conn /\ All(d) = All(c) /\ Own(d)
  <1>1. Errors \in SUBSET Results /\ Errors \cup {"ok"} \in SUBSET Results
    BY ConstantsAssumption DEF Results
  <1>2. {"QUERY_WAITING", "EXECSQL_WAITING", "STORE_WAITING"} \subseteq Operating
    BY DEF Operating
  <1>3. \/ \E s \in Operating : d \in Waiting(c, s)
        \/ \E errors \in SUBSET Results : d \in EndsIn(c, errors)
    BY <1>1, <1>2 DEF store_result_start, query_start, exec_sql_start
  <1> QED
    BY <1>3, OperatingFacts, EndsInFacts

-----------------------------------------------------------------------------
(* What the loop calls *)

\* operate_wait takes the next task.
LEMMA OperateWaitFacts ==
    ASSUME NEW c \in Conn, Own(c), c.state = "WAIT_OPERATE", c.events # {},
           NEW d \in operate_wait(c)
    PROVE  d \in Conn /\ All(d) = All(c) /\ Own(d)
  <1>1. ~Open(c) /\ c.connected /\ Left(c) = <<>>
    BY DEF Own, Operating, Left
  <1>2. c.tasks \in TaskSeq /\ All(c) = c.acks \o c.tasks
    <2>1. c.tasks \in TaskSeq
      BY AllType
    <2>2. <<>> \o c.tasks = c.tasks
      BY <2>1, ConcatEmptySeq DEF TaskSeq
    <2> QED
      BY <1>1, <2>1, <2>2 DEF All
  <1>3. CASE c.tasks = <<>>
    <2> DEFINE e == stop_task([c EXCEPT !.cur = NoTask, !.called = FALSE])
    <2>1. d = e
      BY <1>3 DEF operate_wait
    <2>2. NoTask \in 0..MaxTasks
      BY ConstantsAssumption DEF NoTask
    <2>3. /\ e \in Conn /\ e.cur = NoTask /\ e.tasks = <<>> /\ e.acks = c.acks
          /\ e.state = "WAIT_OPERATE" /\ e.events = {}
      BY <1>3, <2>2 DEF stop_task, Conn
    <2>4. ~Open(e) /\ Left(e) = <<>> /\ <<>> \o <<>> = <<>>
      BY <2>3, ConcatEmptySeq, EmptySeq DEF Open, Left
    <2>5. All(e) = All(c)
      BY <1>2, <1>3, <2>3, <2>4 DEF All
    <2> QED
      BY <2>1, <2>3, <2>4, <2>5 DEF Own, Operating
  <1>4. CASE c.tasks # <<>>
    <2> DEFINE h == Head(c.tasks)
               e == [c EXCEPT !.cur = h, !.called = FALSE, !.tasks = Tail(@)]
    <2>1. d \in query_start(e) \cup exec_sql_start(e)
      BY <1>4 DEF operate_wait
    <2>2. h \in 1..MaxTasks /\ Tail(c.tasks) \in TaskSeq /\ c.tasks = <<h>> \o Tail(c.tasks)
      BY <1>2, <1>4, HeadTailConcat DEF TaskSeq
    <2>3. h \in 0..MaxTasks /\ h # NoTask
      BY <2>2, ConstantsAssumption DEF NoTask
    <2>4. /\ e \in Conn /\ e.cur = h /\ e.called = FALSE /\ e.tasks = Tail(c.tasks)
          /\ e.acks = c.acks /\ e.connected = c.connected
      <3> HIDE DEF h
      <3> QED
        BY <2>2, <2>3 DEF Conn, TaskSeq
    <2> HIDE DEF e
    <2>5. Open(e) /\ Left(e) = <<h>>
      BY <2>3, <2>4 DEF Open, Left
    <2>6. All(e) = All(c)
      BY <1>2, <2>2, <2>4, <2>5 DEF All
    <2>7. e.connected
      BY <1>1, <2>4
    <2> QED
      BY <2>1, <2>4, <2>5, <2>6, <2>7, StartFacts
  <1> QED
    BY <1>3, <1>4

\* The handler of the watcher, in every state.
LEMMA WaitForMysqlFacts ==
    ASSUME NEW c \in Conn, Own(c), c.events # {}, NEW d \in wait_for_mysql(c)
    PROVE  d \in Conn /\ All(d) = All(c) /\ Own(d)
  <1>1. Errors \in SUBSET Results /\ Errors \cup {"ok"} \in SUBSET Results /\ "ok" \in Results
    BY ConstantsAssumption DEF Results
  <1>2. CASE d = c
    BY <1>2
  <1>3. CASE d = set_connected(c, FALSE) /\ c.state \notin Operating
    <2>1. /\ d \in Conn /\ SameTasks(c, d) /\ d.state = "NO_CONNECTED"
      BY <1>3, DisconnectedFacts
    <2> QED
      BY <1>3, <2>1, SameAll DEF Own, Operating
  <1>4. CASE c.state = "CONNECT_WAITING" /\ d # c /\ d # set_connected(c, FALSE)
    <2> DEFINE e == set_connected(c, TRUE)
               f == set_state(e, "WAIT_OPERATE")
    <2>1. d = wait_next_task(f)
      BY <1>4 DEF wait_for_mysql, connect_wait
    <2>2. e \in Conn /\ SameTasks(c, e) /\ e.connected
      BY ConnectedFacts
    <2>3. "WAIT_OPERATE" \in States
      BY DEF States
    <2> HIDE DEF e
    <2>4. f \in Conn /\ SameTasks(e, f) /\ f.state = "WAIT_OPERATE" /\ f.connected = e.connected
      BY <2>2, <2>3, SetStateFacts
    <2> HIDE DEF f
    <2>5. d \in Conn /\ SameTasks(f, d) /\ d.state = "WAIT_OPERATE" /\ d.connected = f.connected
      BY <2>1, <2>4, WaitNextFacts
    <2>6. All(d) = All(c) /\ ~Open(d)
      BY <1>4, <2>2, <2>4, <2>5, SameAll DEF Own, Operating
    <2> QED
      BY <2>2, <2>4, <2>5, <2>6 DEF Own, Operating
  <1>5. CASE c.state = "WAIT_OPERATE"
    <2>1. d \in operate_wait(c)
      BY <1>5 DEF wait_for_mysql
    <2> QED
      BY <1>5, <2>1, OperateWaitFacts
  <1>6. CASE c.state \in Operating /\ d # c
    <2>1. Open(c) /\ c.connected
      BY <1>6 DEF Own
    <2>2. \/ d \in store_result_start(c)
          \/ \E errors \in SUBSET Results : d \in EndsIn(c, errors)
      BY <1>1, <1>6 DEF wait_for_mysql, Operating, query_wait, exec_sql_wait, store_result_wait
    <2> QED
      BY <2>1, <2>2, StartFacts, EndsInFacts
  <1>7. CASE c.state = "PING_WAITING" /\ d # c /\ d # set_connected(c, FALSE)
    <2> DEFINE e == set_connected(c, TRUE)
    <2>1. d \in handle_task(e, "ok")
      BY <1>7 DEF wait_for_mysql, ping_wait
    <2>2. e \in Conn /\ SameTasks(c, e) /\ e.connected
      BY ConnectedFacts
    <2> HIDE DEF e
    <2>3. d \in Conn /\ All(d) = All(e) /\ Own(d)
      BY <1>1, <2>1, <2>2, HandleTaskFacts
    <2> QED
      BY <2>2, <2>3, SameAll
  <1>8. CASE c.state = "NO_CONNECTED"
    BY <1>2, <1>8 DEF wait_for_mysql
  <1>9. c.state \in {"NO_CONNECTED", "CONNECT_WAITING", "WAIT_OPERATE", "PING_WAITING"} \cup Operating
    BY DEF Conn, States
  <1> QED
    BY <1>2, <1>3, <1>4, <1>5, <1>6, <1>7, <1>8, <1>9 DEF Operating

\* The timer pings while there is no connection, and then no task is open.
LEMMA PingStartFacts ==
    ASSUME NEW c \in Conn, Own(c), NEW d \in ping_start(c)
    PROVE  d \in Conn /\ All(d) = All(c) /\ Own(d)
  <1>1. Errors \in SUBSET Results
    BY ConstantsAssumption DEF Results
  <1>2. CASE d = c
    BY <1>2
  <1>3. CASE ~c.connected /\ d \in Waiting(c, "PING_WAITING")
    <2>1. "PING_WAITING" \in States
      BY DEF States
    <2>2. d \in Conn /\ SameTasks(c, d) /\ d.state = "PING_WAITING" /\ d.connected = c.connected
      BY <1>3, <2>1, WaitingFacts
    <2> QED
      BY <1>3, <2>2, SameAll DEF Own, Operating
  <1>4. CASE ~c.connected /\ d = set_connected(c, TRUE)
    <2>1. /\ d \in Conn /\ SameTasks(c, d) /\ d.state = c.state /\ d.connected
      BY <1>4, ConnectedFacts
    <2> QED
      BY <1>4, <2>1, SameAll DEF Own
  <1>5. CASE d \in EndsIn(c, Errors)
    BY <1>1, <1>5, EndsInFacts
  <1> QED
    BY <1>2, <1>3, <1>4, <1>5 DEF ping_start

-----------------------------------------------------------------------------
(* The inductive invariant and the theorems *)

\* The tasks from 1 to n.
Upto(n) == [i \in 1..n |-> i]

IndInv ==
    /\ TypeOK
    /\ conn.acks = <<>>
    /\ Own(conn)
    /\ done \o (Left(conn) \o conn.tasks) = Upto(added)

\* A handler that keeps the tasks of the connection keeps the invariant.
LEMMA BecomesInv ==
    ASSUME TypeOK, NEW c \in Conn, Own(c), Becomes(c), added' \in 0..MaxTasks,
           done \o All(c) = Upto(added')
    PROVE  IndInv'
  <1>1. conn' = [c EXCEPT !.acks = <<>>] /\ done' = done \o c.acks
    BY DEF Becomes
  <1>2. <<>> \in TaskSeq
    BY EmptySeq DEF TaskSeq
  <1>3. /\ conn' \in Conn /\ conn'.acks = <<>>
        /\ conn'.tasks = c.tasks /\ conn'.cur = c.cur /\ conn'.called = c.called
        /\ conn'.state = c.state /\ conn'.connected = c.connected /\ conn'.events = c.events
    BY <1>1, <1>2 DEF Conn, TaskSeq
  <1>4. Left(conn') = Left(c) /\ Own(conn')
    BY <1>3 DEF Left, Open, Own
  <1>5. /\ c.acks \in TaskSeq /\ Left(c) \o c.tasks \in TaskSeq
        /\ done \in TaskSeq
    BY AllType DEF TypeOK, TaskSeq
  <1>6. done' \in TaskSeq
    BY <1>1, <1>5, TasksConcat
  <1>7. done' \o (Left(c) \o c.tasks) = done \o All(c)
    BY <1>1, <1>5, TasksAssociative DEF All
  <1>8. done' \o (Left(conn') \o conn'.tasks) = Upto(added')
    BY <1>3, <1>4, <1>7
  <1>9. TypeOK'
    BY <1>3, <1>6 DEF TypeOK, TaskSeq
  <1> QED
    BY <1>3, <1>4, <1>8, <1>9 DEF IndInv

\* Before and after a handler runs, what it has called back is in done.
LEMMA AllOfConn ==
    ASSUME IndInv
    PROVE  conn \in Conn /\ Own(conn) /\ done \o All(conn) = Upto(added)
  <1>1. conn \in Conn
    BY DEF IndInv, TypeOK
  <1>2. Left(conn) \o conn.tasks \in TaskSeq
    BY <1>1, AllType
  <1>3. All(conn) = Left(conn) \o conn.tasks
    BY <1>2, ConcatEmptySeq DEF IndInv, All, TaskSeq
  <1> QED
    BY <1>1, <1>3 DEF IndInv

\* add_task puts the next task behind the others.
LEMMA AddTaskInv ==
    ASSUME IndInv, AddTask
    PROVE  IndInv'
  <1> DEFINE n == added + 1
             b == [conn EXCEPT !.tasks = Append(@, n)]
             c == wait_next_task(b)
  <1>1. conn \in Conn /\ Own(conn) /\ done \o All(conn) = Upto(added)
    BY AllOfConn
  <1>2. conn.connected /\ added \in Nat /\ n \in 1..MaxTasks /\ added' = n /\ Becomes(c)
    BY ConstantsAssumption DEF AddTask, IndInv, TypeOK
  <1>3. /\ conn.acks \in TaskSeq /\ conn.tasks \in TaskSeq /\ Left(conn) \in TaskSeq
        /\ All(conn) \in TaskSeq /\ done \in TaskSeq /\ <<n>> \in TaskSeq
    BY <1>1, <1>2, AllType DEF IndInv, TypeOK, TaskSeq
  <1> HIDE DEF n
  <1>4. Append(conn.tasks, n) = conn.tasks \o <<n>> /\ Append(conn.tasks, n) \in TaskSeq
    BY <1>2, <1>3, AppendIsConcat, AppendProperties DEF TaskSeq
  <1>5. /\ b \in Conn /\ b.tasks = conn.tasks \o <<n>> /\ b.acks = conn.acks
        /\ b.cur = conn.cur /\ b.called = conn.called
        /\ b.state = conn.state /\ b.connected = conn.connected
    BY <1>1, <1>4 DEF Conn, TaskSeq
  <1> HIDE DEF b
  <1>6. c \in Conn /\ SameTasks(b, c) /\ c.state = b.state /\ c.connected = b.connected
    BY <1>5, WaitNextFacts
  <1> HIDE DEF c
  <1>7. Left(b) = Left(conn) /\ (Open(b) <=> Open(conn))
    BY <1>5 DEF Left, Open
  <1>8. All(b) = All(conn) \o <<n>>
    <2> DEFINE a == conn.acks
               l == Left(conn)
               t == conn.tasks
               u == <<n>>
    <2>1. a \in TaskSeq /\ l \in TaskSeq /\ t \in TaskSeq /\ u \in TaskSeq
      BY <1>3
    <2>2. All(b) = a \o (l \o (t \o u)) /\ All(conn) = a \o (l \o t)
      BY <1>5, <1>7 DEF All
    <2> HIDE DEF a, l, t, u
    <2>3. (a \o (l \o t)) \o u = a \o (l \o (t \o u))
      <3>1. l \o t \in TaskSeq
        BY <2>1, TasksConcat
      <3>2. (l \o t) \o u = l \o (t \o u)
        BY <2>1, TasksAssociative
      <3>3. (a \o (l \o t)) \o u = a \o ((l \o t) \o u)
        BY <2>1, <3>1, TasksAssociative
      <3> QED
        BY <3>2, <3>3
    <2> QED
      BY <2>2, <2>3 DEF u
  <1>9. done \o All(c) = Upto(added) \o <<n>>
    <2> DEFINE a == All(conn)
               u == <<n>>
    <2>1. a \in TaskSeq /\ u \in TaskSeq /\ done \in TaskSeq
      BY <1>3
    <2>2. All(c) = a \o u /\ done \o a = Upto(added)
      BY <1>1, <1>6, <1>8, SameAll
    <2> HIDE DEF a, u
    <2>3. done \o (a \o u) = (done \o a) \o u
      BY <2>1, TasksAssociative
    <2> QED
      BY <2>2, <2>3 DEF u
  <1>10. Upto(added) \o <<n>> = Upto(added')
    <2>1. Upto(added) \in Seq(Nat) /\ Len(Upto(added)) = added /\ <<n>> \in Seq(Nat)
      BY <1>2 DEF Upto, n
    <2>2. Upto(added') \in Seq(Nat) /\ Len(Upto(added')) = added + 1
      BY <1>2 DEF Upto, n
    <2>3. /\ Upto(added) \o <<n>> \in Seq(Nat)
          /\ Len(Upto(added) \o <<n>>) = added + 1
          /\ \A i \in 1..(added + 1) : (Upto(added) \o <<n>>)[i] =
                IF i <= added THEN Upto(added)[i] ELSE <<n>>[i - added]
      BY <1>2, <2>1, ConcatProperties
    <2>4. \A i \in 1..(added + 1) : (Upto(added) \o <<n>>)[i] = Upto(added')[i]
      BY <1>2, <2>3 DEF Upto, n
    <2> QED
      BY <2>2, <2>3, <2>4, SeqEqual
  <1>11. Own(c)
    <2>1. Open(c) <=> Open(b)
      BY <1>6, SameAll
    <2> QED
      BY <1>1, <1>2, <1>5, <1>6, <1>7, <2>1 DEF Own
  <1> QED
    <2>1. n \in 0..MaxTasks
      BY <1>2 DEF n
    <2> QED
      BY <1>2, <1>6, <1>9, <1>10, <1>11, <2>1, BecomesInv DEF IndInv

\* The connection that init starts.
LEMMA InitInv == Init => IndInv
  <1> SUFFICES ASSUME Init PROVE IndInv
    OBVIOUS
  <1>1. Fresh \in Conn
    BY ConstantsAssumption DEF Fresh, Conn, States, NoTask, MAX_DISCONNECT_TIME, Events
  <1>2. /\ conn \in Conn /\ SameTasks(Fresh, conn)
        /\ conn.state \in {"CONNECT_WAITING", "WAIT_OPERATE", "NO_CONNECTED"}
        /\ conn.state = "WAIT_OPERATE" => conn.events = {}
    BY <1>1, ConnectStartFacts DEF Init, Fresh
  <1>3. conn.acks = <<>> /\ conn.tasks = <<>> /\ ~Open(conn) /\ Left(conn) = <<>>
    BY <1>2 DEF SameTasks, Fresh, Open, Left
  <1>4. Own(conn)
    BY <1>2, <1>3 DEF Own, Operating
  <1>5. Upto(0) = <<>>
    BY DEF Upto
  <1>6. <<>> \o (<<>> \o <<>>) = <<>> /\ <<>> \in TaskSeq
    BY EmptySeq, ConcatEmptySeq DEF TaskSeq
  <1>7. TypeOK
    BY <1>2, <1>6, ConstantsAssumption DEF Init, TypeOK, TaskSeq
  <1> QED
    BY <1>3, <1>4, <1>5, <1>6, <1>7 DEF Init, IndInv

\* Every handler preserves the invariant.
LEMMA NextInv == IndInv /\ [Next]_vars => IndInv'
  <1> SUFFICES ASSUME IndInv, [Next]_vars PROVE IndInv'
    OBVIOUS
  <1>1. conn \in Conn /\ Own(conn) /\ done \o All(conn) = Upto(added) /\ TypeOK
        /\ added \in 0..MaxTasks
    BY AllOfConn DEF IndInv, TypeOK
  <1>2. ASSUME NEW c \in Conn, All(c) = All(conn), Own(c), Becomes(c), UNCHANGED added
        PROVE  IndInv'
    BY <1>1, <1>2, BecomesInv
  <1>3. CASE AddTask
    BY <1>3, AddTaskInv
  <1>4. CASE OnWrite \/ OnRead
    BY <1>1, <1>2, <1>4, WaitForMysqlFacts DEF OnWrite, OnRead
  <1>5. CASE OnTimer
    BY <1>1, <1>2, <1>5, PingStartFacts DEF OnTimer
  <1>6. CASE UNCHANGED vars
    BY <1>6 DEF vars, IndInv, TypeOK, Own, Open, Left, Upto
  <1> QED
    BY <1>3, <1>4, <1>5, <1>6 DEF Next

\* The inductive invariant holds in every reachable state.
THEOREM Invariance == Spec => []IndInv
  BY InitInv, NextInv, PTL DEF Spec

\* Tasks are called back at most once, in the order of add_task, and none is
\* dropped, through errors, lost connections and clear_tasks.
THEOREM CalledBackInOrder == Spec => []InOrder
  <1>1. IndInv => InOrder
    BY DEF IndInv, InOrder, Pending, Unanswered, Left, Open, Upto
  <1> QED
    BY <1>1, Invariance, PTL

\* A task is open exactly while the library works on it: no connection
\* attempt and no ping is answered to a task (ping_start, handle_task).
THEOREM ResultsAreOwn == Spec => []ResultIsOwn
  <1>1. IndInv => ResultIsOwn
    BY DEF IndInv, ResultIsOwn, Unanswered, Own, Open
  <1> QED
    BY <1>1, Invariance, PTL
=============================================================================
