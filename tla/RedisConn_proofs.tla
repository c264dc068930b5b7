-------------------------- MODULE RedisConn_proofs --------------------------
(***************************************************************************)
(* TLAPS proofs about RedisConn, for every set of commands and number of   *)
(* attempts to connect: no freed context is used, answers are true and     *)
(* reach their command, and the connection implements TaskQueue.           *)
(***************************************************************************)
EXTENDS RedisConn, SequenceTheorems, TLAPS

-----------------------------------------------------------------------------
(* Sequences *)

\* The elements of a sequence, by index.
LEMMA RangeFacts ==
    ASSUME NEW S, NEW s \in Seq(S)
    PROVE  /\ DOMAIN s = 1..Len(s)
           /\ Len(s) \in Nat
           /\ Range(s) = {s[j] : j \in 1..Len(s)}
           /\ Range(s) \subseteq S
  BY LenProperties, ElementOfSeq DEF Range

\* Append adds one element at the end.
LEMMA AppendRange ==
    ASSUME NEW S, NEW s \in Seq(S), NEW e \in S
    PROVE  /\ Append(s, e) \in Seq(S)
           /\ Range(Append(s, e)) = Range(s) \cup {e}
           /\ IsInjective(s) /\ e \notin Range(s) => IsInjective(Append(s, e))
  <1> DEFINE t == Append(s, e)
  <1>1. /\ t \in Seq(S) /\ Len(t) = Len(s) + 1
        /\ \A j \in 1..Len(s) : t[j] = s[j]
        /\ t[Len(s) + 1] = e
    BY AppendProperties
  <1> HIDE DEF t
  <1>2. DOMAIN s = 1..Len(s) /\ DOMAIN t = 1..Len(t) /\ Len(s) \in Nat
    BY <1>1, RangeFacts
  <1>3. Range(t) = Range(s) \cup {e}
    BY <1>1, <1>2 DEF Range
  <1>4. ASSUME IsInjective(s), e \notin Range(s)
        PROVE  IsInjective(t)
    <2>1. \A j \in 1..Len(s) : s[j] # e
      BY <1>2, <1>4 DEF Range
    <2>2. \A i, j \in 1..Len(s) : s[i] = s[j] => i = j
      BY <1>2, <1>4 DEF IsInjective
    <2>3. SUFFICES ASSUME NEW i \in 1..Len(t), NEW j \in 1..Len(t), t[i] = t[j]
                   PROVE  i = j
      BY <1>2 DEF IsInjective
    <2>4. /\ i \in 1..Len(s) \/ i = Len(s) + 1
          /\ j \in 1..Len(s) \/ j = Len(s) + 1
      BY <1>1, <1>2
    <2> QED
      BY <1>1, <2>1, <2>2, <2>3, <2>4
  <1> QED
    BY <1>1, <1>3, <1>4 DEF t

\* Head and Tail take the first element off.
LEMMA TailRange ==
    ASSUME NEW S, NEW s \in Seq(S), s # <<>>
    PROVE  /\ Head(s) \in S
           /\ Tail(s) \in Seq(S)
           /\ Range(s) = Range(Tail(s)) \cup {Head(s)}
           /\ IsInjective(s) => Head(s) \notin Range(Tail(s)) /\ IsInjective(Tail(s))
  <1> DEFINE t == Tail(s)
  <1>1. /\ Head(s) \in S /\ t \in Seq(S) /\ Len(t) = Len(s) - 1
        /\ \A j \in 1..Len(t) : t[j] = s[j + 1]
        /\ Head(s) = s[1]
    BY HeadTailProperties
  <1> HIDE DEF t
  <1>2. /\ DOMAIN s = 1..Len(s) /\ DOMAIN t = 1..Len(t)
        /\ Len(s) \in Nat /\ Len(s) >= 1 /\ Len(t) \in Nat
    BY <1>1, RangeFacts, EmptySeq
  <1>3. Range(s) = Range(t) \cup {Head(s)}
    <2>1. ASSUME NEW x \in Range(s)
          PROVE  x \in Range(t) \cup {Head(s)}
      <3>1. PICK j \in 1..Len(s) : x = s[j]
        BY <1>2 DEF Range
      <3>2. CASE j = 1
        BY <1>1, <3>1, <3>2
      <3>3. CASE j # 1
        <4>1. j - 1 \in 1..Len(t) /\ (j - 1) + 1 = j
          BY <1>1, <1>2, <3>3
        <4> QED
          BY <1>1, <1>2, <3>1, <4>1 DEF Range
      <3> QED
        BY <3>2, <3>3
    <2>2. ASSUME NEW x \in Range(t)
          PROVE  x \in Range(s)
      <3>1. PICK j \in 1..Len(t) : x = t[j]
        BY <1>2 DEF Range
      <3> QED
        BY <1>1, <1>2, <3>1 DEF Range
    <2>3. Head(s) \in Range(s)
      BY <1>1, <1>2 DEF Range
    <2> QED
      BY <2>1, <2>2, <2>3
  <1>4. ASSUME IsInjective(s)
        PROVE  Head(s) \notin Range(t) /\ IsInjective(t)
    <2>1. \A i, j \in 1..Len(s) : s[i] = s[j] => i = j
      BY <1>2, <1>4 DEF IsInjective
    <2>2. \A j \in 1..Len(t) : j + 1 \in 1..Len(s) /\ j + 1 # 1 /\ t[j] = s[j + 1]
      BY <1>1, <1>2
    <2>3. \A j \in 1..Len(t) : t[j] # Head(s)
      BY <1>1, <1>2, <2>1, <2>2
    <2>4. \A i, j \in 1..Len(t) : t[i] = t[j] => i = j
      BY <1>2, <2>1, <2>2
    <2> QED
      BY <1>2, <2>3, <2>4 DEF IsInjective, Range
  <1> QED
    BY <1>1, <1>3, <1>4 DEF t

-----------------------------------------------------------------------------
(* The inductive invariant *)

\* The tasks taken and not called back.
Pend == replies \o m_wait_tasks

\* The context, the state and the entry of the pool agree.
ContextInv ==
    /\ m_ctx = live
    /\ is_active <=> live # 0
    /\ live # 0 => conn = "there"

\* Tasks wait only while the connection is being made, and requests are open
\* only when it is.
QueueInv ==
    /\ m_wait_tasks # <<>> => m_state = "CONNECTING"
    /\ replies # <<>> => m_state = "CONNECTED"

\* A command has one task at most, of the step it is at (unless its timer has
\* deleted it), and one that waits has its task.
TaskInv ==
    /\ IsInjective(Pend)
    /\ \A t, u \in Range(Pend) : t.cmd = u.cmd => t = u
    /\ \A t \in Range(Pend) : step[t.cmd] \in {t.op, "gone"}
    /\ \A c \in Cmds : step[c] \in {"set", "get"} /\ conn # "deleted"
                          => Task(c, step[c]) \in Range(Pend)

\* A command answers when it is done, and "ok" if redis did what it asked; a
\* command that writes and reads has written before it reads.
AnswerInv ==
    \A c \in Cmds :
        /\ step[c] # "done" => answer[c] = <<>>
        /\ step[c] = "done" =>
              \/ answer[c] = <<"error">>
              \/ /\ answer[c] = <<"ok">> /\ stored # {}
                 /\ oper[c] # "read" => c \in stored
        /\ step[c] = "get" /\ oper[c] # "read" => c \in stored

IndInv == TypeOK /\ ContextInv /\ QueueInv /\ TaskInv /\ AnswerInv

\* What a step does to the tasks, in the terms of TaskQueue.
QueueStep ==
    \/ Pend' = Pend /\ called' = called
    \/ \E t \in Tasks \ Range(Pend) : Pend' = Append(Pend, t) /\ called' = called
    \/ /\ Pend # <<>> /\ called' = Append(called, Head(Pend))
       /\ \/ Pend' = Tail(Pend)
          \/ \E t \in Tasks \ Range(Pend) : Pend' = Append(Tail(Pend), t)
    \/ Pend' = <<>> /\ called' = called \o Pend

-----------------------------------------------------------------------------
(* Lemmas about tasks and the two queues *)

\* A task is its command and its operation.
LEMMA TaskFacts ==
    /\ \A t \in Tasks : t.cmd \in Cmds /\ t.op \in {"set", "get"} /\ t = Task(t.cmd, t.op)
    /\ \A c \in Cmds, op \in {"set", "get"} :
          Task(c, op) \in Tasks /\ Task(c, op).cmd = c /\ Task(c, op).op = op
  <1>1. ASSUME NEW t \in Tasks
        PROVE  t.cmd \in Cmds /\ t.op \in {"set", "get"} /\ t = Task(t.cmd, t.op)
    <2>1. PICK c \in Cmds, op \in {"set", "get"} : t = Task(c, op)
      BY DEF Tasks
    <2> QED
      BY <2>1 DEF Task
  <1>2. ASSUME NEW c \in Cmds, NEW op \in {"set", "get"}
        PROVE  Task(c, op) \in Tasks /\ Task(c, op).cmd = c /\ Task(c, op).op = op
    BY DEF Tasks, Task
  <1> QED
    BY <1>1, <1>2

\* One of the two queues is empty, so that the other one is all there is.
LEMMA PendFacts ==
    ASSUME TypeOK, QueueInv
    PROVE  /\ Pend \in Seq(Tasks)
           /\ Range(Pend) \subseteq Tasks
           /\ m_state = "CLOSED" => Pend = <<>> /\ m_wait_tasks = <<>> /\ replies = <<>>
           /\ m_state = "CONNECTING" => Pend = m_wait_tasks /\ replies = <<>>
           /\ m_state = "CONNECTED" => Pend = replies /\ m_wait_tasks = <<>>
  <1>1. m_wait_tasks \in Seq(Tasks) /\ replies \in Seq(Tasks)
    BY DEF TypeOK
  <1>2. Pend \in Seq(Tasks)
    BY <1>1, ConcatProperties DEF Pend
  <1>3. Range(Pend) \subseteq Tasks
    BY <1>2, RangeFacts
  <1>4. replies = <<>> => Pend = m_wait_tasks
    BY <1>1, ConcatEmptySeq DEF Pend
  <1>5. m_wait_tasks = <<>> => Pend = replies
    BY <1>1, ConcatEmptySeq DEF Pend
  <1> QED
    BY <1>2, <1>3, <1>4, <1>5 DEF QueueInv, TypeOK

\* The first task is the only one of its command.
LEMMA HeadFacts ==
    ASSUME TypeOK, QueueInv, TaskInv, Pend # <<>>
    PROVE  /\ Head(Pend) \in Tasks /\ Tail(Pend) \in Seq(Tasks)
           /\ Range(Pend) = Range(Tail(Pend)) \cup {Head(Pend)}
           /\ IsInjective(Tail(Pend))
           /\ \A t \in Range(Tail(Pend)) : t \in Tasks /\ t.cmd # Head(Pend).cmd
  <1>1. Pend \in Seq(Tasks) /\ IsInjective(Pend)
    BY PendFacts DEF TaskInv
  <1>2. /\ Head(Pend) \in Tasks /\ Tail(Pend) \in Seq(Tasks)
        /\ Range(Pend) = Range(Tail(Pend)) \cup {Head(Pend)}
        /\ Head(Pend) \notin Range(Tail(Pend)) /\ IsInjective(Tail(Pend))
    BY <1>1, TailRange
  <1>3. \A t \in Range(Tail(Pend)) : t \in Tasks
    BY <1>2, RangeFacts
  <1> QED
    BY <1>2, <1>3 DEF TaskInv

\* A command that ends has one answer, the one it ends with.
LEMMA EndsInv ==
    ASSUME TypeOK, AnswerInv, NEW c \in Cmds, step[c] # "done",
           NEW text \in {"ok", "error"}, Ends(c, text), stored \subseteq stored',
           text = "ok" => stored' # {} /\ (oper[c] # "read" => c \in stored')
    PROVE  /\ AnswerInv'
           /\ step' \in [Cmds -> {"new", "set", "get", "done", "gone"}]
           /\ answer' \in [Cmds -> Seq({"ok", "error"})]
           /\ \A d \in Cmds : step'[d] = IF d = c THEN "done" ELSE step[d]
  <1>1. answer[c] = <<>> /\ Append(<<>>, text) = <<text>>
    BY DEF AnswerInv
  <1>2. \A d \in Cmds : /\ step'[d] = IF d = c THEN "done" ELSE step[d]
                        /\ answer'[d] = IF d = c THEN <<text>> ELSE answer[d]
    BY <1>1 DEF Ends, TypeOK
  <1>3. <<text>> \in Seq({"ok", "error"})
    OBVIOUS
  <1>4. answer' \in [Cmds -> Seq({"ok", "error"})]
    BY <1>1, <1>3 DEF Ends, TypeOK
  <1>5. step' \in [Cmds -> {"new", "set", "get", "done", "gone"}]
    BY DEF Ends, TypeOK
  <1>6. AnswerInv'
    BY <1>2 DEF AnswerInv
  <1> QED
    BY <1>2, <1>4, <1>5, <1>6

-----------------------------------------------------------------------------
(* The actions *)

\* The conjuncts of TypeOK about the connection.
RedisTypes ==
    /\ conn \in {"none", "there", "deleted"}
    /\ m_state \in {"CONNECTING", "CONNECTED", "CLOSED"}
    /\ connects \in 0..MaxConnects /\ m_ctx \in 0..connects /\ live \in 0..connects
    /\ m_wait_tasks \in Seq(Tasks) /\ replies \in Seq(Tasks)

\* A task that is taken goes to the end, or is lost with a deleted connection.
LEMMA TakenInv ==
    ASSUME IndInv, NEW t \in Tasks, Taken(t)
    PROVE  /\ RedisTypes' /\ ContextInv' /\ QueueInv'
           /\ \/ Pend' = Append(Pend, t) /\ conn' # "deleted" /\ conn # "deleted"
              \/ Pend' = Pend /\ conn' = "deleted" /\ conn = "deleted"
  <1>1. /\ TypeOK /\ ContextInv /\ QueueInv /\ RedisTypes
        /\ Pend \in Seq(Tasks)
        /\ m_state = "CLOSED" => Pend = <<>> /\ m_wait_tasks = <<>> /\ replies = <<>>
        /\ m_state = "CONNECTING" => Pend = m_wait_tasks /\ replies = <<>>
        /\ m_state = "CONNECTED" => Pend = replies /\ m_wait_tasks = <<>>
    BY PendFacts DEF IndInv, TypeOK, RedisTypes
  <1>2. CASE Connect(t)
    <2>1. m_state = "CLOSED"
      BY <1>1, <1>2 DEF Connect, ContextInv, is_active, RedisTypes
    <2>2. /\ m_wait_tasks' = <<t>> /\ <<t>> \in Seq(Tasks) /\ replies' = <<>>
          /\ Append(<<>>, t) = <<t>> /\ <<>> \o <<t>> = <<t>>
      BY <1>1, <1>2, <2>1 DEF Connect
    <2>3. Pend' = Append(Pend, t)
      BY <1>1, <2>1, <2>2 DEF Pend
    <2>4. RedisTypes'
      <3>1. connects + 1 \in 0..MaxConnects /\ connects + 1 \in 0..(connects + 1)
        BY <1>1, <1>2, CmdsAssumption DEF Connect, RedisTypes
      <3> QED
        BY <1>1, <1>2, <2>2, <3>1 DEF Connect, RedisTypes
    <2>5. ContextInv'
      BY <1>1, <1>2 DEF Connect, ContextInv, is_active, RedisTypes
    <2>6. QueueInv'
      BY <1>1, <1>2, <2>2 DEF Connect, QueueInv
    <2> QED
      BY <1>2, <2>3, <2>4, <2>5, <2>6 DEF Connect
  <1>3. CASE Queue(t)
    <2>1. /\ conn = "there" /\ UNCHANGED <<conn, m_state, m_ctx, live, connects>>
          /\ m_state \in {"CONNECTING", "CONNECTED"}
      BY <1>3 DEF Queue, is_active
    <2>2. CASE m_state = "CONNECTING"
      <3>1. m_wait_tasks' = Append(m_wait_tasks, t) /\ replies' = <<>> /\ Pend = m_wait_tasks
        BY <1>1, <1>3, <2>2 DEF Queue
      <3>2. m_wait_tasks' \in Seq(Tasks)
        BY <1>1, <3>1, AppendProperties DEF RedisTypes
      <3>3. Pend' = Append(Pend, t)
        BY <3>1, <3>2, ConcatEmptySeq DEF Pend
      <3> QED
        BY <1>1, <2>1, <2>2, <3>1, <3>2, <3>3 DEF RedisTypes, ContextInv, QueueInv, is_active
    <2>3. CASE m_state = "CONNECTED"
      <3>1. replies' = Append(replies, t) /\ m_wait_tasks' = <<>> /\ Pend = replies
        BY <1>1, <1>3, <2>3 DEF Queue
      <3>2. replies' \in Seq(Tasks)
        BY <1>1, <3>1, AppendProperties DEF RedisTypes
      <3>3. Pend' = Append(Pend, t)
        BY <3>1, <3>2, ConcatEmptySeq DEF Pend
      <3> QED
        BY <1>1, <2>1, <2>3, <3>1, <3>2, <3>3 DEF RedisTypes, ContextInv, QueueInv, is_active
    <2> QED
      BY <2>1, <2>2, <2>3
  <1>4. CASE Undefined
    BY <1>1, <1>4 DEF Undefined, redis, RedisTypes, ContextInv, QueueInv, is_active, Pend
  <1> QED
    BY <1>2, <1>3, <1>4 DEF Taken

\* A command that begins has no task yet: it gets one, or ends with an error.
LEMMA ExecuteInv ==
    ASSUME IndInv, NEW c \in Cmds, Execute(c)
    PROVE  IndInv' /\ QueueStep
  <1> DEFINE op == FirstOp(c)
             t == Task(c, op)
  <1>1. /\ TypeOK /\ ContextInv /\ QueueInv /\ TaskInv /\ AnswerInv
        /\ step[c] = "new" /\ UNCHANGED <<called, stored>>
        /\ Pend \in Seq(Tasks) /\ Range(Pend) \subseteq Tasks
    BY PendFacts DEF IndInv, Execute
  <1>2. op \in {"set", "get"} /\ (op = "get" => oper[c] = "read")
    BY DEF FirstOp
  <1>3. t \in Tasks /\ t.cmd = c /\ t.op = op
    BY <1>2, TaskFacts
  <1>4. \A u \in Range(Pend) : u.cmd # c
    BY <1>1, TaskFacts DEF TaskInv
  <1> HIDE DEF op
  <1>5. CASE Taken(t) /\ step' = [step EXCEPT ![c] = op] /\ UNCHANGED answer
    <2> HIDE DEF t
    <2>1. /\ RedisTypes' /\ ContextInv' /\ QueueInv'
          /\ \/ Pend' = Append(Pend, t) /\ conn' # "deleted" /\ conn # "deleted"
             \/ Pend' = Pend /\ conn' = "deleted" /\ conn = "deleted"
      BY <1>3, <1>5, TakenInv
    <2>2. \A d \in Cmds : step'[d] = IF d = c THEN op ELSE step[d]
      BY <1>1, <1>5 DEF TypeOK
    <2>3. TypeOK'
      BY <1>1, <1>2, <1>5, <2>1 DEF TypeOK, RedisTypes
    <2>4. AnswerInv'
      BY <1>1, <1>2, <1>5, <2>2 DEF AnswerInv
    <2>5. CASE Pend' = Append(Pend, t) /\ conn' # "deleted" /\ conn # "deleted"
      <3>1. t \notin Range(Pend)
        BY <1>3, <1>4
      <3>2. Range(Pend') = Range(Pend) \cup {t} /\ IsInjective(Pend')
        BY <1>1, <1>3, <2>5, <3>1, AppendRange DEF TaskInv
      <3>3. \A u \in Range(Pend) : u.cmd \in Cmds /\ u.cmd # c
        BY <1>1, <1>4, TaskFacts
      <3>4. t = Task(c, op)
        BY DEF t
      <3>5. TaskInv'
        <4>1. \A u, v \in Range(Pend') : u.cmd = v.cmd => u = v
          BY <1>1, <1>3, <3>2, <3>3 DEF TaskInv
        <4>2. \A u \in Range(Pend') : step'[u.cmd] \in {u.op, "gone"}
          BY <1>1, <1>3, <2>2, <3>2, <3>3 DEF TaskInv
        <4>3. \A d \in Cmds : step'[d] \in {"set", "get"} => Task(d, step'[d]) \in Range(Pend')
          BY <1>1, <2>2, <2>5, <3>2, <3>4 DEF TaskInv
        <4> QED
          BY <3>2, <4>1, <4>2, <4>3 DEF TaskInv
      <3>6. QueueStep
        BY <1>1, <1>3, <2>5, <3>1 DEF QueueStep
      <3> QED
        BY <2>1, <2>3, <2>4, <3>5, <3>6 DEF IndInv
    <2>6. CASE Pend' = Pend /\ conn' = "deleted" /\ conn = "deleted"
      <3>1. \A u \in Range(Pend) : u.cmd \in Cmds /\ u.cmd # c
        BY <1>1, <1>4, TaskFacts
      <3>2. TaskInv'
        BY <1>1, <2>2, <2>6, <3>1 DEF TaskInv
      <3> QED
        BY <1>1, <2>1, <2>3, <2>4, <2>6, <3>2 DEF IndInv, QueueStep
    <2> QED
      BY <2>1, <2>5, <2>6
  <1>6. CASE Refused /\ Ends(c, "error")
    <2>1. UNCHANGED <<m_state, m_ctx, m_wait_tasks, replies, live, connects>>
      BY <1>6 DEF Refused, ConnectRefused, Undefined, redis
    <2>2. /\ conn' \in {"none", "there", "deleted"}
          /\ live = 0
          /\ conn = "deleted" => conn' = "deleted"
      BY <1>1, <1>6 DEF Refused, ConnectRefused, Undefined, redis, ContextInv, TypeOK
    <2>3. Pend' = Pend
      BY <2>1 DEF Pend
    <2>4. /\ AnswerInv'
          /\ step' \in [Cmds -> {"new", "set", "get", "done", "gone"}]
          /\ answer' \in [Cmds -> Seq({"ok", "error"})]
          /\ \A d \in Cmds : step'[d] = IF d = c THEN "done" ELSE step[d]
      BY <1>1, <1>6, EndsInv
    <2>5. TypeOK'
      BY <1>1, <2>1, <2>2, <2>4 DEF TypeOK
    <2>6. ContextInv' /\ QueueInv'
      BY <1>1, <2>1, <2>2 DEF ContextInv, QueueInv, is_active
    <2>7. \A u \in Range(Pend) : u.cmd \in Cmds /\ u.cmd # c
      BY <1>1, <1>4, TaskFacts
    <2>8. TaskInv'
      BY <1>1, <2>2, <2>3, <2>4, <2>7 DEF TaskInv
    <2> QED
      BY <1>1, <2>3, <2>4, <2>5, <2>6, <2>8 DEF IndInv, QueueStep
  <1> QED
    BY <1>5, <1>6 DEF Execute, Send, op

\* The timer of a command deletes it; its task stays.
LEMMA TimeoutInv ==
    ASSUME IndInv, NEW c \in Cmds, Timeout(c)
    PROVE  IndInv' /\ QueueStep
  <1>1. /\ TypeOK /\ ContextInv /\ QueueInv /\ TaskInv /\ AnswerInv
        /\ step[c] \in {"set", "get"}
        /\ UNCHANGED <<answer, conn, m_state, m_ctx, m_wait_tasks, replies, live, connects,
                       called, stored>>
        /\ Range(Pend) \subseteq Tasks
    BY PendFacts DEF IndInv, Timeout, redis
  <1>2. \A d \in Cmds : step'[d] = IF d = c THEN "gone" ELSE step[d]
    BY <1>1 DEF Timeout, TypeOK
  <1>3. Pend' = Pend
    BY <1>1 DEF Pend
  <1>4. \A t \in Range(Pend) : t.cmd \in Cmds
    BY <1>1, TaskFacts
  <1>5. TaskInv'
    BY <1>1, <1>2, <1>3, <1>4 DEF TaskInv
  <1>6. AnswerInv'
    BY <1>1, <1>2 DEF AnswerInv
  <1>7. TypeOK'
    BY <1>1 DEF TypeOK, Timeout
  <1>8. ContextInv' /\ QueueInv'
    BY <1>1 DEF ContextInv, QueueInv, is_active
  <1> QED
    BY <1>1, <1>3, <1>5, <1>6, <1>7, <1>8 DEF IndInv, QueueStep

\* The connection is made: what waited for it becomes requests.
LEMMA OnConnectedInv ==
    ASSUME IndInv, OnConnected
    PROVE  IndInv' /\ QueueStep
  <1>1. /\ TypeOK /\ ContextInv /\ QueueInv /\ TaskInv /\ AnswerInv
        /\ live # 0 /\ m_state = "CONNECTING" /\ m_state' = "CONNECTED"
        /\ replies' = Pend /\ m_wait_tasks' = <<>>
        /\ UNCHANGED <<step, answer, conn, m_ctx, live, connects, called, stored>>
        /\ Pend \in Seq(Tasks)
    BY PendFacts DEF IndInv, OnConnected, Pend
  <1>2. Pend' = Pend
    BY <1>1, ConcatEmptySeq DEF Pend
  <1>3. TaskInv'
    BY <1>1, <1>2 DEF TaskInv
  <1>4. AnswerInv'
    BY <1>1 DEF AnswerInv
  <1>5. TypeOK'
    <2>1. <<>> \in Seq(Tasks)
      BY EmptySeq
    <2> QED
      BY <1>1, <2>1 DEF TypeOK
  <1>6. ContextInv' /\ QueueInv'
    BY <1>1 DEF ContextInv, QueueInv, is_active
  <1> QED
    BY <1>1, <1>2, <1>3, <1>4, <1>5, <1>6 DEF IndInv, QueueStep

\* When all tasks are called back with an error, every command that waits ends
\* with one.
LEMMA CallBackAllInv ==
    ASSUME IndInv, live # 0, CallBackAll(Pend), Pend' = <<>>, conn' = conn,
           stored \subseteq stored'
    PROVE  /\ TaskInv' /\ AnswerInv'
           /\ step' \in [Cmds -> {"new", "set", "get", "done", "gone"}]
           /\ answer' \in [Cmds -> Seq({"ok", "error"})]
           /\ called' \in Seq(Tasks)
           /\ QueueStep
  <1> DEFINE here == {c \in {Pend[i].cmd : i \in 1..Len(Pend)} : step[c] \in {"set", "get"}}
  <1>1. /\ TypeOK /\ ContextInv /\ QueueInv /\ TaskInv /\ AnswerInv
        /\ Pend \in Seq(Tasks) /\ Range(Pend) \subseteq Tasks /\ called \in Seq(Tasks)
        /\ conn = "there"
    BY PendFacts DEF IndInv, TypeOK, ContextInv
  <1>2. /\ called' = called \o Pend
        /\ step' = [c \in Cmds |-> IF c \in here THEN "done" ELSE step[c]]
        /\ answer' = [c \in Cmds |-> IF c \in here THEN Append(answer[c], "error")
                                                   ELSE answer[c]]
    BY DEF CallBackAll
  <1>3. called' \in Seq(Tasks)
    BY <1>1, <1>2, ConcatProperties
  <1>4. \A c \in Cmds : c \in here <=> step[c] \in {"set", "get"}
    <2>1. ASSUME NEW c \in Cmds, step[c] \in {"set", "get"}
          PROVE  c \in here
      <3>1. Task(c, step[c]) \in Range(Pend) /\ Task(c, step[c]).cmd = c
        BY <1>1, <2>1, TaskFacts DEF TaskInv
      <3>2. PICK i \in 1..Len(Pend) : Pend[i] = Task(c, step[c])
        BY <1>1, <3>1, RangeFacts
      <3> QED
        BY <2>1, <3>1, <3>2
    <2> QED
      BY <2>1
  <1> HIDE DEF here
  <1>5. \A c \in Cmds : c \in here => answer[c] = <<>>
    BY <1>1, <1>4 DEF AnswerInv
  <1>6. Append(<<>>, "error") = <<"error">> /\ <<"error">> \in Seq({"ok", "error"})
    OBVIOUS
  <1>7. answer' = [c \in Cmds |-> IF c \in here THEN <<"error">> ELSE answer[c]]
    BY <1>2, <1>5, <1>6
  <1>8. answer' \in [Cmds -> Seq({"ok", "error"})]
    BY <1>1, <1>6, <1>7 DEF TypeOK
  <1>9. step' \in [Cmds -> {"new", "set", "get", "done", "gone"}]
    BY <1>1, <1>2 DEF TypeOK
  <1>10. AnswerInv'
    <2>1. \A c \in Cmds : c \in here => step'[c] = "done" /\ answer'[c] = <<"error">>
      BY <1>2, <1>7
    <2>2. \A c \in Cmds : c \notin here => step'[c] = step[c] /\ answer'[c] = answer[c]
      BY <1>2, <1>7
    <2> QED
      BY <1>1, <2>1, <2>2 DEF AnswerInv
  <1>11. TaskInv'
    <2>1. Range(<<>>) = {} /\ IsInjective(<<>>)
      BY DEF Range, IsInjective
    <2>2. \A c \in Cmds : step'[c] \notin {"set", "get"}
      BY <1>2, <1>4
    <2> QED
      BY <2>1, <2>2 DEF TaskInv
  <1> QED
    BY <1>2, <1>3, <1>8, <1>9, <1>10, <1>11 DEF QueueStep

\* The connection cannot be made.
LEMMA OnConnectFailedInv ==
    ASSUME IndInv, OnConnectFailed
    PROVE  IndInv' /\ QueueStep
  <1>1. /\ TypeOK /\ ContextInv /\ QueueInv
        /\ live # 0 /\ m_ctx' = 0 /\ m_state' = "CLOSED" /\ live' = 0
        /\ replies' = <<>> /\ m_wait_tasks' = <<>> /\ CallBackAll(Pend)
        /\ UNCHANGED <<conn, connects, stored>>
    BY PendFacts DEF IndInv, OnConnectFailed
  <1>2. Pend' = <<>> /\ <<>> \in Seq(Tasks)
    BY <1>1, EmptySeq, ConcatEmptySeq DEF Pend
  <1>3. /\ TaskInv' /\ AnswerInv'
        /\ step' \in [Cmds -> {"new", "set", "get", "done", "gone"}]
        /\ answer' \in [Cmds -> Seq({"ok", "error"})]
        /\ called' \in Seq(Tasks)
        /\ QueueStep
    BY <1>1, <1>2, CallBackAllInv
  <1>4. TypeOK'
    BY <1>1, <1>2, <1>3, CmdsAssumption DEF TypeOK
  <1>5. ContextInv' /\ QueueInv'
    BY <1>1 DEF ContextInv, QueueInv, is_active
  <1> QED
    BY <1>3, <1>4, <1>5 DEF IndInv

\* The server closes the connection.
LEMMA OnDisconnectedInv ==
    ASSUME IndInv, OnDisconnected
    PROVE  IndInv' /\ QueueStep
  <1>1. /\ TypeOK /\ ContextInv /\ QueueInv
        /\ live # 0 /\ m_ctx' = 0 /\ m_state' = "CLOSED" /\ live' = 0
        /\ replies' = <<>> /\ m_wait_tasks' = <<>> /\ CallBackAll(Pend)
        /\ UNCHANGED <<conn, connects>>
    BY DEF IndInv, OnDisconnected, Pend
  <1>2. stored \subseteq stored' /\ stored' \subseteq Cmds
    BY <1>1 DEF OnDisconnected, TypeOK
  <1>3. Pend' = <<>> /\ <<>> \in Seq(Tasks)
    BY <1>1, EmptySeq, ConcatEmptySeq DEF Pend
  <1>4. /\ TaskInv' /\ AnswerInv'
        /\ step' \in [Cmds -> {"new", "set", "get", "done", "gone"}]
        /\ answer' \in [Cmds -> Seq({"ok", "error"})]
        /\ called' \in Seq(Tasks)
        /\ QueueStep
    BY <1>1, <1>2, <1>3, CallBackAllInv
  <1>5. TypeOK'
    BY <1>1, <1>2, <1>3, <1>4, CmdsAssumption DEF TypeOK
  <1>6. ContextInv' /\ QueueInv'
    BY <1>1 DEF ContextInv, QueueInv, is_active
  <1> QED
    BY <1>4, <1>5, <1>6 DEF IndInv

\* An answer comes: its command, if it is still there, ends or has another
\* request.
LEMMA OnReplyInv ==
    ASSUME IndInv, OnReply
    PROVE  IndInv' /\ QueueStep
  <1> DEFINE t == Head(replies)
             c == t.cmd
  <1>1. /\ TypeOK /\ ContextInv /\ QueueInv /\ TaskInv /\ AnswerInv
        /\ live # 0 /\ m_state = "CONNECTED" /\ replies # <<>>
        /\ UNCHANGED <<conn, m_state, m_ctx, m_wait_tasks, live, connects>>
        /\ Pend = replies /\ m_wait_tasks = <<>> /\ Pend \in Seq(Tasks)
        /\ called \in Seq(Tasks) /\ conn = "there"
    BY PendFacts DEF IndInv, OnReply, TypeOK, ContextInv
  <1>2. PICK good \in BOOLEAN :
              /\ t.op = "get" /\ stored = {} => ~good
              /\ stored' = IF t.op = "set" /\ good THEN stored \cup {c} ELSE stored
              /\ called' = Append(called, t)
              /\ IF step[c] \notin {"set", "get"}
                 THEN replies' = Tail(replies) /\ UNCHANGED <<step, answer>>
                 ELSE IF good /\ step[c] = "set" /\ oper[c] # "write" THEN
                      /\ replies' = Append(Tail(replies), Task(c, "get"))
                      /\ step' = [step EXCEPT ![c] = "get"] /\ UNCHANGED answer
                 ELSE replies' = Tail(replies) /\ Ends(c, IF good THEN "ok" ELSE "error")
    BY DEF OnReply
  <1>3. /\ t = Head(Pend) /\ t \in Tasks /\ Tail(Pend) \in Seq(Tasks)
        /\ Range(Pend) = Range(Tail(Pend)) \cup {t}
        /\ IsInjective(Tail(Pend))
        /\ \A u \in Range(Tail(Pend)) : u \in Tasks /\ u.cmd # c
    BY <1>1, HeadFacts
  <1>4. c \in Cmds /\ t.op \in {"set", "get"} /\ t = Task(c, t.op)
    BY <1>3, TaskFacts
  <1> HIDE DEF t, c
  <1>5. \A u \in Range(Tail(Pend)) : u.cmd \in Cmds \ {c}
    BY <1>3, TaskFacts
  <1>6. called' \in Seq(Tasks) /\ called' = Append(called, Head(Pend)) /\ Pend # <<>>
    BY <1>1, <1>2, <1>3, AppendProperties
  <1>7. stored \subseteq stored' /\ stored' \subseteq Cmds
    BY <1>1, <1>2, <1>4 DEF TypeOK
  <1>8. replies' \in Seq(Tasks) => Pend' = replies'
    BY <1>1, ConcatEmptySeq DEF Pend
  <1>9. ContextInv' /\ QueueInv'
    BY <1>1 DEF ContextInv, QueueInv, is_active
  <1>10. \A d \in Cmds \ {c} : step[d] \in {"set", "get"}
                                  => Task(d, step[d]) \in Range(Tail(Pend))
    <2> SUFFICES ASSUME NEW d \in Cmds \ {c}, step[d] \in {"set", "get"}
                 PROVE  Task(d, step[d]) \in Range(Tail(Pend))
      OBVIOUS
    <2>1. Task(d, step[d]) \in Range(Pend) /\ Task(d, step[d]).cmd = d
      BY <1>1, TaskFacts DEF TaskInv
    <2> QED
      BY <1>3, <2>1 DEF c
  <1>11. CASE step[c] # t.op
    <2>1. step[c] = "gone"
      BY <1>1, <1>3, <1>11 DEF TaskInv, c
    <2>2. replies' = Tail(Pend) /\ UNCHANGED <<step, answer>> /\ Pend' = Tail(Pend)
      BY <1>1, <1>2, <1>3, <1>8, <2>1
    <2>3. TaskInv'
      <3>1. \A u \in Range(Pend') : u \in Range(Pend)
        BY <1>3, <2>2
      <3>2. \A d \in Cmds : step[d] \in {"set", "get"} => Task(d, step[d]) \in Range(Pend')
        BY <1>10, <2>2, <2>1
      <3> QED
        BY <1>1, <1>3, <2>2, <3>1, <3>2 DEF TaskInv
    <2>4. AnswerInv'
      BY <1>1, <1>7, <2>2 DEF AnswerInv
    <2>5. TypeOK'
      BY <1>1, <1>3, <1>6, <1>7, <2>2 DEF TypeOK
    <2> QED
      BY <1>6, <1>9, <2>2, <2>3, <2>4, <2>5 DEF IndInv, QueueStep
  <1>12. CASE step[c] = t.op /\ good /\ t.op = "set" /\ oper[c] # "write"
    <2> DEFINE n == Task(c, "get")
    <2>1. /\ replies' = Append(Tail(Pend), n) /\ step' = [step EXCEPT ![c] = "get"]
          /\ UNCHANGED answer /\ stored' = stored \cup {c}
      BY <1>1, <1>2, <1>4, <1>12
    <2>2. n \in Tasks /\ n.cmd = c /\ n.op = "get"
      BY <1>4, TaskFacts
    <2>3. n = Task(c, "get")
      OBVIOUS
    <2> HIDE DEF n
    <2>4. n \notin Range(Tail(Pend)) /\ n # t
      BY <1>3, <1>12, <2>2
    <2>5. /\ replies' \in Seq(Tasks) /\ Pend' = Append(Tail(Pend), n)
          /\ Range(Pend') = Range(Tail(Pend)) \cup {n} /\ IsInjective(Pend')
      <3> DEFINE q == Tail(Pend)
      <3>1. q \in Seq(Tasks) /\ IsInjective(q) /\ n \in Tasks /\ n \notin Range(q)
        BY <1>3, <2>2, <2>4
      <3> HIDE DEF q
      <3>2. /\ Append(q, n) \in Seq(Tasks)
            /\ Range(Append(q, n)) = Range(q) \cup {n}
            /\ IsInjective(Append(q, n))
        BY <3>1, AppendRange
      <3> QED
        BY <1>8, <2>1, <3>2 DEF q
    <2>6. \A d \in Cmds : step'[d] = IF d = c THEN "get" ELSE step[d]
      BY <1>1, <2>1 DEF TypeOK
    <2>7. TaskInv'
      <3>1. \A u, v \in Range(Pend') : u.cmd = v.cmd => u = v
        BY <1>1, <1>3, <2>2, <2>5 DEF TaskInv
      <3>2. \A u \in Range(Pend') : step'[u.cmd] \in {u.op, "gone"}
        BY <1>1, <1>3, <1>4, <1>5, <2>2, <2>5, <2>6 DEF TaskInv
      <3>3. \A d \in Cmds : step'[d] \in {"set", "get"} => Task(d, step'[d]) \in Range(Pend')
        BY <1>10, <2>3, <2>5, <2>6
      <3> QED
        BY <2>5, <3>1, <3>2, <3>3 DEF TaskInv
    <2>8. AnswerInv'
      BY <1>1, <1>12, <2>1, <2>6 DEF AnswerInv
    <2>9. TypeOK'
      BY <1>1, <1>6, <1>7, <2>1, <2>5 DEF TypeOK
    <2>10. QueueStep
      BY <1>3, <1>6, <2>2, <2>4, <2>5 DEF QueueStep
    <2> QED
      BY <1>9, <2>7, <2>8, <2>9, <2>10 DEF IndInv
  <1>13. CASE step[c] = t.op /\ ~(good /\ t.op = "set" /\ oper[c] # "write")
    <2> DEFINE text == IF good THEN "ok" ELSE "error"
    <2>1. replies' = Tail(Pend) /\ Ends(c, text) /\ Pend' = Tail(Pend)
      BY <1>1, <1>2, <1>3, <1>4, <1>8, <1>13
    <2>2. text = "ok" => stored' # {} /\ (oper[c] # "read" => c \in stored')
      BY <1>1, <1>2, <1>4, <1>13 DEF AnswerInv
    <2>3. text \in {"ok", "error"} /\ step[c] # "done"
      BY <1>4, <1>13
    <2> HIDE DEF text
    <2>4. /\ AnswerInv'
          /\ step' \in [Cmds -> {"new", "set", "get", "done", "gone"}]
          /\ answer' \in [Cmds -> Seq({"ok", "error"})]
          /\ \A d \in Cmds : step'[d] = IF d = c THEN "done" ELSE step[d]
      BY <1>1, <1>4, <1>7, <2>1, <2>2, <2>3, EndsInv
    <2>5. TaskInv'
      <3>1. \A u \in Range(Pend') : u \in Range(Pend)
        BY <1>3, <2>1
      <3>2. \A d \in Cmds : step'[d] \in {"set", "get"} => Task(d, step'[d]) \in Range(Pend')
        BY <1>10, <2>1, <2>4
      <3>3. \A u \in Range(Pend') : step'[u.cmd] \in {u.op, "gone"}
        BY <1>1, <1>5, <2>1, <2>4, <3>1 DEF TaskInv
      <3> QED
        BY <1>1, <1>3, <2>1, <3>1, <3>2, <3>3 DEF TaskInv
    <2>6. TypeOK'
      BY <1>1, <1>3, <1>6, <1>7, <2>1, <2>4 DEF TypeOK
    <2> QED
      BY <1>6, <1>9, <2>1, <2>4, <2>5, <2>6 DEF IndInv, QueueStep
  <1> QED
    BY <1>11, <1>12, <1>13

-----------------------------------------------------------------------------
(* The theorems *)

\* At the start nothing waits and no command has an answer.
LEMMA InitInv == Init => IndInv
  <1> SUFFICES ASSUME Init PROVE IndInv
    OBVIOUS
  <1>1. <<>> \in Seq(Tasks) /\ <<>> \in Seq({"ok", "error"})
    BY EmptySeq
  <1>2. Pend = <<>>
    BY <1>1, ConcatEmptySeq DEF Init, Pend
  <1>3. Range(<<>>) = {} /\ IsInjective(<<>>)
    BY DEF Range, IsInjective
  <1>4. TaskInv
    BY <1>2, <1>3 DEF Init, TaskInv
  <1>5. TypeOK
    BY <1>1, CmdsAssumption DEF Init, TypeOK
  <1>6. ContextInv /\ QueueInv /\ AnswerInv
    BY DEF Init, ContextInv, QueueInv, AnswerInv, is_active
  <1> QED
    BY <1>4, <1>5, <1>6 DEF IndInv

\* Every step of a command, of a timer and of hiredis preserves the invariant.
LEMMA NextInv == IndInv /\ [Next]_vars => IndInv' /\ QueueStep
  <1> SUFFICES ASSUME IndInv, [Next]_vars PROVE IndInv' /\ QueueStep
    OBVIOUS
  <1>1. ASSUME NEW c \in Cmds, Execute(c) PROVE IndInv' /\ QueueStep
    BY <1>1, ExecuteInv
  <1>2. ASSUME NEW c \in Cmds, Timeout(c) PROVE IndInv' /\ QueueStep
    BY <1>2, TimeoutInv
  <1>3. CASE OnConnected
    BY <1>3, OnConnectedInv
  <1>4. CASE OnConnectFailed
    BY <1>4, OnConnectFailedInv
  <1>5. CASE OnReply
    BY <1>5, OnReplyInv
  <1>6. CASE OnDisconnected
    BY <1>6, OnDisconnectedInv
  <1>7. CASE UNCHANGED vars
    <2>1. TypeOK' /\ ContextInv' /\ QueueInv' /\ AnswerInv'
      BY <1>7 DEF vars, redis, IndInv, TypeOK, ContextInv, QueueInv, AnswerInv, is_active
    <2>2. Pend' = Pend /\ TaskInv'
      BY <1>7 DEF vars, redis, IndInv, TaskInv, Pend
    <2> QED
      BY <1>7, <2>1, <2>2 DEF vars, IndInv, QueueStep
  <1> QED
    BY <1>1, <1>2, <1>3, <1>4, <1>5, <1>6, <1>7 DEF Next

\* The inductive invariant holds in every reachable state.
THEOREM Invariance == Spec => []IndInv
  BY InitInv, NextInv, PTL DEF Spec

\* The connection never uses a context that hiredis has freed, and its state
\* tells whether it has one (on_redis_connect_libev_callback and
\* on_redis_disconnect_libev_callback).
THEOREM NoStaleContext == Spec => []ContextIsLive
  <1>1. IndInv => ContextIsLive
    BY DEF IndInv, ContextInv, ContextIsLive
  <1> QED
    BY <1>1, Invariance, PTL

\* A command answers at most once and truly, and one that waits has its task
\* in the connection unless that was deleted (on_redis_callback, get_conn).
THEOREM AnswersTrue == Spec => []AnswersAreTrue
  <1>1. IndInv => AnswersAreTrue
    <2> SUFFICES ASSUME IndInv, NEW c \in Cmds
                 PROVE  /\ Len(answer[c]) <= 1
                        /\ answer[c] = <<"ok">> /\ oper[c] # "read" => c \in stored
                        /\ answer[c] = <<"ok">> => stored # {}
                        /\ step[c] \in {"set", "get"} /\ conn # "deleted" =>
                              Contains(Pend, Task(c, step[c]))
      BY DEF AnswersAreTrue, Pend
    <2>1. Pend \in Seq(Tasks)
      BY PendFacts DEF IndInv
    <2>2. step[c] \in {"set", "get"} /\ conn # "deleted" => Contains(Pend, Task(c, step[c]))
      BY <2>1, RangeFacts DEF IndInv, TaskInv, Contains
    <2>3. \/ answer[c] = <<>> \/ answer[c] = <<"error">>
          \/ /\ answer[c] = <<"ok">> /\ stored # {}
             /\ oper[c] # "read" => c \in stored
      BY DEF IndInv, AnswerInv
    <2>4. <<>> # <<"ok">> /\ <<"error">> # <<"ok">>
      OBVIOUS
    <2>5. Len(answer[c]) <= 1
      <3>1. answer[c] = <<>> => Len(answer[c]) = 0
        OBVIOUS
      <3>2. answer[c] = <<"error">> => Len(answer[c]) = 1
        OBVIOUS
      <3>3. answer[c] = <<"ok">> => Len(answer[c]) = 1
        OBVIOUS
      <3>4. Len(answer[c]) \in {0, 1}
        BY <2>3, <3>1, <3>2, <3>3
      <3>5. \A n \in {0, 1} : n <= 1
        OBVIOUS
      <3> QED
        BY <3>4, <3>5
    <2>6. answer[c] = <<"ok">> => stored # {} /\ (oper[c] # "read" => c \in stored)
      BY <2>3, <2>4
    <2> QED
      BY <2>2, <2>5, <2>6
  <1> QED
    BY <1>1, Invariance, PTL

\* The connection implements TaskQueue: every task it takes is called back
\* once and in order, whatever becomes of the connection (safety; that it is
\* called back in the end is checked by TLC).
THEOREM RedisImplementsTaskQueue == Spec => ImplementsTaskQueue
  <1>1. Init => Pending!Init
    BY ConcatEmptySeq, EmptySeq DEF Init, Pending!Init
  <1>2. ASSUME IndInv, QueueStep PROVE [Pending!Next]_(Pending!vars)
    <2> DEFINE n == Len(Pend)
    <2>1. Pend \in Seq(Tasks) /\ called \in Seq(Tasks) /\ n \in Nat
      BY <1>2, PendFacts, LenProperties DEF IndInv, TypeOK
    <2>2. \A t \in Tasks \ Range(Pend) : t \in Pending!New
      <3>1. \A i \in 1..n : Pend[i] \in Range(Pend)
        BY <2>1, RangeFacts
      <3> QED
        BY <3>1 DEF Pending!New, Pend
    <2>3. CASE Pend' = Pend /\ called' = called
      BY <2>3 DEF Pending!vars, Pend
    <2>4. CASE \E t \in Tasks \ Range(Pend) : Pend' = Append(Pend, t) /\ called' = called
      BY <2>2, <2>4 DEF Pending!Next, Pending!Take, Pend
    <2>5. CASE /\ Pend # <<>> /\ called' = Append(called, Head(Pend))
               /\ \/ Pend' = Tail(Pend)
                  \/ \E t \in Tasks \ Range(Pend) : Pend' = Append(Tail(Pend), t)
      <3>1. n >= 1 /\ Head(Pend) \in Tasks /\ Head(Pend) = Pend[1] /\ Tail(Pend) \in Seq(Tasks)
        BY <2>1, <2>5, HeadTailProperties, EmptySeq
      <3>2. /\ SubSeq(Pend, 1, 1) = <<Pend[1]>>
            /\ Tail(Pend) = SubSeq(Pend, 2, n)
        <4>1. SubSeq(Pend, 1, 1) = <<Pend[1]>> \o SubSeq(Pend, 2, 1)
          BY <2>1, <3>1, SubSeqRecursiveFirst
        <4>2. SubSeq(Pend, 2, 1) = <<>> /\ <<Pend[1]>> \o <<>> = <<Pend[1]>>
          BY SubSeqEmpty
        <4>3. Tail(Pend) = SubSeq(Pend, 2, n)
          BY <2>1, <2>5, TailIsSubSeq
        <4> QED
          BY <4>1, <4>2, <4>3
      <3>3. called' = called \o SubSeq(Pend, 1, 1)
        BY <2>1, <2>5, <3>1, <3>2, AppendIsConcat
      <3>4. ASSUME NEW more \in {<<>>} \cup {<<t>> : t \in Pending!New},
                   Pend' = SubSeq(Pend, 2, n) \o more
            PROVE  Pending!Next
        <4>1. Pending!CallBack(1, more)
          BY <3>3, <3>4 DEF Pending!CallBack, Pend
        <4> QED
          BY <2>1, <3>1, <4>1 DEF Pending!Next, Pend
      <3>5. CASE Pend' = Tail(Pend)
        <4>1. Pend' = SubSeq(Pend, 2, n) \o <<>>
          BY <3>1, <3>2, <3>5, ConcatEmptySeq
        <4> QED
          BY <3>4, <4>1
      <3>6. CASE \E t \in Tasks \ Range(Pend) : Pend' = Append(Tail(Pend), t)
        <4>1. PICK t \in Tasks \ Range(Pend) : Pend' = Append(Tail(Pend), t)
          BY <3>6
        <4>2. Pend' = SubSeq(Pend, 2, n) \o <<t>>
          BY <3>1, <3>2, <4>1, AppendIsConcat
        <4> QED
          BY <2>2, <3>4, <4>2
      <3> QED
        BY <2>5, <3>5, <3>6
    <2>6. CASE Pend' = <<>> /\ called' = called \o Pend
      <3>1. CASE Pend = <<>>
        <4>1. called' = called
          BY <2>1, <2>6, <3>1, ConcatEmptySeq
        <4> QED
          BY <2>3, <2>6, <3>1, <4>1
      <3>2. CASE Pend # <<>>
        <4>1. n >= 1 /\ SubSeq(Pend, 1, n) = Pend /\ SubSeq(Pend, n + 1, n) = <<>>
          BY <2>1, <3>2, EmptySeq, SubSeqFull, SubSeqEmpty
        <4>2. <<>> \o <<>> = <<>>
          BY EmptySeq, ConcatEmptySeq
        <4>3. Pending!CallBack(n, <<>>)
          BY <2>6, <4>1, <4>2 DEF Pending!CallBack, Pend
        <4> QED
          BY <2>1, <4>1, <4>3 DEF Pending!Next, Pend
      <3> QED
        BY <3>1, <3>2
    <2> QED
      BY <1>2, <2>3, <2>4, <2>5, <2>6 DEF QueueStep
  <1>3. IndInv /\ [Next]_vars => [Pending!Next]_(Pending!vars)
    BY <1>2, NextInv
  <1> QED
    BY <1>1, <1>3, Invariance, PTL DEF Spec, ImplementsTaskQueue, Pending!Spec
=============================================================================
