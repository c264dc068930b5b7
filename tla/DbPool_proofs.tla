---------------------------- MODULE DbPool_proofs ----------------------------
(***************************************************************************)
(* TLAPS proofs about DbPool, for every set of commands, databases and     *)
(* sizes of pools: a command waits for one task, answers once and truly,   *)
(* and the connections of one pool are used in turn.                       *)
(***************************************************************************)
EXTENDS DbPool, SequenceTheorems, FiniteSetTheorems, TLAPS

-----------------------------------------------------------------------------
(* Sequences *)

\* The elements of a sequence, by index.
LEMMA RangeFacts ==
    ASSUME NEW S, NEW s \in Seq(S)
    PROVE  /\ DOMAIN s = 1..Len(s)
           /\ Len(s) \in Nat
           /\ Range(s) = {s[j] : j \in 1..Len(s)}
           /\ Range(s) \subseteq S
  BY LenProperties, ElementOfSeq DEF Range

\* Append adds one element at the end.
LEMMA AppendRange ==
    ASSUME NEW S, NEW s \in Seq(S), NEW e \in S
    PROVE  /\ Append(s, e) \in Seq(S)
           /\ Range(Append(s, e)) = Range(s) \cup {e}
           /\ IsInjective(s) /\ e \notin Range(s) => IsInjective(Append(s, e))
  <1> DEFINE t == Append(s, e)
  <1>1. /\ t \in Seq(S) /\ Len(t) = Len(s) + 1
        /\ \A j \in 1..Len(s) : t[j] = s[j]
        /\ t[Len(s) + 1] = e
    BY AppendProperties
  <1> HIDE DEF t
  <1>2. DOMAIN s = 1..Len(s) /\ DOMAIN t = 1..Len(t) /\ Len(s) \in Nat
    BY <1>1, RangeFacts
  <1>3. Range(t) = Range(s) \cup {e}
    BY <1>1, <1>2 DEF Range
  <1>4. ASSUME IsInjective(s), e \notin Range(s)
        PROVE  IsInjective(t)
    <2>1. \A j \in 1..Len(s) : s[j] # e
      BY <1>2, <1>4 DEF Range
    <2>2. \A i, j \in 1..Len(s) : s[i] = s[j] => i = j
      BY <1>2, <1>4 DEF IsInjective
    <2>3. SUFFICES ASSUME NEW i \in 1..Len(t), NEW j \in 1..Len(t), t[i] = t[j]
                   PROVE  i = j
      BY <1>2 DEF IsInjective
    <2>4. /\ i \in 1..Len(s) \/ i = Len(s) + 1
          /\ j \in 1..Len(s) \/ j = Len(s) + 1
      BY <1>1, <1>2
    <2> QED
      BY <1>1, <2>1, <2>2, <2>3, <2>4
  <1> QED
    BY <1>1, <1>3, <1>4 DEF t

\* Head and Tail take the first element off.
LEMMA TailRange ==
    ASSUME NEW S, NEW s \in Seq(S), s # <<>>
    PROVE  /\ Head(s) \in S
           /\ Tail(s) \in Seq(S)
           /\ Range(s) = Range(Tail(s)) \cup {Head(s)}
           /\ IsInjective(s) => Head(s) \notin Range(Tail(s)) /\ IsInjective(Tail(s))
  <1> DEFINE t == Tail(s)
  <1>1. /\ Head(s) \in S /\ t \in Seq(S) /\ Len(t) = Len(s) - 1
        /\ \A j \in 1..Len(t) : t[j] = s[j + 1]
        /\ Head(s) = s[1]
    BY HeadTailProperties
  <1> HIDE DEF t
  <1>2. /\ DOMAIN s = 1..Len(s) /\ DOMAIN t = 1..Len(t)
        /\ Len(s) \in Nat /\ Len(s) >= 1 /\ Len(t) \in Nat
    BY <1>1, RangeFacts, EmptySeq
  <1>3. Range(s) = Range(t) \cup {Head(s)}
    <2>1. ASSUME NEW x \in Range(s)
          PROVE  x \in Range(t) \cup {Head(s)}
      <3>1. PICK j \in 1..Len(s) : x = s[j]
        BY <1>2 DEF Range
      <3>2. CASE j = 1
        BY <1>1, <3>1, <3>2
      <3>3. CASE j # 1
        <4>1. j - 1 \in 1..Len(t) /\ (j - 1) + 1 = j
          BY <1>1, <1>2, <3>3
        <4> QED
          BY <1>1, <1>2, <3>1, <4>1 DEF Range
      <3> QED
        BY <3>2, <3>3
    <2>2. ASSUME NEW x \in Range(t)
          PROVE  x \in Range(s)
      <3>1. PICK j \in 1..Len(t) : x = t[j]
        BY <1>2 DEF Range
      <3> QED
        BY <1>1, <1>2, <3>1 DEF Range
    <2>3. Head(s) \in Range(s)
      BY <1>1, <1>2 DEF Range
    <2> QED
      BY <2>1, <2>2, <2>3
  <1>4. ASSUME IsInjective(s)
        PROVE  Head(s) \notin Range(t) /\ IsInjective(t)
    <2>1. \A i, j \in 1..Len(s) : s[i] = s[j] => i = j
      BY <1>2, <1>4 DEF IsInjective
    <2>2. \A j \in 1..Len(t) : j + 1 \in 1..Len(s) /\ j + 1 # 1 /\ t[j] = s[j + 1]
      BY <1>1, <1>2
    <2>3. \A j \in 1..Len(t) : t[j] # Head(s)
      BY <1>1, <1>2, <2>1, <2>2
    <2>4. \A i, j \in 1..Len(t) : t[i] = t[j] => i = j
      BY <1>2, <2>1, <2>2
    <2> QED
      BY <1>2, <2>3, <2>4 DEF IsInjective, Range
  <1> QED
    BY <1>1, <1>3, <1>4 DEF t

-----------------------------------------------------------------------------
(* Pools as values *)

Conn == [up : BOOLEAN, tasks : Seq(Tasks), uses : Nat]

\* The pools have their type, and an iterator is in its list or not valid.
PoolsOK(conns) ==
    /\ conns \in [Identities -> [list : Seq(Conn), iter : Nat]]
    /\ \A i \in Identities : conns[i].iter <= Len(conns[i].list)

\* The tasks that one connection has, and those that any has.
QueueOf(conns, i, k) == conns[i].list[k].tasks
Held(conns) ==
    {t \in Tasks : \E i \in Identities : \E k \in 1..Len(conns[i].list) :
        t \in Range(QueueOf(conns, i, k))}

\* No task is queued twice.
Apart(conns) ==
    \A i, j \in Identities : \A k \in 1..Len(conns[i].list), m \in 1..Len(conns[j].list) :
        /\ IsInjective(QueueOf(conns, i, k))
        /\ (i = j /\ k = m) \/ Range(QueueOf(conns, i, k)) \cap Range(QueueOf(conns, j, m)) = {}

\* The pools with another connection in one place.
Put(conns, i, k, x) == [conns EXCEPT ![i].list[k] = x]

\* A pool, by its parts.
LEMMA PoolFacts ==
    ASSUME NEW conns, PoolsOK(conns), NEW i \in Identities
    PROVE  /\ conns[i] = [list |-> conns[i].list, iter |-> conns[i].iter]
           /\ conns[i].list \in Seq(Conn) /\ conns[i].iter \in Nat
           /\ Len(conns[i].list) \in Nat /\ DOMAIN conns[i].list = 1..Len(conns[i].list)
           /\ conns[i].iter <= Len(conns[i].list)
           /\ \A k \in 1..Len(conns[i].list) :
                 /\ conns[i].list[k] \in Conn
                 /\ QueueOf(conns, i, k) \in Seq(Tasks)
                 /\ conns[i].list[k].up \in BOOLEAN /\ conns[i].list[k].uses \in Nat
                 /\ Range(QueueOf(conns, i, k)) \subseteq Tasks
  <1>1. conns[i] \in [list : Seq(Conn), iter : Nat] /\ conns[i].iter <= Len(conns[i].list)
    BY DEF PoolsOK
  <1>2. /\ conns[i] = [list |-> conns[i].list, iter |-> conns[i].iter]
        /\ conns[i].list \in Seq(Conn) /\ conns[i].iter \in Nat
    BY <1>1
  <1>3. Len(conns[i].list) \in Nat /\ DOMAIN conns[i].list = 1..Len(conns[i].list)
    BY <1>2, LenProperties
  <1>4. ASSUME NEW k \in 1..Len(conns[i].list)
        PROVE  /\ conns[i].list[k] \in Conn
               /\ QueueOf(conns, i, k) \in Seq(Tasks)
               /\ conns[i].list[k].up \in BOOLEAN /\ conns[i].list[k].uses \in Nat
               /\ Range(QueueOf(conns, i, k)) \subseteq Tasks
    <2>1. conns[i].list[k] \in Conn
      BY <1>2, ElementOfSeq
    <2>2. /\ conns[i].list[k].tasks \in Seq(Tasks)
          /\ conns[i].list[k].up \in BOOLEAN /\ conns[i].list[k].uses \in Nat
      BY <2>1 DEF Conn
    <2> QED
      BY <2>1, <2>2, RangeFacts DEF QueueOf
  <1> QED
    BY <1>1, <1>2, <1>3, <1>4

\* Put changes one connection and nothing else.
LEMMA PutFacts ==
    ASSUME NEW conns, PoolsOK(conns), NEW i \in Identities,
           NEW k \in 1..Len(conns[i].list), NEW x \in Conn
    PROVE  LET d == Put(conns, i, k, x)
           IN  /\ PoolsOK(d)
               /\ \A j \in Identities : Len(d[j].list) = Len(conns[j].list) /\ d[j].iter = conns[j].iter
               /\ \A j \in Identities : \A m \in 1..Len(conns[j].list) :
                     d[j].list[m] = IF j = i /\ m = k THEN x ELSE conns[j].list[m]
  <1> DEFINE d == Put(conns, i, k, x)
             list == conns[i].list
             new == [list EXCEPT ![k] = x]
  <1>1. /\ list \in Seq(Conn) /\ conns[i].iter \in Nat /\ conns[i].iter <= Len(list)
        /\ conns[i] = [list |-> list, iter |-> conns[i].iter] /\ k \in 1..Len(list)
    BY PoolFacts
  <1>2. new \in Seq(Conn) /\ Len(new) = Len(list) /\
        \A m \in 1..Len(list) : new[m] = IF m = k THEN x ELSE list[m]
    BY <1>1, ExceptSeq
  <1>3. conns \in [Identities -> [list : Seq(Conn), iter : Nat]]
    BY DEF PoolsOK
  <1>4. d = [conns EXCEPT ![i] = [conns[i] EXCEPT !.list = new]]
    BY DEF Put
  <1> HIDE DEF new, d
  <1>5. [conns[i] EXCEPT !.list = new] = [list |-> new, iter |-> conns[i].iter]
    BY <1>1
  <1>6. /\ d \in [Identities -> [list : Seq(Conn), iter : Nat]]
        /\ d[i] = [list |-> new, iter |-> conns[i].iter]
        /\ \A j \in Identities : j # i => d[j] = conns[j]
    BY <1>1, <1>2, <1>3, <1>4, <1>5
  <1>7. d[i].list = new /\ d[i].iter = conns[i].iter
    BY <1>6
  <1>8. \A j \in Identities : Len(d[j].list) = Len(conns[j].list) /\ d[j].iter = conns[j].iter
    BY <1>2, <1>6, <1>7
  <1>9. \A j \in Identities : \A m \in 1..Len(conns[j].list) :
           d[j].list[m] = IF j = i /\ m = k THEN x ELSE conns[j].list[m]
    BY <1>2, <1>6, <1>7
  <1>10. PoolsOK(d)
    <2>1. \A j \in Identities : conns[j].iter <= Len(conns[j].list)
      BY DEF PoolsOK
    <2> QED
      BY <1>6, <1>8, <2>1 DEF PoolsOK
  <1> QED
    BY <1>8, <1>9, <1>10 DEF d

\* A connection with the same tasks: the queues stay as they are.
LEMMA PutSame ==
    ASSUME NEW conns, PoolsOK(conns), NEW i \in Identities,
           NEW k \in 1..Len(conns[i].list), NEW x \in Conn, x.tasks = QueueOf(conns, i, k)
    PROVE  LET d == Put(conns, i, k, x)
           IN  Held(d) = Held(conns) /\ (Apart(conns) => Apart(d))
  <1> DEFINE d == Put(conns, i, k, x)
  <1>1. \A j \in Identities : Len(d[j].list) = Len(conns[j].list)
    BY PutFacts
  <1>2. \A j \in Identities : \A m \in 1..Len(conns[j].list) :
           QueueOf(d, j, m) = QueueOf(conns, j, m)
    BY PutFacts DEF QueueOf
  <1> HIDE DEF d
  <1>3. Held(d) = Held(conns)
    BY <1>1, <1>2 DEF Held
  <1>4. Apart(conns) => Apart(d)
    BY <1>1, <1>2 DEF Apart
  <1> QED
    BY <1>3, <1>4 DEF d

\* A task more at the end of one queue.
LEMMA PutMore ==
    ASSUME NEW conns, PoolsOK(conns), Apart(conns), NEW i \in Identities,
           NEW k \in 1..Len(conns[i].list), NEW x \in Conn,
           NEW t \in Tasks \ Held(conns), x.tasks = Append(QueueOf(conns, i, k), t)
    PROVE  LET d == Put(conns, i, k, x)
           IN  Held(d) = Held(conns) \cup {t} /\ Apart(d)
  <1> DEFINE d == Put(conns, i, k, x)
             q == QueueOf(conns, i, k)
  <1>1. \A j \in Identities : Len(d[j].list) = Len(conns[j].list)
    BY PutFacts
  <1>2. \A j \in Identities : \A m \in 1..Len(conns[j].list) :
           QueueOf(d, j, m) = IF j = i /\ m = k THEN Append(q, t) ELSE QueueOf(conns, j, m)
    <2>1. \A j \in Identities : \A m \in 1..Len(conns[j].list) :
             d[j].list[m] = IF j = i /\ m = k THEN x ELSE conns[j].list[m]
      BY PutFacts
    <2>2. x.tasks = Append(q, t)
      OBVIOUS
    <2> HIDE DEF d, q
    <2> QED
      BY <2>1, <2>2 DEF QueueOf
  <1>3. q \in Seq(Tasks) /\ IsInjective(q)
    BY PoolFacts DEF Apart
  <1>4. \A j \in Identities : \A m \in 1..Len(conns[j].list) :
           t \notin Range(QueueOf(conns, j, m))
    BY DEF Held
  <1> HIDE DEF d, q
  <1>5. Range(Append(q, t)) = Range(q) \cup {t} /\ IsInjective(Append(q, t))
    BY <1>3, <1>4, AppendRange DEF q
  <1>6. Held(d) = Held(conns) \cup {t}
    <2>1. \A u \in Held(d) : u \in Held(conns) \cup {t}
      BY <1>1, <1>2, <1>5 DEF Held, q
    <2>2. \A u \in Held(conns) : u \in Held(d)
      BY <1>1, <1>2, <1>5 DEF Held, q
    <2>3. t \in Held(d)
      BY <1>1, <1>2, <1>5 DEF Held
    <2> QED
      BY <2>1, <2>2, <2>3
  <1>7. Apart(d)
    <2>1. SUFFICES ASSUME NEW j \in Identities, NEW l \in Identities,
                          NEW m \in 1..Len(conns[j].list), NEW n \in 1..Len(conns[l].list)
                   PROVE  /\ IsInjective(QueueOf(d, j, m))
                          /\ (j = l /\ m = n) \/
                             Range(QueueOf(d, j, m)) \cap Range(QueueOf(d, l, n)) = {}
      BY <1>1 DEF Apart
    <2>2. IsInjective(QueueOf(conns, j, m))
      BY DEF Apart
    <2>3. (j = l /\ m = n) \/
          Range(QueueOf(conns, j, m)) \cap Range(QueueOf(conns, l, n)) = {}
      BY DEF Apart
    <2>4. IsInjective(QueueOf(d, j, m))
      BY <1>2, <1>5, <2>2
    <2>5. ASSUME ~(j = l /\ m = n)
          PROVE  Range(QueueOf(d, j, m)) \cap Range(QueueOf(d, l, n)) = {}
      <3>1. CASE j = i /\ m = k
        <4>1. Range(QueueOf(d, j, m)) = Range(QueueOf(conns, j, m)) \cup {t}
          BY <1>2, <1>5, <3>1 DEF q
        <4>2. QueueOf(d, l, n) = QueueOf(conns, l, n)
          BY <1>2, <2>5, <3>1
        <4> QED
          BY <1>4, <2>3, <2>5, <4>1, <4>2
      <3>2. CASE l = i /\ n = k
        <4>1. Range(QueueOf(d, l, n)) = Range(QueueOf(conns, l, n)) \cup {t}
          BY <1>2, <1>5, <3>2 DEF q
        <4>2. QueueOf(d, j, m) = QueueOf(conns, j, m)
          BY <1>2, <2>5, <3>2
        <4> QED
          BY <1>4, <2>3, <2>5, <4>1, <4>2
      <3>3. CASE ~(j = i /\ m = k) /\ ~(l = i /\ n = k)
        BY <1>2, <2>3, <2>5, <3>3
      <3> QED
        BY <3>1, <3>2, <3>3
    <2> QED
      BY <2>4, <2>5
  <1> QED
    BY <1>6, <1>7 DEF d

\* The first task of one queue less.
LEMMA PutLess ==
    ASSUME NEW conns, PoolsOK(conns), Apart(conns), NEW i \in Identities,
           NEW k \in 1..Len(conns[i].list), NEW x \in Conn,
           QueueOf(conns, i, k) # <<>>, x.tasks = Tail(QueueOf(conns, i, k))
    PROVE  LET d == Put(conns, i, k, x)
               t == Head(QueueOf(conns, i, k))
           IN  /\ t \in Held(conns) /\ Held(d) = Held(conns) \ {t} /\ Apart(d)
  <1> DEFINE d == Put(conns, i, k, x)
             q == QueueOf(conns, i, k)
             t == Head(q)
  <1>1. \A j \in Identities : Len(d[j].list) = Len(conns[j].list)
    BY PutFacts
  <1>2. \A j \in Identities : \A m \in 1..Len(conns[j].list) :
           QueueOf(d, j, m) = IF j = i /\ m = k THEN Tail(q) ELSE QueueOf(conns, j, m)
    BY PutFacts DEF QueueOf
  <1>3. q \in Seq(Tasks) /\ IsInjective(q) /\ q # <<>>
    BY PoolFacts DEF Apart
  <1> HIDE DEF d, q
  <1>4. /\ t \in Tasks /\ Range(q) = Range(Tail(q)) \cup {t} /\ t \notin Range(Tail(q))
        /\ IsInjective(Tail(q))
    BY <1>3, TailRange
  <1> HIDE DEF t
  <1>5. t \in Held(conns)
    BY <1>4 DEF Held, q
  <1>6. ASSUME NEW j \in Identities, NEW m \in 1..Len(conns[j].list)
        PROVE  Range(QueueOf(d, j, m)) = Range(QueueOf(conns, j, m)) \ {t}
    <2>1. CASE j = i /\ m = k
      BY <1>2, <1>4, <2>1 DEF q
    <2>2. CASE ~(j = i /\ m = k)
      <3>1. Range(QueueOf(conns, j, m)) \cap Range(q) = {}
        BY <2>2 DEF Apart, q
      <3> QED
        BY <1>2, <1>4, <2>2, <3>1
    <2> QED
      BY <2>1, <2>2
  <1>7. Held(d) = Held(conns) \ {t}
    BY <1>1, <1>6 DEF Held
  <1>8. Apart(d)
    <2>1. SUFFICES ASSUME NEW j \in Identities, NEW l \in Identities,
                          NEW m \in 1..Len(conns[j].list), NEW n \in 1..Len(conns[l].list)
                   PROVE  /\ IsInjective(QueueOf(d, j, m))
                          /\ (j = l /\ m = n) \/
                             Range(QueueOf(d, j, m)) \cap Range(QueueOf(d, l, n)) = {}
      BY <1>1 DEF Apart
    <2>2. IsInjective(QueueOf(conns, j, m))
      BY DEF Apart
    <2>3. (j = l /\ m = n) \/
          Range(QueueOf(conns, j, m)) \cap Range(QueueOf(conns, l, n)) = {}
      BY DEF Apart
    <2>4. IsInjective(QueueOf(d, j, m))
      BY <1>2, <1>4, <2>2
    <2> QED
      BY <1>6, <2>3, <2>4
  <1> QED
    BY <1>5, <1>7, <1>8 DEF d, t, q

-----------------------------------------------------------------------------
(* get_conn and handle_sql *)

\* A new connection has no tasks and was not used.
LEMMA NewFacts ==
    ASSUME NEW c \in New
    PROVE  c \in Conn /\ c.tasks = <<>> /\ c.uses = 0
  <1> DEFINE none == <<>>
  <1>1. none \in Seq(Tasks)
    BY EmptySeq
  <1>2. PICK up \in BOOLEAN : c = [up |-> up, tasks |-> none, uses |-> 0]
    BY DEF New
  <1> HIDE DEF none
  <1>3. c \in Conn /\ c.tasks = none /\ c.uses = 0
    BY <1>1, <1>2 DEF Conn
  <1> QED
    BY <1>3 DEF none

\* The three ways of get_conn: the first connection of a list, one more, or the
\* next one in turn.
First(g, conns, i) ==
    /\ conns[i].list = <<>> /\ g.at = 1 /\ g.ok = TRUE
    /\ \E c \in New, j \in {j \in Identities : conns[j].list # <<>>} \cup {i} :
          g.conns = [[conns EXCEPT ![i].list = <<c>>] EXCEPT ![j].iter = 1]

More(g, conns, i) ==
    /\ conns[i].list # <<>> /\ g.at = Len(conns[i].list) + 1 /\ g.ok = TRUE
    /\ \E c \in New : g.conns = [conns EXCEPT ![i].list = Append(@, c)]

Turn(conns, i) == IF conns[i].iter = Len(conns[i].list) THEN 1 ELSE conns[i].iter + 1

Again(g, conns, i) ==
    /\ conns[i].list # <<>> /\ g.at = Turn(conns, i)
    /\ g.ok = conns[i].list[Turn(conns, i)].up
    /\ g.conns = [conns EXCEPT ![i].iter = Turn(conns, i)]

\* get_conn goes one of those ways; one more connection is made while the list
\* is shorter than the name of the database allows.
LEMMA GetConnCases ==
    ASSUME NEW conns, NEW n \in Nodes, NEW g \in get_conn(conns, n)
    PROVE  LET i == identity[n]
           IN  \/ First(g, conns, i)
               \/ More(g, conns, i) /\ Len(conns[i].list) < max_conn_cnt[n]
               \/ Again(g, conns, i) /\ ~(Len(conns[i].list) < max_conn_cnt[n])
  <1> DEFINE i == identity[n]
             list == conns[i].list
             turn == IF conns[i].iter = Len(list) THEN 1 ELSE conns[i].iter + 1
             begin == {j \in Identities : conns[j].list # <<>>} \cup {i}
             R(c, j) == [at |-> 1, ok |-> TRUE,
                         conns |-> [[conns EXCEPT ![i].list = <<c>>] EXCEPT ![j].iter = 1]]
             A == {R(c, j) : c \in New, j \in begin}
             B == {[at |-> Len(list) + 1, ok |-> TRUE,
                    conns |-> [conns EXCEPT ![i].list = Append(@, c)]] : c \in New}
             C == {[at |-> turn, ok |-> list[turn].up, conns |-> [conns EXCEPT ![i].iter = turn]]}
             short == Len(list) < max_conn_cnt[n]
  <1>1. get_conn(conns, n) = CASE list = <<>> -> A [] list # <<>> /\ short -> B [] OTHER -> C
    BY DEF get_conn
  <1>2. ASSUME g \in A, list = <<>> PROVE First(g, conns, i)
    <2> HIDE DEF R, begin
    <2>1. PICK c \in New, j \in begin : g = R(c, j)
      BY <1>2
    <2> USE DEF R, begin
    <2>2. /\ g.at = 1 /\ g.ok = TRUE
          /\ g.conns = [[conns EXCEPT ![i].list = <<c>>] EXCEPT ![j].iter = 1]
      BY <2>1
    <2> QED
      BY <1>2, <2>2 DEF First
  <1>3. ASSUME g \in B, list # <<>> PROVE More(g, conns, i)
    <2>1. PICK c \in New :
             g = [at |-> Len(list) + 1, ok |-> TRUE,
                  conns |-> [conns EXCEPT ![i].list = Append(@, c)]]
      BY <1>3
    <2>2. /\ g.at = Len(list) + 1 /\ g.ok = TRUE
          /\ g.conns = [conns EXCEPT ![i].list = Append(@, c)]
      BY <2>1
    <2> QED
      BY <1>3, <2>2 DEF More
  <1>4. g \in C => Again(g, conns, i) \/ list = <<>>
    BY DEF Again, Turn
  <1> HIDE DEF A, B, C, list, short
  <1>5. CASE list = <<>>
    <2>1. get_conn(conns, n) = A
      BY <1>1, <1>5
    <2> QED
      BY <1>2, <1>5, <2>1
  <1>6. CASE list # <<>> /\ short
    <2>1. get_conn(conns, n) = B
      BY <1>1, <1>6
    <2> QED
      BY <1>3, <1>6, <2>1 DEF short, list
  <1>7. CASE list # <<>> /\ ~short
    <2>1. get_conn(conns, n) = C
      BY <1>1, <1>7
    <2> QED
      BY <1>4, <1>7, <2>1 DEF short, list
  <1> QED
    BY <1>5, <1>6, <1>7

\* The pools with the list of one pool, its iterator, or both replaced.
SetList(conns, i, new) == [conns EXCEPT ![i].list = new]
SetIter(conns, i, p) == [conns EXCEPT ![i].iter = p]
SetPool(conns, i, new, p) == [conns EXCEPT ![i] = [list |-> new, iter |-> p]]

\* A list alone.
LEMMA SetListFacts ==
    ASSUME NEW conns, PoolsOK(conns), NEW i \in Identities, NEW new \in Seq(Conn)
    PROVE  SetList(conns, i, new) = SetPool(conns, i, new, conns[i].iter)
  <1> DEFINE l == conns[i].list
             q == conns[i].iter
  <1>1. conns[i] = [list |-> l, iter |-> q] /\ l \in Seq(Conn) /\ q \in Nat
    BY PoolFacts
  <1>2. SetList(conns, i, new) = [conns EXCEPT ![i] = [conns[i] EXCEPT !.list = new]]
    BY DEF SetList
  <1> HIDE DEF l, q
  <1>3. [conns[i] EXCEPT !.list = new] = [list |-> new, iter |-> q]
    BY <1>1
  <1> QED
    BY <1>2, <1>3 DEF q, SetPool

\* An iterator alone.
LEMMA SetIterFacts ==
    ASSUME NEW conns, PoolsOK(conns), NEW i \in Identities, NEW p \in Nat
    PROVE  SetIter(conns, i, p) = SetPool(conns, i, conns[i].list, p)
  <1> DEFINE l == conns[i].list
             q == conns[i].iter
  <1>1. conns[i] = [list |-> l, iter |-> q] /\ l \in Seq(Conn) /\ q \in Nat
    BY PoolFacts
  <1>2. SetIter(conns, i, p) = [conns EXCEPT ![i] = [conns[i] EXCEPT !.iter = p]]
    BY DEF SetIter
  <1> HIDE DEF l, q
  <1>3. [conns[i] EXCEPT !.iter = p] = [list |-> l, iter |-> p]
    BY <1>1
  <1> QED
    BY <1>2, <1>3 DEF l, SetPool

\* What they leave alone, and that the pools keep their type.
LEMMA SetPoolFacts ==
    ASSUME NEW conns, PoolsOK(conns), NEW i \in Identities, NEW new \in Seq(Conn), NEW p \in Nat,
           p <= Len(new)
    PROVE  LET d == SetPool(conns, i, new, p)
           IN  /\ PoolsOK(d) /\ d[i].list = new /\ d[i].iter = p
               /\ \A j \in Identities \ {i} : d[j] = conns[j]
  <1> DEFINE d == SetPool(conns, i, new, p)
  <1>1. conns \in [Identities -> [list : Seq(Conn), iter : Nat]]
        /\ \A j \in Identities : conns[j].iter <= Len(conns[j].list)
    BY DEF PoolsOK
  <1>2. /\ d \in [Identities -> [list : Seq(Conn), iter : Nat]]
        /\ d[i] = [list |-> new, iter |-> p]
        /\ \A j \in Identities \ {i} : d[j] = conns[j]
    BY <1>1 DEF SetPool
  <1> HIDE DEF d
  <1>3. d[i].list = new /\ d[i].iter = p
    BY <1>2
  <1>4. ASSUME NEW j \in Identities PROVE d[j].iter <= Len(d[j].list)
    <2>1. CASE j = i
      BY <1>3, <2>1
    <2>2. CASE j # i
      BY <1>1, <1>2, <2>2
    <2> QED
      BY <2>1, <2>2
  <1>5. PoolsOK(d)
    BY <1>2, <1>4 DEF PoolsOK
  <1> QED
    BY <1>2, <1>3, <1>5 DEF d

\* The connection that get_conn gives is a new one, at the end of the list, or
\* the one whose turn it is; no other connection changes.
LEMMA GetConnFacts ==
    ASSUME NEW conns, PoolsOK(conns), NEW n \in Nodes, NEW g \in get_conn(conns, n)
    PROVE  LET i == identity[n]
               list == conns[i].list
           IN  /\ i \in Identities /\ PoolsOK(g.conns) /\ g.ok \in BOOLEAN
               /\ g.at \in 1..Len(g.conns[i].list)
               /\ \A j \in Identities \ {i} : g.conns[j].list = conns[j].list
               /\ \/ /\ g.at = Len(list) + 1
                     /\ \E c \in New : g.conns[i].list = Append(list, c)
                  \/ g.conns[i].list = list
               /\ Identities = {i} =>
                     \/ First(g, conns, i) /\ g.conns[i].iter = 1
                        /\ \E c \in New : g.conns[i].list = Append(list, c)
                     \/ More(g, conns, i) /\ Len(list) < max_conn_cnt[n]
                        /\ g.conns[i].iter = conns[i].iter
                        /\ \E c \in New : g.conns[i].list = Append(list, c)
                     \/ Again(g, conns, i) /\ ~(Len(list) < max_conn_cnt[n])
                        /\ g.conns[i].iter = Turn(conns, i) /\ g.conns[i].list = list
  <1> DEFINE i == identity[n]
             list == conns[i].list
             turn == Turn(conns, i)
             a == g.conns
  <1>1. i \in Identities
    BY DEF Identities
  <1>2. /\ list \in Seq(Conn) /\ Len(list) \in Nat /\ conns[i].iter \in Nat
        /\ conns[i].iter <= Len(list)
    BY <1>1, PoolFacts
  <1>3. \A c \in New : /\ Append(list, c) \in Seq(Conn) /\ Len(Append(list, c)) = Len(list) + 1
    BY <1>2, NewFacts, AppendProperties
  <1>4. CASE First(g, conns, i)
    <2>1. PICK c \in New, j \in {j \in Identities : conns[j].list # <<>>} \cup {i} :
             a = [[conns EXCEPT ![i].list = <<c>>] EXCEPT ![j].iter = 1]
      BY <1>4 DEF First
    <2> DEFINE new == Append(list, c)
               e == SetPool(conns, i, new, conns[i].iter)
               f == SetPool(e, j, e[j].list, 1)
    <2>2. list = <<>> /\ new = <<c>> /\ Len(list) = 0 /\ Len(new) = 1 /\ new \in Seq(Conn)
      BY <1>3, <1>4 DEF First
    <2>3. j \in Identities /\ (j # i => Len(conns[j].list) >= 1)
      BY <1>1, PoolFacts, EmptySeq
    <2> HIDE DEF new
    <2>4. SetList(conns, i, new) = e
      BY <1>1, <2>2, SetListFacts
    <2>5. /\ PoolsOK(e) /\ e[i].list = new /\ \A l \in Identities \ {i} : e[l] = conns[l]
      <3> DEFINE p == conns[i].iter
      <3>1. p \in Nat /\ p <= Len(new) /\ new \in Seq(Conn)
        BY <1>2, <2>2
      <3> HIDE DEF p
      <3>2. LET d == SetPool(conns, i, new, p)
            IN  /\ PoolsOK(d) /\ d[i].list = new /\ d[i].iter = p
                /\ \A l \in Identities \ {i} : d[l] = conns[l]
        BY <1>1, <3>1, SetPoolFacts
      <3> QED
        BY <3>2 DEF p
    <2> HIDE DEF e
    <2>6. SetIter(e, j, 1) = f
      BY <2>3, <2>5, SetIterFacts
    <2>7. e[j].list \in Seq(Conn) /\ Len(e[j].list) >= 1
      <3>1. CASE j = i
        <4>1. e[j].list = new
          BY <2>5, <3>1
        <4> QED
          BY <2>2, <4>1
      <3>2. CASE j # i
        BY <2>3, <2>5, <3>2, PoolFacts
      <3> QED
        BY <3>1, <3>2
    <2>8. /\ PoolsOK(f) /\ f[j].list = e[j].list /\ f[j].iter = 1
          /\ \A l \in Identities \ {j} : f[l] = e[l]
      BY <2>3, <2>5, <2>7, SetPoolFacts
    <2>9. a = f
      BY <2>1, <2>2, <2>4, <2>6 DEF SetList, SetIter
    <2> HIDE DEF f, a
    <2>10. PoolsOK(a) /\ a[i].list = new
      BY <1>1, <2>3, <2>5, <2>8, <2>9
    <2>11. \A l \in Identities \ {i} : a[l].list = conns[l].list
      BY <2>3, <2>5, <2>8, <2>9
    <2>12. Identities = {i} => a[i].iter = 1
      BY <2>3, <2>8, <2>9
    <2>13. g.at = 1 /\ g.ok = TRUE
      BY <1>4 DEF First
    <2>14. g.at \in 1..Len(a[i].list) /\ g.at = Len(list) + 1
      BY <2>2, <2>10, <2>13
    <2> HIDE DEF list
    <2>15. \E x \in New : a[i].list = Append(list, x)
      BY <2>10 DEF new
    <2> QED
      BY <1>1, <1>4, <2>10, <2>11, <2>12, <2>13, <2>14, <2>15 DEF a, list
  <1>5. CASE More(g, conns, i) /\ Len(list) < max_conn_cnt[n]
    <2>1. PICK c \in New : a = [conns EXCEPT ![i].list = Append(@, c)]
      BY <1>5 DEF More
    <2> DEFINE new == Append(list, c)
               e == SetPool(conns, i, new, conns[i].iter)
    <2>2. new \in Seq(Conn) /\ Len(new) = Len(list) + 1
      BY <1>3
    <2>3. a = SetList(conns, i, new)
      BY <2>1 DEF SetList
    <2> HIDE DEF new
    <2>4. a = e
      BY <1>1, <2>2, <2>3, SetListFacts
    <2>5. /\ PoolsOK(e) /\ e[i].list = new /\ e[i].iter = conns[i].iter
          /\ \A l \in Identities \ {i} : e[l] = conns[l]
      <3> DEFINE p == conns[i].iter
      <3>1. p \in Nat /\ p <= Len(new) /\ new \in Seq(Conn)
        BY <1>2, <2>2
      <3> HIDE DEF p
      <3>2. LET d == SetPool(conns, i, new, p)
            IN  /\ PoolsOK(d) /\ d[i].list = new /\ d[i].iter = p
                /\ \A l \in Identities \ {i} : d[l] = conns[l]
        BY <1>1, <3>1, SetPoolFacts
      <3> QED
        BY <3>2 DEF p
    <2> HIDE DEF e, a
    <2>6. /\ PoolsOK(a) /\ a[i].list = new /\ a[i].iter = conns[i].iter
          /\ \A l \in Identities \ {i} : a[l].list = conns[l].list
      BY <2>4, <2>5
    <2>7. g.at = Len(list) + 1 /\ g.ok = TRUE
      BY <1>5 DEF More
    <2>8. g.at \in 1..Len(a[i].list)
      BY <1>2, <2>2, <2>6, <2>7
    <2> HIDE DEF list
    <2>9. \E x \in New : a[i].list = Append(list, x)
      BY <2>6 DEF new
    <2> QED
      BY <1>1, <1>5, <2>6, <2>7, <2>8, <2>9 DEF a, list
  <1>6. CASE Again(g, conns, i) /\ ~(Len(list) < max_conn_cnt[n])
    <2> DEFINE e == SetPool(conns, i, list, turn)
    <2>1. turn \in 1..Len(list)
      BY <1>2, <1>6, EmptySeq DEF Again, Turn
    <2> HIDE DEF turn
    <2>2. a = SetIter(conns, i, turn) /\ g.at = turn /\ g.ok = list[turn].up
      BY <1>6 DEF Again, turn, SetIter
    <2>3. g.ok \in BOOLEAN
      <3>1. list[turn].up \in BOOLEAN
        BY <1>1, <2>1, PoolFacts
      <3> QED
        BY <2>2, <3>1
    <2>4. a = e
      BY <1>1, <1>2, <2>1, <2>2, SetIterFacts
    <2>5. /\ PoolsOK(e) /\ e[i].list = list /\ e[i].iter = turn
          /\ \A l \in Identities \ {i} : e[l] = conns[l]
      <3>1. turn \in Nat /\ turn <= Len(list)
        BY <1>2, <2>1
      <3> QED
        BY <1>1, <1>2, <3>1, SetPoolFacts
    <2> HIDE DEF e, a
    <2>6. /\ PoolsOK(a) /\ a[i].list = list /\ a[i].iter = turn
          /\ \A l \in Identities \ {i} : a[l].list = conns[l].list
      BY <2>4, <2>5
    <2> HIDE DEF list
    <2>7. g.at \in 1..Len(a[i].list)
      BY <2>1, <2>2, <2>6
    <2> QED
      BY <1>1, <1>6, <2>3, <2>6, <2>7 DEF a, turn, list
  <1> QED
    BY <1>4, <1>5, <1>6, GetConnCases

\* get_conn leaves all tasks where they are.
LEMMA GetConnTasks ==
    ASSUME NEW conns, PoolsOK(conns), NEW n \in Nodes, NEW g \in get_conn(conns, n)
    PROVE  Held(g.conns) = Held(conns) /\ (Apart(conns) => Apart(g.conns))
  <1> DEFINE i == identity[n]
             list == conns[i].list
             d == g.conns
  <1>1. /\ i \in Identities /\ PoolsOK(d)
        /\ \A j \in Identities \ {i} : d[j].list = conns[j].list
        /\ \/ \E c \in New : d[i].list = Append(list, c)
           \/ d[i].list = list
    BY GetConnFacts
  <1> HIDE DEF d
  <1>2. CASE d[i].list = list
    <2>1. \A j \in Identities : d[j].list = conns[j].list
      BY <1>1, <1>2
    <2> QED
      BY <2>1 DEF Held, Apart, QueueOf, d
  <1>3. ASSUME NEW c \in New, d[i].list = Append(list, c)
        PROVE  Held(d) = Held(conns) /\ (Apart(conns) => Apart(d))
    <2> DEFINE n0 == Len(list)
    <2>1. c.tasks = <<>> /\ c \in Conn
      BY NewFacts
    <2>2. /\ n0 \in Nat /\ Len(d[i].list) = n0 + 1 /\ d[i].list[n0 + 1] = c
          /\ \A m \in 1..n0 : d[i].list[m] = list[m]
      BY <1>1, <1>3, <2>1, PoolFacts, AppendProperties
    <2>3. QueueOf(d, i, n0 + 1) = <<>>
      BY <2>1, <2>2 DEF QueueOf
    <2>4. Range(<<>>) = {} /\ IsInjective(<<>>)
      BY DEF Range, IsInjective
    <2>5. \A j \in Identities : \A m \in 1..Len(conns[j].list) :
             m \in 1..Len(d[j].list) /\ QueueOf(d, j, m) = QueueOf(conns, j, m)
      <3>1. ASSUME NEW j \in Identities, NEW m \in 1..Len(conns[j].list)
            PROVE  m \in 1..Len(d[j].list) /\ d[j].list[m] = conns[j].list[m]
        <4>1. CASE j = i
          BY <2>2, <4>1
        <4>2. CASE j # i
          BY <1>1, <4>2
        <4> QED
          BY <4>1, <4>2
      <3> QED
        BY <3>1 DEF QueueOf
    <2>6. \A j \in Identities : \A m \in 1..Len(d[j].list) :
             m \in 1..Len(conns[j].list) \/ (j = i /\ m = n0 + 1)
      BY <1>1, <2>2
    <2>7. Held(d) = Held(conns)
      <3>1. \A u \in Held(d) : u \in Held(conns)
        BY <2>3, <2>4, <2>5, <2>6 DEF Held
      <3>2. \A u \in Held(conns) : u \in Held(d)
        BY <2>5 DEF Held
      <3> QED
        BY <3>1, <3>2
    <2>8. ASSUME Apart(conns)
          PROVE  Apart(d)
      <3>1. SUFFICES ASSUME NEW j \in Identities, NEW l \in Identities,
                            NEW m \in 1..Len(d[j].list), NEW o \in 1..Len(d[l].list)
                     PROVE  /\ IsInjective(QueueOf(d, j, m))
                            /\ (j = l /\ m = o) \/
                               Range(QueueOf(d, j, m)) \cap Range(QueueOf(d, l, o)) = {}
        BY DEF Apart
      <3>2. CASE j = i /\ m = n0 + 1
        BY <2>3, <2>4, <3>2
      <3>3. CASE m \in 1..Len(conns[j].list)
        <4>1. IsInjective(QueueOf(d, j, m))
          BY <2>5, <2>8, <3>3 DEF Apart
        <4>2. CASE l = i /\ o = n0 + 1
          BY <2>3, <2>4, <4>1, <4>2
        <4>3. CASE o \in 1..Len(conns[l].list)
          <5>1. QueueOf(d, j, m) = QueueOf(conns, j, m) /\ QueueOf(d, l, o) = QueueOf(conns, l, o)
            BY <2>5, <3>3, <4>3
          <5>2. (j = l /\ m = o) \/
                Range(QueueOf(conns, j, m)) \cap Range(QueueOf(conns, l, o)) = {}
            BY <2>8, <3>3, <4>3 DEF Apart
          <5> QED
            BY <4>1, <5>1, <5>2
        <4> QED
          BY <2>6, <4>2, <4>3
      <3> QED
        BY <2>6, <3>2, <3>3
    <2> QED
      BY <2>7, <2>8
  <1> QED
    BY <1>1, <1>2, <1>3 DEF d

\* handle_sql queues the task once, or not at all.
LEMMA HandleFacts ==
    ASSUME NEW conns, PoolsOK(conns), Apart(conns), NEW c \in Cmds, NEW op,
           Task(c, op) \in Tasks, Task(c, op) \notin Held(conns),
           NEW h \in handle_sql(conns, c, op)
    PROVE  /\ PoolsOK(h.conns) /\ Apart(h.conns)
           /\ h.ret \in BOOLEAN /\ h.taken \in BOOLEAN
           /\ h.ret /\ h.taken => Held(h.conns) = Held(conns) \cup {Task(c, op)}
           /\ ~(h.ret /\ h.taken) => Held(h.conns) = Held(conns)
  <1> DEFINE n == node[c]
             i == identity[n]
             t == Task(c, op)
  <1>1. n \in Nodes /\ t \in Tasks
    BY PoolAssumption
  <1>2. PICK g \in get_conn(conns, n) :
           h = [ret |-> g.ok, taken |-> Used(g.conns, n, g.at)[i].list[g.at].up,
                conns |-> IF g.ok
                          THEN [Used(g.conns, n, g.at) EXCEPT ![i].list[g.at] = add_task(@, t)]
                          ELSE Used(g.conns, n, g.at)]
    BY DEF handle_sql
  <1> DEFINE a == g.conns
             k == g.at
             x == a[i].list[k]
             y == [x EXCEPT !.uses = @ + 1]
             used == Put(a, i, k, y)
             z == add_task(y, t)
             d == Put(used, i, k, z)
  <1>3. i \in Identities /\ PoolsOK(a) /\ g.ok \in BOOLEAN /\ k \in 1..Len(a[i].list)
    BY <1>1, GetConnFacts
  <1>4. Held(a) = Held(conns) /\ Apart(a)
    BY <1>1, GetConnTasks
  <1>5. Used(a, n, k) = used
    BY DEF Used, Put
  <1> HIDE DEF a, k
  <1>6. x \in Conn
    BY <1>3, PoolFacts
  <1>7. y \in Conn /\ y.tasks = QueueOf(a, i, k) /\ y.up = x.up
    BY <1>6 DEF Conn, QueueOf
  <1>8. PoolsOK(used) /\ Len(used[i].list) = Len(a[i].list) /\ used[i].list[k] = y
    <2> HIDE DEF x, y, i
    <2>1. /\ PoolsOK(used)
          /\ \A j \in Identities : Len(used[j].list) = Len(a[j].list)
          /\ \A j \in Identities : \A m \in 1..Len(a[j].list) :
                used[j].list[m] = IF j = i /\ m = k THEN y ELSE a[j].list[m]
      BY <1>3, <1>7, PutFacts
    <2> HIDE DEF used
    <2> QED
      BY <1>3, <2>1
  <1>9. Held(used) = Held(conns) /\ Apart(used)
    BY <1>3, <1>4, <1>7, PutSame
  <1> HIDE DEF y, x, used
  <1>10. h = [ret |-> g.ok, taken |-> y.up, conns |-> IF g.ok THEN d ELSE used]
    BY <1>2, <1>5, <1>8 DEF Put, a, k
  <1>11. k \in 1..Len(used[i].list) /\ QueueOf(used, i, k) = y.tasks
    BY <1>3, <1>8 DEF QueueOf
  <1>12. z \in Conn /\ (z.tasks = IF y.up THEN Append(y.tasks, t) ELSE y.tasks)
    <2>1. y.tasks \in Seq(Tasks) /\ y.up \in BOOLEAN
      BY <1>7 DEF Conn
    <2>2. Append(y.tasks, t) \in Seq(Tasks)
      BY <1>1, <2>1, AppendProperties
    <2> HIDE DEF t
    <2> QED
      BY <1>7, <2>2 DEF add_task, Conn
  <1> HIDE DEF z, t
  <1>13. PoolsOK(d)
    BY <1>3, <1>8, <1>11, <1>12, PutFacts
  <1>14. CASE y.up
    <2>1. t \in Tasks \ Held(used)
      BY <1>1, <1>9 DEF t
    <2>2. Held(d) = Held(conns) \cup {t} /\ Apart(d)
      BY <1>3, <1>8, <1>9, <1>11, <1>12, <1>14, <2>1, PutMore
    <2> HIDE DEF d
    <2> QED
      BY <1>3, <1>8, <1>9, <1>10, <1>13, <1>14, <2>2 DEF t
  <1>15. CASE ~y.up
    <2>1. Held(d) = Held(conns) /\ Apart(d)
      BY <1>3, <1>8, <1>9, <1>11, <1>12, <1>15, PutSame
    <2>2. y.up = FALSE
      BY <1>7, <1>15 DEF Conn
    <2> HIDE DEF d
    <2> QED
      BY <1>3, <1>8, <1>9, <1>10, <1>13, <2>1, <2>2
  <1> QED
    BY <1>14, <1>15
-----------------------------------------------------------------------------
(* The inductive invariant *)

Replies == {"ok", "error", "session"}

\* What is true of one command, from its step, its answer, the tasks that are
\* queued, the commands refused, those that inserted, and the keys found.
CmdInv(c, st, ans, held, ref, did, fnd) ==
    /\ Task(c, "insert") \in held => st \in {"insert", "done"} /\ c \notin did
    /\ Task(c, "query") \in held => st \in {"query", "done"}
    /\ st \in {"insert", "query"} => (Task(c, st) \in held <=> c \notin ref)
    /\ st = "new" => c \notin ref
    /\ c \in did => st \in {"query", "done"}
    /\ st = "insert" => oper[c] # "read"
    /\ st = "query" => oper[c] # "write" /\ (oper[c] # "read" => c \in did)
    /\ st # "done" => ans = <<>>
    /\ ans = <<>> \/ \E a \in Replies : ans = <<a>>
    /\ ans = <<"ok">> /\ oper[c] # "read" => c \in did
    /\ ans \in {<<"ok">>, <<"session">>} /\ oper[c] # "write" => sessid[c] \in fnd
    /\ ans = <<"session">> => is_session[c]

Types ==
    /\ step \in [Cmds -> {"new", "insert", "query", "done"}]
    /\ answer \in [Cmds -> Seq(Replies)]
    /\ m_sessions \in [Keys -> {"none", "idle", "active"}]
    /\ refused \subseteq Cmds /\ found \subseteq Keys /\ losses \in 0..MaxLosses
    /\ inserted \in Seq(Cmds) /\ IsInjective(inserted)

\* A task is queued once and belongs to the step of its command or to a command
\* that has ended; who inserted has no such task left; a session has data that
\* was found.
IndInv ==
    /\ Types
    /\ PoolsOK(m_conns) /\ Apart(m_conns)
    /\ \A k \in Keys : m_sessions[k] # "none" => k \in found
    /\ \A c \in Cmds :
          CmdInv(c, step[c], answer[c], Held(m_conns), refused, Range(inserted), found)

\* Two tasks are the same if their commands and their steps are.
LEMMA TaskEq ==
    \A c, d, o, p : Task(c, o) = Task(d, p) <=> c = d /\ o = p
  BY DEF Task

\* One answer is a sequence of one reply.
LEMMA OneAnswer ==
    ASSUME NEW a, NEW b
    PROVE  /\ Append(<<>>, a) = <<a>> /\ <<a>> # <<>> /\ (<<a>> = <<b>> <=> a = b)
  OBVIOUS

\* What a step of c does not touch stays true of another command d.
LEMMA OtherCmd ==
    ASSUME NEW d, NEW st, NEW ans, NEW held, NEW ref, NEW did, NEW fnd,
           NEW held2, NEW ref2, NEW did2, NEW fnd2,
           CmdInv(d, st, ans, held, ref, did, fnd),
           \A op \in {"insert", "query"} : Task(d, op) \in held2 <=> Task(d, op) \in held,
           d \in ref2 <=> d \in ref, d \in did2 <=> d \in did, fnd \subseteq fnd2
    PROVE  CmdInv(d, st, ans, held2, ref2, did2, fnd2)
  BY DEF CmdInv

\* The ways of Submit: the task is queued, the connection does not take it, or
\* the command ends with an error.
Submitted(c, op, held) ==
    \/ /\ step' = [step EXCEPT ![c] = op] /\ answer' = answer /\ refused' = refused
       /\ Held(m_conns)' = held \cup {Task(c, op)}
    \/ /\ step' = [step EXCEPT ![c] = op] /\ answer' = answer /\ refused' = refused \cup {c}
       /\ Held(m_conns)' = held
    \/ /\ Answer(c, "error") /\ refused' = refused /\ Held(m_conns)' = held

\* Submit goes one of those ways, and no task is queued twice after it.
LEMMA SubmitFacts ==
    ASSUME NEW conns, PoolsOK(conns), Apart(conns), NEW c \in Cmds, NEW op \in {"insert", "query"},
           Task(c, op) \notin Held(conns), Submit(c, op, conns)
    PROVE  PoolsOK(m_conns)' /\ Apart(m_conns)' /\ Submitted(c, op, Held(conns))
  <1>1. PICK h \in handle_sql(conns, c, op) :
           /\ m_conns' = h.conns
           /\ IF h.ret
              THEN /\ step' = [step EXCEPT ![c] = op] /\ UNCHANGED answer
                   /\ refused' = IF h.taken THEN refused ELSE refused \cup {c}
              ELSE Answer(c, "error") /\ UNCHANGED refused
    BY DEF Submit
  <1>2. /\ PoolsOK(h.conns) /\ Apart(h.conns)
        /\ h.ret \in BOOLEAN /\ h.taken \in BOOLEAN
        /\ h.ret /\ h.taken => Held(h.conns) = Held(conns) \cup {Task(c, op)}
        /\ ~(h.ret /\ h.taken) => Held(h.conns) = Held(conns)
    <2>1. Task(c, op) \in Tasks
      BY DEF Tasks
    <2> QED
      BY <1>1, <2>1, HandleFacts
  <1>3. PoolsOK(m_conns)' /\ Apart(m_conns)' /\ Held(m_conns)' = Held(h.conns)
    BY <1>1, <1>2
  <1>4. CASE h.ret /\ h.taken
    BY <1>1, <1>2, <1>3, <1>4 DEF Submitted
  <1>5. CASE h.ret /\ ~h.taken
    BY <1>1, <1>2, <1>3, <1>5 DEF Submitted
  <1>6. CASE ~h.ret
    BY <1>1, <1>2, <1>3, <1>6 DEF Submitted
  <1> QED
    BY <1>3, <1>4, <1>5, <1>6

\* A command before it submits a task: held, did and fnd are what is queued,
\* inserted and found at that moment.
Ready(c, op, held, did) ==
    /\ Task(c, "insert") \notin held /\ Task(c, "query") \notin held
    /\ c \notin refused /\ answer[c] = <<>>
    /\ op = "insert" => oper[c] # "read" /\ c \notin did
    /\ op = "query" => oper[c] # "write" /\ (oper[c] # "read" => c \in did)

\* After Submit what is true of every command still is.
LEMMA SubmitCmd ==
    ASSUME Types, NEW c \in Cmds, NEW op \in {"insert", "query"}, NEW held, NEW did, NEW fnd,
           Ready(c, op, held, did), Submitted(c, op, held),
           \A d \in Cmds \ {c} : CmdInv(d, step[d], answer[d], held, refused, did, fnd)
    PROVE  /\ step' \in [Cmds -> {"new", "insert", "query", "done"}]
           /\ answer' \in [Cmds -> Seq(Replies)] /\ refused' \subseteq Cmds
           /\ \A d \in Cmds : CmdInv(d, step'[d], answer'[d], Held(m_conns)', refused', did, fnd)
  <1>1. /\ step \in [Cmds -> {"new", "insert", "query", "done"}]
        /\ answer \in [Cmds -> Seq(Replies)] /\ refused \subseteq Cmds
    BY DEF Types
  <1>2. \A o \in {"insert", "query"} : \A d \in Cmds \ {c} : Task(d, o) # Task(c, op)
    BY TaskEq
  <1>3. Task(c, "insert") # Task(c, "query")
    BY TaskEq
  <1> DEFINE none == <<>>
             error == <<"error">>
  <1>4. /\ Append(none, "error") = error /\ error # none /\ error # <<"ok">>
        /\ error # <<"session">> /\ error \in Seq(Replies)
        /\ none # <<"ok">> /\ none # <<"session">>
    BY OneAnswer DEF Replies
  <1> HIDE DEF none, error
  <1>5. /\ Task(c, "insert") \notin held /\ Task(c, "query") \notin held
        /\ c \notin refused /\ answer[c] = none
        /\ op = "insert" => oper[c] # "read" /\ c \notin did
        /\ op = "query" => oper[c] # "write" /\ (oper[c] # "read" => c \in did)
    BY DEF Ready, none
  <1>6. ASSUME NEW st \in {"insert", "query", "done"}, NEW ans \in Seq(Replies), NEW held2, NEW ref2,
               step' = [step EXCEPT ![c] = st], answer' = [answer EXCEPT ![c] = ans],
               Held(m_conns)' = held2, refused' = ref2, ref2 \subseteq Cmds,
               \A d \in Cmds \ {c} : \A o \in {"insert", "query"} :
                  Task(d, o) \in held2 <=> Task(d, o) \in held,
               \A d \in Cmds \ {c} : d \in ref2 <=> d \in refused,
               CmdInv(c, st, ans, held2, ref2, did, fnd)
        PROVE  /\ step' \in [Cmds -> {"new", "insert", "query", "done"}]
               /\ answer' \in [Cmds -> Seq(Replies)] /\ refused' \subseteq Cmds
               /\ \A d \in Cmds :
                     CmdInv(d, step'[d], answer'[d], Held(m_conns)', refused', did, fnd)
    <2>1. /\ step'[c] = st /\ answer'[c] = ans
          /\ \A d \in Cmds \ {c} : step'[d] = step[d] /\ answer'[d] = answer[d]
      BY <1>1, <1>6
    <2>2. ASSUME NEW d \in Cmds
          PROVE  CmdInv(d, step'[d], answer'[d], Held(m_conns)', refused', did, fnd)
      <3>1. CASE d = c
        BY <1>6, <2>1, <3>1
      <3>2. CASE d # c
        <4>1. CmdInv(d, step[d], answer[d], held2, ref2, did, fnd)
          BY <1>6, <3>2, OtherCmd
        <4> QED
          BY <1>6, <2>1, <3>2, <4>1
      <3> QED
        BY <3>1, <3>2
    <2> QED
      BY <1>1, <1>6, <2>2
  <1>7. answer' = answer => answer' = [answer EXCEPT ![c] = none]
    BY <1>1, <1>5
  <1>8. none \in Seq(Replies)
    BY <1>1, <1>5
  <1>9. CASE /\ step' = [step EXCEPT ![c] = op] /\ answer' = answer /\ refused' = refused
             /\ Held(m_conns)' = held \cup {Task(c, op)}
    <2>1. CmdInv(c, op, none, held \cup {Task(c, op)}, refused, did, fnd)
      BY <1>3, <1>4, <1>5 DEF CmdInv, none
    <2>2. \A d \in Cmds \ {c} : \A o \in {"insert", "query"} :
             Task(d, o) \in held \cup {Task(c, op)} <=> Task(d, o) \in held
      BY <1>2
    <2> DEFINE held2 == held \cup {Task(c, op)}
    <2> HIDE DEF held2
    <2>3. answer' = [answer EXCEPT ![c] = none] /\ op \in {"insert", "query", "done"}
      BY <1>7, <1>9
    <2> QED
      BY <1>1, <1>6, <1>8, <1>9, <2>1, <2>2, <2>3 DEF held2
  <1>10. CASE /\ step' = [step EXCEPT ![c] = op] /\ answer' = answer
              /\ refused' = refused \cup {c} /\ Held(m_conns)' = held
    <2>1. CmdInv(c, op, none, held, refused \cup {c}, did, fnd)
      BY <1>4, <1>5 DEF CmdInv, none
    <2>2. answer' = [answer EXCEPT ![c] = none] /\ op \in {"insert", "query", "done"}
      BY <1>7, <1>10
    <2>3. refused \cup {c} \subseteq Cmds
      BY <1>1
    <2> QED
      BY <1>1, <1>6, <1>8, <1>10, <2>1, <2>2, <2>3
  <1>11. CASE Answer(c, "error") /\ refused' = refused /\ Held(m_conns)' = held
    <2>1. CmdInv(c, "done", error, held, refused, did, fnd)
      BY <1>4, <1>5 DEF CmdInv, none, error, Replies
    <2>2. step' = [step EXCEPT ![c] = "done"] /\ answer' = [answer EXCEPT ![c] = error]
      BY <1>4, <1>5, <1>11 DEF Answer
    <2> QED
      BY <1>1, <1>4, <1>6, <1>11, <2>1, <2>2
  <1> QED
    BY <1>9, <1>10, <1>11 DEF Submitted
\* A command ends with an answer, and what is true of every command still is.
LEMMA AnswerCmd ==
    ASSUME Types, NEW c \in Cmds, NEW a \in Replies, NEW held, NEW did, NEW fnd,
           answer[c] = <<>>, Answer(c, a), refused' = refused, Held(m_conns)' = held,
           CmdInv(c, "done", <<a>>, held, refused, did, fnd),
           \A d \in Cmds \ {c} : CmdInv(d, step[d], answer[d], held, refused, did, fnd)
    PROVE  /\ step' \in [Cmds -> {"new", "insert", "query", "done"}]
           /\ answer' \in [Cmds -> Seq(Replies)] /\ refused' \subseteq Cmds
           /\ \A d \in Cmds : CmdInv(d, step'[d], answer'[d], Held(m_conns)', refused', did, fnd)
  <1> DEFINE one == <<a>>
  <1>1. /\ step \in [Cmds -> {"new", "insert", "query", "done"}]
        /\ answer \in [Cmds -> Seq(Replies)] /\ refused \subseteq Cmds
    BY DEF Types
  <1>2. one = Append(<<>>, a) /\ one \in Seq(Replies)
    OBVIOUS
  <1>3. CmdInv(c, "done", one, held, refused, did, fnd)
    OBVIOUS
  <1> HIDE DEF one
  <1>4. step' = [step EXCEPT ![c] = "done"] /\ answer' = [answer EXCEPT ![c] = one]
    BY <1>2 DEF Answer
  <1>5. /\ step'[c] = "done" /\ answer'[c] = one
        /\ \A d \in Cmds \ {c} : step'[d] = step[d] /\ answer'[d] = answer[d]
    BY <1>1, <1>4
  <1>6. ASSUME NEW d \in Cmds
        PROVE  CmdInv(d, step'[d], answer'[d], Held(m_conns)', refused', did, fnd)
    <2>1. CASE d = c
      BY <1>3, <1>5, <2>1
    <2>2. CASE d # c
      BY <1>5, <2>2
    <2> QED
      BY <2>1, <2>2
  <1> QED
    BY <1>1, <1>2, <1>4, <1>6

\* What holds when a command c is about to go on from the pools conns, with
\* the inserts did and the keys fnd ...
Before(c, conns, did, fnd) ==
    /\ Types /\ PoolsOK(conns) /\ Apart(conns)
    /\ \A k \in Keys : m_sessions[k] # "none" => k \in fnd
    /\ \A d \in Cmds \ {c} : CmdInv(d, step[d], answer[d], Held(conns), refused, did, fnd)

\* ... and after its step.
After(did, fnd) ==
    /\ step' \in [Cmds -> {"new", "insert", "query", "done"}]
    /\ answer' \in [Cmds -> Seq(Replies)] /\ refused' \subseteq Cmds
    /\ m_sessions' \in [Keys -> {"none", "idle", "active"}]
    /\ PoolsOK(m_conns)' /\ Apart(m_conns)'
    /\ \A k \in Keys : m_sessions'[k] # "none" => k \in fnd
    /\ \A d \in Cmds : CmdInv(d, step'[d], answer'[d], Held(m_conns)', refused', did, fnd)

\* STEP_DATABASE_INSERT.
LEMMA InsertStepInv ==
    ASSUME NEW c \in Cmds, NEW conns, NEW did, NEW fnd, Before(c, conns, did, fnd),
           Ready(c, "insert", Held(conns), did), InsertStep(c, conns)
    PROVE  After(did, fnd)
  <1>1. /\ Submit(c, "insert", conns) /\ m_sessions' = m_sessions /\ PoolsOK(conns) /\ Apart(conns)
        /\ Task(c, "insert") \notin Held(conns)
    BY DEF InsertStep, Before, Ready
  <1>2. PoolsOK(m_conns)' /\ Apart(m_conns)' /\ Submitted(c, "insert", Held(conns))
    BY <1>1, SubmitFacts
  <1>3. /\ Types /\ \A k \in Keys : m_sessions[k] # "none" => k \in fnd
        /\ \A d \in Cmds \ {c} : CmdInv(d, step[d], answer[d], Held(conns), refused, did, fnd)
    BY DEF Before
  <1>4. /\ step' \in [Cmds -> {"new", "insert", "query", "done"}]
        /\ answer' \in [Cmds -> Seq(Replies)] /\ refused' \subseteq Cmds
        /\ \A d \in Cmds : CmdInv(d, step'[d], answer'[d], Held(m_conns)', refused', did, fnd)
    BY <1>2, <1>3, SubmitCmd
  <1>5. m_sessions' \in [Keys -> {"none", "idle", "active"}]
    BY <1>1, <1>3 DEF Types
  <1> QED
    BY <1>1, <1>2, <1>3, <1>4, <1>5 DEF After

\* STEP_DATABASE_QUERY, from the session or from mysql.
LEMMA QueryStepInv ==
    ASSUME NEW c \in Cmds, NEW conns, NEW did, NEW fnd, Before(c, conns, did, fnd),
           Ready(c, "query", Held(conns), did), QueryStep(c, conns)
    PROVE  After(did, fnd)
  <1>1. /\ Types /\ PoolsOK(conns) /\ Apart(conns)
        /\ Task(c, "query") \notin Held(conns)
        /\ \A k \in Keys : m_sessions[k] # "none" => k \in fnd
        /\ \A d \in Cmds \ {c} : CmdInv(d, step[d], answer[d], Held(conns), refused, did, fnd)
    BY DEF Before, Ready
  <1>2. sessid[c] \in Keys /\ m_sessions \in [Keys -> {"none", "idle", "active"}]
    BY <1>1 DEF Keys, Types
  <1>3. CASE is_session[c] /\ m_sessions[sessid[c]] # "none"
    <2>1. /\ m_sessions' = Activated(c) /\ Answer(c, "session")
          /\ m_conns' = conns /\ refused' = refused
      BY <1>3 DEF QueryStep
    <2>2. /\ m_sessions' \in [Keys -> {"none", "idle", "active"}]
          /\ \A k \in Keys : m_sessions'[k] # "none" => m_sessions[k] # "none"
      BY <1>2, <1>3, <2>1 DEF Activated
    <2>3. CmdInv(c, "done", <<"session">>, Held(conns), refused, did, fnd)
      <3> DEFINE s == <<"session">>
      <3>1. s # <<>> /\ s # <<"ok">> /\ \E a \in Replies : s = <<a>>
        BY DEF Replies
      <3>2. sessid[c] \in fnd
        BY <1>1, <1>2, <1>3
      <3>3. Task(c, "insert") \notin Held(conns)
        BY DEF Ready
      <3> HIDE DEF s
      <3>4. CmdInv(c, "done", s, Held(conns), refused, did, fnd)
        BY <1>1, <1>3, <3>1, <3>2, <3>3 DEF CmdInv
      <3> QED
        BY <3>4 DEF s
    <2>4. Held(m_conns)' = Held(conns) /\ PoolsOK(m_conns)' /\ Apart(m_conns)'
      BY <1>1, <2>1
    <2>5. answer[c] = <<>> /\ "session" \in Replies
      BY DEF Ready, Replies
    <2>6. /\ step' \in [Cmds -> {"new", "insert", "query", "done"}]
          /\ answer' \in [Cmds -> Seq(Replies)] /\ refused' \subseteq Cmds
          /\ \A d \in Cmds : CmdInv(d, step'[d], answer'[d], Held(m_conns)', refused', did, fnd)
      BY <1>1, <2>1, <2>3, <2>4, <2>5, AnswerCmd
    <2> QED
      BY <1>1, <2>2, <2>4, <2>6 DEF After
  <1>4. CASE ~(is_session[c] /\ m_sessions[sessid[c]] # "none")
    <2>1. Submit(c, "query", conns) /\ m_sessions' = m_sessions
      BY <1>4 DEF QueryStep
    <2>2. PoolsOK(m_conns)' /\ Apart(m_conns)' /\ Submitted(c, "query", Held(conns))
      BY <1>1, <2>1, SubmitFacts
    <2>3. /\ step' \in [Cmds -> {"new", "insert", "query", "done"}]
          /\ answer' \in [Cmds -> Seq(Replies)] /\ refused' \subseteq Cmds
          /\ \A d \in Cmds : CmdInv(d, step'[d], answer'[d], Held(m_conns)', refused', did, fnd)
      BY <1>1, <2>2, SubmitCmd
    <2> QED
      BY <1>1, <1>2, <2>1, <2>2, <2>3 DEF After
  <1> QED
    BY <1>3, <1>4

\* The other variables complete the invariant.
LEMMA AfterInv ==
    ASSUME NEW did, NEW fnd, After(did, fnd), did = Range(inserted'), fnd = found',
           inserted' \in Seq(Cmds), IsInjective(inserted'), found' \subseteq Keys,
           losses' \in 0..MaxLosses
    PROVE  IndInv'
  BY DEF After, IndInv, Types

\* A command begins.
LEMMA ExecuteInv ==
    ASSUME IndInv, NEW c \in Cmds, Execute(c)
    PROVE  IndInv'
  <1> DEFINE did == Range(inserted)
  <1>1. CmdInv(c, step[c], answer[c], Held(m_conns), refused, did, found)
    BY DEF IndInv
  <1>2. Before(c, m_conns, did, found)
    BY DEF IndInv, Before
  <1>3. inserted' = inserted /\ found' = found /\ losses' = losses /\ step[c] = "new"
    BY DEF Execute
  <1> HIDE DEF did
  <1>4. After(did, found)
    <2>1. CASE oper[c] = "read"
      <3>1. Ready(c, "query", Held(m_conns), did)
        BY <1>1, <1>3, <2>1 DEF CmdInv, Ready
      <3> QED
        BY <1>2, <2>1, <3>1, QueryStepInv DEF Execute
    <2>2. CASE oper[c] # "read"
      <3>1. Ready(c, "insert", Held(m_conns), did)
        BY <1>1, <1>3, <2>2 DEF CmdInv, Ready
      <3> QED
        BY <1>2, <2>2, <3>1, InsertStepInv DEF Execute
    <2> QED
      BY <2>1, <2>2
  <1>5. inserted \in Seq(Cmds) /\ IsInjective(inserted) /\ found \subseteq Keys /\ losses \in 0..MaxLosses
    BY DEF IndInv, Types
  <1> QED
    BY <1>3, <1>4, <1>5, AfterInv DEF did
\* A place of m_conns.
LEMMA PlaceFacts ==
    ASSUME PoolsOK(m_conns), NEW p \in Places
    PROVE  p[1] \in Identities /\ p[2] \in 1..Len(m_conns[p[1]].list)
  <1>1. PICK i \in Identities : p \in {<<i, k>> : k \in DOMAIN m_conns[i].list}
    BY DEF Places
  <1>2. PICK k \in DOMAIN m_conns[i].list : p = <<i, k>>
    BY <1>1
  <1>3. DOMAIN m_conns[i].list = 1..Len(m_conns[i].list)
    BY <1>1, PoolFacts
  <1> QED
    BY <1>1, <1>2, <1>3

\* The callback of an insert: the command goes on with its query, or answers.
LEMMA InsertCallbackInv ==
    ASSUME NEW c \in Cmds, NEW conns, NEW did, NEW fnd, NEW ok \in BOOLEAN,
           Before(c, conns, did, fnd), answer[c] = <<>>, c \notin refused, oper[c] # "read",
           Task(c, "insert") \notin Held(conns), Task(c, "query") \notin Held(conns),
           ok => c \in did, InsertCallback(c, ok, conns)
    PROVE  After(did, fnd)
  <1>1. CASE ok /\ oper[c] # "write"
    <2>1. Ready(c, "query", Held(conns), did) /\ QueryStep(c, conns)
      BY <1>1 DEF Ready, InsertCallback
    <2> QED
      BY <2>1, QueryStepInv
  <1>2. ASSUME NEW a \in {"ok", "error"}, Answer(c, a), m_conns' = conns,
               m_sessions' = m_sessions, refused' = refused,
               a = "ok" => c \in did /\ oper[c] = "write"
        PROVE  After(did, fnd)
    <2>1. Types /\ a \in Replies
      BY <1>2 DEF Before, Replies
    <2>2. CmdInv(c, "done", <<a>>, Held(conns), refused, did, fnd)
      <3> DEFINE s == <<a>>
      <3>1. /\ s # <<>> /\ (s = <<"ok">> <=> a = "ok") /\ s # <<"session">>
            /\ \E b \in Replies : s = <<b>>
        BY <1>2, <2>1
      <3> HIDE DEF s
      <3>2. CmdInv(c, "done", s, Held(conns), refused, did, fnd)
        BY <1>2, <3>1 DEF CmdInv
      <3> QED
        BY <3>2 DEF s
    <2>3. \A d \in Cmds \ {c} : CmdInv(d, step[d], answer[d], Held(conns), refused, did, fnd)
      BY DEF Before
    <2>4. /\ step' \in [Cmds -> {"new", "insert", "query", "done"}]
          /\ answer' \in [Cmds -> Seq(Replies)] /\ refused' \subseteq Cmds
          /\ \A d \in Cmds : CmdInv(d, step'[d], answer'[d], Held(m_conns)', refused', did, fnd)
      BY <1>2, <2>1, <2>2, <2>3, AnswerCmd
    <2> QED
      BY <1>2, <2>4 DEF After, Before, Types
  <1>3. CASE ~(ok /\ oper[c] # "write")
    <2>1. /\ Answer(c, IF ok THEN "ok" ELSE "error") /\ m_conns' = conns
          /\ m_sessions' = m_sessions /\ refused' = refused
      BY <1>3 DEF InsertCallback
    <2>2. CASE ok
      BY <1>2, <1>3, <2>1, <2>2
    <2>3. CASE ~ok
      BY <1>2, <1>3, <2>1, <2>3
    <2> QED
      BY <2>2, <2>3
  <1> QED
    BY <1>1, <1>3

\* The callback of a query: the command answers, and may leave a session.
LEMMA QueryCallbackInv ==
    ASSUME NEW c \in Cmds, NEW conns, NEW did, NEW fnd, NEW ok \in BOOLEAN,
           Before(c, conns, did, fnd), answer[c] = <<>>,
           oper[c] # "read" => c \in did,
           Task(c, "insert") \notin Held(conns), Task(c, "query") \notin Held(conns),
           ok /\ sessid[c] \in Rows => sessid[c] \in fnd, QueryCallback(c, ok, conns)
    PROVE  After(did, fnd)
  <1> DEFINE data == ok /\ sessid[c] \in Rows
             a == IF data THEN "ok" ELSE "error"
             s == <<a>>
  <1>1. /\ Answer(c, a) /\ m_conns' = conns /\ refused' = refused
        /\ m_sessions' = IF data /\ is_session[c] /\ m_sessions[sessid[c]] = "none"
                         THEN [m_sessions EXCEPT ![sessid[c]] = "idle"] ELSE m_sessions
    BY DEF QueryCallback
  <1>2. sessid[c] \in Keys /\ m_sessions \in [Keys -> {"none", "idle", "active"}] /\ Types
    BY DEF Keys, Types, Before
  <1>3. \A k \in Keys : m_sessions[k] # "none" => k \in fnd
    BY DEF Before
  <1>4. data => sessid[c] \in fnd
    OBVIOUS
  <1>5. a \in Replies /\ (a = "ok" <=> data) /\ a # "session"
    BY DEF Replies
  <1> HIDE DEF data, a
  <1>6. /\ m_sessions' \in [Keys -> {"none", "idle", "active"}]
        /\ \A k \in Keys : m_sessions'[k] # "none" => k \in fnd
    BY <1>1, <1>2, <1>3, <1>4
  <1>7. /\ s # <<>> /\ (s = <<"ok">> <=> a = "ok") /\ s # <<"session">>
        /\ \E b \in Replies : s = <<b>>
    BY <1>5
  <1> HIDE DEF s
  <1>8. CmdInv(c, "done", s, Held(conns), refused, did, fnd)
    BY <1>4, <1>5, <1>7 DEF CmdInv
  <1>9. \A d \in Cmds \ {c} : CmdInv(d, step[d], answer[d], Held(conns), refused, did, fnd)
    BY DEF Before
  <1>10. /\ step' \in [Cmds -> {"new", "insert", "query", "done"}]
         /\ answer' \in [Cmds -> Seq(Replies)] /\ refused' \subseteq Cmds
         /\ \A d \in Cmds : CmdInv(d, step'[d], answer'[d], Held(m_conns)', refused', did, fnd)
    BY <1>1, <1>2, <1>5, <1>8, <1>9, AnswerCmd DEF s
  <1>11. PoolsOK(m_conns)' /\ Apart(m_conns)'
    BY <1>1 DEF Before
  <1> QED
    BY <1>6, <1>10, <1>11 DEF After

\* A connection calls its first task back.
LEMMA CallbackInv ==
    ASSUME IndInv, NEW p \in Places, OnMysqlCallback(p[1], p[2])
    PROVE  IndInv'
  <1> DEFINE i == p[1]
             k == p[2]
             x == m_conns[i].list[k]
             q == QueueOf(m_conns, i, k)
             t == Head(q)
             y == [x EXCEPT !.tasks = Tail(q)]
             conns == Put(m_conns, i, k, y)
             held == Held(m_conns)
  <1>1. PoolsOK(m_conns) /\ Apart(m_conns) /\ Types
    BY DEF IndInv
  <1>2. i \in Identities /\ k \in 1..Len(m_conns[i].list)
    BY <1>1, PlaceFacts
  <1>3. x \in Conn /\ q \in Seq(Tasks) /\ x.up \in BOOLEAN
    BY <1>1, <1>2, PoolFacts
  <1>4. PICK run \in {x.up, FALSE}, ok \in {x.up, FALSE} :
           /\ ok => run
           /\ inserted' = IF run /\ t.op = "insert" THEN Append(inserted, t.cmd) ELSE inserted
           /\ found' = IF ok /\ t.op = "query" THEN found \cup ({sessid[t.cmd]} \cap Rows)
                       ELSE found
           /\ LET d == [m_conns EXCEPT ![i].list[k].tasks = Tail(@)]
              IN  CASE step[t.cmd] \notin {"insert", "query"} ->
                         m_conns' = d /\ UNCHANGED <<step, answer, m_sessions, refused>>
                    [] step[t.cmd] = "insert" -> InsertCallback(t.cmd, ok, d)
                    [] step[t.cmd] = "query" -> QueryCallback(t.cmd, ok, d)
    BY DEF OnMysqlCallback, QueueOf
  <1>5. q # <<>> /\ losses' = losses
    BY DEF OnMysqlCallback, QueueOf
  <1>6. [m_conns EXCEPT ![i].list[k].tasks = Tail(@)] = conns
    BY DEF Put, QueueOf
  <1> HIDE DEF x, i, k
  <1>7. y \in Conn /\ y.tasks = Tail(q)
    <2>1. Tail(q) \in Seq(Tasks)
      BY <1>3, <1>5, TailRange
    <2> DEFINE r == Tail(q)
    <2> HIDE DEF r, q
    <2>2. [x EXCEPT !.tasks = r] \in Conn /\ [x EXCEPT !.tasks = r].tasks = r
      BY <1>3, <2>1 DEF Conn, r
    <2> QED
      BY <2>2 DEF r
  <1> HIDE DEF y
  <1>8. PoolsOK(conns)
    BY <1>1, <1>2, <1>7, PutFacts
  <1>9. t \in held /\ Held(conns) = held \ {t} /\ Apart(conns)
    BY <1>1, <1>2, <1>5, <1>7, PutLess
  <1>10. ok \in BOOLEAN /\ run \in BOOLEAN
    BY <1>3, <1>4
  <1>11. PICK c \in Cmds, op \in {"insert", "query"} : t = Task(c, op)
    BY <1>9 DEF Held, Tasks
  <1>12. t.cmd = c /\ t.op = op
    BY <1>11 DEF Task
  <1> HIDE DEF q, t, conns, held
  <1> DEFINE did == Range(inserted')
             fnd == found'
  <1>13. CmdInv(c, step[c], answer[c], held, refused, Range(inserted), found)
    BY DEF IndInv, held
  <1>14. inserted \in Seq(Cmds) /\ IsInjective(inserted)
    BY <1>1 DEF Types
  <1>15. /\ inserted' \in Seq(Cmds) /\ IsInjective(inserted')
         /\ did = Range(inserted) \cup (IF run /\ op = "insert" THEN {c} ELSE {})
    <2>1. CASE run /\ op = "insert"
      <3>1. c \notin Range(inserted)
        BY <1>9, <1>11, <1>13, <2>1 DEF CmdInv
      <3>2. inserted' = Append(inserted, c)
        BY <1>4, <1>12, <2>1
      <3>3. /\ Append(inserted, c) \in Seq(Cmds) /\ IsInjective(Append(inserted, c))
            /\ Range(Append(inserted, c)) = Range(inserted) \cup {c}
        BY <1>14, <3>1, AppendRange
      <3> QED
        BY <2>1, <3>2, <3>3
    <2>2. CASE ~(run /\ op = "insert")
      BY <1>4, <1>12, <1>14, <2>2
    <2> QED
      BY <2>1, <2>2
  <1>16. /\ found \subseteq fnd /\ fnd \subseteq Keys
         /\ ok /\ op = "query" /\ sessid[c] \in Rows => sessid[c] \in fnd
    <2>1. sessid[c] \in Keys /\ found \subseteq Keys
      BY <1>1 DEF Keys, Types
    <2> QED
      BY <1>4, <1>12, <2>1
  <1> HIDE DEF did, fnd
  <1>17. \A o \in {"insert", "query"} : \A d \in Cmds \ {c} : Task(d, o) # t
    BY <1>11, TaskEq
  <1>18. ASSUME NEW d \in Cmds \ {c}
         PROVE  CmdInv(d, step[d], answer[d], Held(conns), refused, did, fnd)
    <2>1. CmdInv(d, step[d], answer[d], held, refused, Range(inserted), found)
      BY DEF IndInv, held
    <2>2. \A o \in {"insert", "query"} : Task(d, o) \in Held(conns) <=> Task(d, o) \in held
      BY <1>9, <1>17
    <2>3. d \in did <=> d \in Range(inserted)
      BY <1>15
    <2> QED
      BY <1>16, <2>1, <2>2, <2>3, OtherCmd
  <1>19. Before(c, conns, did, fnd)
    <2>1. \A l \in Keys : m_sessions[l] # "none" => l \in fnd
      BY <1>16 DEF IndInv
    <2> QED
      BY <1>1, <1>8, <1>9, <1>18, <2>1 DEF Before
  <1>20. Task(c, op) \notin Held(conns) /\ \A o : Task(c, o) \in Held(conns) => Task(c, o) \in held
    BY <1>9, <1>11
  <1>21. After(did, fnd)
    <2>1. CASE step[c] # op
      <3>0. step[c] = "done"
        BY <1>9, <1>11, <1>13, <2>1 DEF CmdInv
      <3>1. m_conns' = conns /\ UNCHANGED <<step, answer, m_sessions, refused>>
        BY <1>4, <1>6, <1>12, <3>0
      <3>2. CmdInv(c, step[c], answer[c], Held(conns), refused, did, fnd)
        BY <1>9, <1>11, <1>13, <1>15, <1>16, <1>20, <3>0 DEF CmdInv
      <3>3. \A d \in Cmds : CmdInv(d, step[d], answer[d], Held(conns), refused, did, fnd)
        BY <1>18, <3>2
      <3>4. \A d \in Cmds : CmdInv(d, step'[d], answer'[d], Held(m_conns)', refused', did, fnd)
        BY <3>1, <3>3
      <3>5. PoolsOK(m_conns)' /\ Apart(m_conns)'
        BY <1>8, <1>9, <3>1
      <3> QED
        BY <1>19, <3>1, <3>4, <3>5 DEF After, Before, Types
    <2>2. CASE step[c] = op
      <3>1. answer[c] = <<>> /\ c \notin refused
        BY <1>9, <1>11, <1>13, <2>2 DEF CmdInv
      <3>2. CASE op = "insert"
        <4>1. InsertCallback(c, ok, conns)
          BY <1>4, <1>6, <1>12, <2>2, <3>2
        <4>2. oper[c] # "read" /\ Task(c, "query") \notin Held(conns) /\ (ok => c \in did)
          BY <1>4, <1>13, <1>15, <1>20, <2>2, <3>2 DEF CmdInv
        <4> QED
          BY <1>10, <1>19, <1>20, <3>1, <3>2, <4>1, <4>2, InsertCallbackInv
      <3>3. CASE op = "query"
        <4>1. QueryCallback(c, ok, conns)
          BY <1>4, <1>6, <1>12, <2>2, <3>3
        <4>2. Task(c, "insert") \notin Held(conns) /\ (oper[c] # "read" => c \in did)
          BY <1>13, <1>15, <1>20, <2>2, <3>3 DEF CmdInv
        <4> QED
          BY <1>10, <1>16, <1>19, <1>20, <3>1, <3>3, <4>1, <4>2, QueryCallbackInv
      <3> QED
        BY <3>2, <3>3
    <2> QED
      BY <2>1, <2>2
  <1>22. losses' \in 0..MaxLosses
    BY <1>1, <1>5 DEF Types
  <1> QED
    BY <1>15, <1>16, <1>21, <1>22, AfterInv DEF did, fnd
\* A connection is lost or made again: up changes, the queues stay.
LEMMA UpFacts ==
    ASSUME PoolsOK(m_conns), Apart(m_conns), NEW p \in Places, NEW up \in BOOLEAN
    PROVE  LET d == [m_conns EXCEPT ![p[1]].list[p[2]].up = up]
           IN  /\ PoolsOK(d) /\ Apart(d) /\ Held(d) = Held(m_conns)
               /\ \A i \in Identities :
                     /\ Len(d[i].list) = Len(m_conns[i].list) /\ d[i].iter = m_conns[i].iter
                     /\ \A k \in 1..Len(m_conns[i].list) :
                           d[i].list[k].uses = m_conns[i].list[k].uses
  <1> DEFINE i == p[1]
             k == p[2]
             x == m_conns[i].list[k]
             y == [x EXCEPT !.up = up]
             d == Put(m_conns, i, k, y)
  <1>1. i \in Identities /\ k \in 1..Len(m_conns[i].list)
    BY PlaceFacts
  <1>2. x \in Conn
    BY <1>1, PoolFacts
  <1>3. [m_conns EXCEPT ![i].list[k].up = up] = d
    BY DEF Put
  <1> HIDE DEF i, k
  <1>4. y \in Conn /\ y.tasks = QueueOf(m_conns, i, k) /\ y.uses = x.uses
    <2>1. x.tasks = QueueOf(m_conns, i, k)
      BY DEF QueueOf
    <2> HIDE DEF x
    <2> QED
      BY <1>2, <2>1 DEF Conn
  <1> HIDE DEF y
  <1>5. /\ PoolsOK(d)
        /\ \A j \in Identities : Len(d[j].list) = Len(m_conns[j].list) /\ d[j].iter = m_conns[j].iter
        /\ \A j \in Identities : \A m \in 1..Len(m_conns[j].list) :
              d[j].list[m] = IF j = i /\ m = k THEN y ELSE m_conns[j].list[m]
    BY <1>1, <1>4, PutFacts
  <1>6. Held(d) = Held(m_conns) /\ Apart(d)
    BY <1>1, <1>4, PutSame
  <1> HIDE DEF d
  <1>7. \A j \in Identities : \A m \in 1..Len(m_conns[j].list) :
           d[j].list[m].uses = m_conns[j].list[m].uses
    <2>1. SUFFICES ASSUME NEW j \in Identities, NEW m \in 1..Len(m_conns[j].list)
                   PROVE  d[j].list[m].uses = m_conns[j].list[m].uses
      OBVIOUS
    <2>2. CASE j = i /\ m = k
      BY <1>4, <1>5, <2>2
    <2>3. CASE ~(j = i /\ m = k)
      BY <1>5, <2>3
    <2> QED
      BY <2>2, <2>3
  <1> QED
    BY <1>3, <1>5, <1>6, <1>7 DEF i, k

\* A lost connection keeps its tasks.
LEMMA LoseInv ==
    ASSUME IndInv, NEW p \in Places, Lose(p[1], p[2])
    PROVE  IndInv'
  <1> DEFINE d == [m_conns EXCEPT ![p[1]].list[p[2]].up = FALSE]
  <1>1. PoolsOK(d) /\ Apart(d) /\ Held(d) = Held(m_conns)
    BY UpFacts DEF IndInv
  <1>2. /\ m_conns' = d /\ losses' = losses + 1 /\ losses < MaxLosses
        /\ UNCHANGED <<step, answer, m_sessions, refused, inserted, found>>
    BY DEF Lose
  <1> HIDE DEF d
  <1>3. losses' \in 0..MaxLosses
    BY <1>2, PoolAssumption DEF IndInv, Types
  <1>4. Held(m_conns)' = Held(m_conns) /\ PoolsOK(m_conns)' /\ Apart(m_conns)'
    BY <1>1, <1>2
  <1>5. \A c \in Cmds : CmdInv(c, step[c], answer[c], Held(m_conns), refused, Range(inserted), found)'
    BY <1>2, <1>4 DEF IndInv
  <1> QED
    BY <1>2, <1>3, <1>4, <1>5 DEF IndInv, Types

\* A connection that is made again has the tasks it had.
LEMMA RestoreInv ==
    ASSUME IndInv, NEW p \in Places, Restore(p[1], p[2])
    PROVE  IndInv'
  <1> DEFINE d == [m_conns EXCEPT ![p[1]].list[p[2]].up = TRUE]
  <1>1. PoolsOK(d) /\ Apart(d) /\ Held(d) = Held(m_conns)
    BY UpFacts DEF IndInv
  <1>2. m_conns' = d /\ UNCHANGED <<step, answer, m_sessions, refused, inserted, found, losses>>
    BY DEF Restore
  <1> HIDE DEF d
  <1>3. Held(m_conns)' = Held(m_conns) /\ PoolsOK(m_conns)' /\ Apart(m_conns)'
    BY <1>1, <1>2
  <1>4. \A c \in Cmds : CmdInv(c, step[c], answer[c], Held(m_conns), refused, Range(inserted), found)'
    BY <1>2, <1>3 DEF IndInv
  <1> QED
    BY <1>2, <1>3, <1>4 DEF IndInv, Types

\* A command times out: its task stays in its queue.
LEMMA CmdTimerInv ==
    ASSUME IndInv, NEW c \in Cmds, OnCmdTimer(c)
    PROVE  IndInv'
  <1>1. /\ step[c] \in {"insert", "query"} /\ step' = [step EXCEPT ![c] = "done"]
        /\ UNCHANGED <<answer, m_conns, m_sessions, refused, inserted, found, losses>>
    BY DEF OnCmdTimer
  <1>2. step \in [Cmds -> {"new", "insert", "query", "done"}]
    BY DEF IndInv, Types
  <1>3. step'[c] = "done" /\ \A d \in Cmds \ {c} : step'[d] = step[d]
    BY <1>1, <1>2
  <1> DEFINE did == Range(inserted)
             held == Held(m_conns)
  <1>4. \A d \in Cmds : CmdInv(d, step[d], answer[d], held, refused, did, found)
    BY DEF IndInv
  <1>5. did' = did /\ held' = held
    BY <1>1
  <1> HIDE DEF did, held
  <1>6. ASSUME NEW d \in Cmds
        PROVE  CmdInv(d, step'[d], answer[d], held, refused, did, found)
    <2>1. CASE d = c
      BY <1>1, <1>3, <1>4, <2>1 DEF CmdInv
    <2>2. CASE d # c
      BY <1>3, <1>4, <2>2
    <2> QED
      BY <2>1, <2>2
  <1>7. \A d \in Cmds : CmdInv(d, step[d], answer[d], Held(m_conns), refused, Range(inserted), found)'
    BY <1>1, <1>6 DEF did, held
  <1>8. Types'
    BY <1>1, <1>2 DEF IndInv, Types
  <1>9. /\ PoolsOK(m_conns)' /\ Apart(m_conns)'
        /\ \A k \in Keys : m_sessions'[k] # "none" => k \in found'
    BY <1>1 DEF IndInv
  <1> QED
    BY <1>7, <1>8, <1>9 DEF IndInv

\* A session becomes idle or goes; what was found stays found.
LEMMA SessionTimerInv ==
    ASSUME IndInv, NEW k \in Keys, OnSessionTimer(k)
    PROVE  IndInv'
  <1>1. /\ m_sessions[k] # "none"
        /\ m_sessions' = [m_sessions EXCEPT ![k] = IF @ = "active" THEN "idle" ELSE "none"]
        /\ UNCHANGED <<step, answer, m_conns, refused, inserted, found, losses>>
    BY DEF OnSessionTimer
  <1>2. /\ m_sessions \in [Keys -> {"none", "idle", "active"}]
        /\ \A l \in Keys : m_sessions[l] # "none" => l \in found
    BY DEF IndInv, Types
  <1>3. /\ m_sessions' \in [Keys -> {"none", "idle", "active"}]
        /\ \A l \in Keys : m_sessions'[l] # "none" => l \in found
    BY <1>1, <1>2
  <1>4. PoolsOK(m_conns)' /\ Apart(m_conns)' /\ Types'
    BY <1>1, <1>3 DEF IndInv, Types
  <1>5. \A d \in Cmds : CmdInv(d, step[d], answer[d], Held(m_conns), refused, Range(inserted), found)'
    BY <1>1 DEF IndInv
  <1> QED
    BY <1>1, <1>3, <1>4, <1>5 DEF IndInv

\* The invariant holds initially and no step breaks it.
LEMMA InitInv == Init => IndInv
  <1> SUFFICES ASSUME Init PROVE IndInv
    OBVIOUS
  <1>1. /\ step = [c \in Cmds |-> "new"] /\ answer = [c \in Cmds |-> <<>>]
        /\ m_conns = [i \in Identities |-> [list |-> <<>>, iter |-> 0]]
        /\ m_sessions = [k \in Keys |-> "none"]
        /\ refused = {} /\ inserted = <<>> /\ found = {} /\ losses = 0
    BY DEF Init
  <1> DEFINE none == <<>>
  <1>2. /\ none \in Seq(Conn) /\ Len(none) = 0 /\ none \in Seq(Replies) /\ none \in Seq(Cmds)
        /\ IsInjective(none) /\ Range(none) = {} /\ none # <<"ok">> /\ none # <<"session">>
    BY EmptySeq DEF IsInjective, Range
  <1>3. /\ answer = [c \in Cmds |-> none] /\ inserted = none
        /\ m_conns = [i \in Identities |-> [list |-> none, iter |-> 0]]
    BY <1>1
  <1> HIDE DEF none
  <1>4. /\ m_conns \in [Identities -> [list : Seq(Conn), iter : Nat]]
        /\ \A i \in Identities : m_conns[i].list = none /\ m_conns[i].iter = 0
    BY <1>2, <1>3
  <1>5. PoolsOK(m_conns) /\ \A i \in Identities : 1..Len(m_conns[i].list) = {}
    BY <1>2, <1>4 DEF PoolsOK
  <1>6. Held(m_conns) = {} /\ Apart(m_conns)
    BY <1>5 DEF Held, Apart
  <1>7. Types
    BY <1>1, <1>2, <1>3, PoolAssumption DEF Types
  <1>8. ASSUME NEW c \in Cmds
        PROVE  CmdInv(c, step[c], answer[c], Held(m_conns), refused, Range(inserted), found)
    <2>1. step[c] = "new" /\ answer[c] = none /\ Range(inserted) = {}
      BY <1>1, <1>2, <1>3
    <2> QED
      BY <1>1, <1>2, <1>6, <2>1 DEF CmdInv, none
  <1> QED
    BY <1>1, <1>5, <1>6, <1>7, <1>8 DEF IndInv

\* One case for each action.
LEMMA NextInv == IndInv /\ [Next]_vars => IndInv'
  <1> SUFFICES ASSUME IndInv, [Next]_vars PROVE IndInv'
    OBVIOUS
  <1>1. ASSUME NEW c \in Cmds, Execute(c) PROVE IndInv'
    BY <1>1, ExecuteInv
  <1>2. ASSUME NEW c \in Cmds, OnCmdTimer(c) PROVE IndInv'
    BY <1>2, CmdTimerInv
  <1>3. ASSUME NEW p \in Places, OnMysqlCallback(p[1], p[2]) PROVE IndInv'
    BY <1>3, CallbackInv
  <1>4. ASSUME NEW p \in Places, Lose(p[1], p[2]) PROVE IndInv'
    BY <1>4, LoseInv
  <1>5. ASSUME NEW p \in Places, Restore(p[1], p[2]) PROVE IndInv'
    BY <1>5, RestoreInv
  <1>6. ASSUME NEW k \in Keys, OnSessionTimer(k) PROVE IndInv'
    BY <1>6, SessionTimerInv
  <1>7. CASE UNCHANGED vars
    <2>1. UNCHANGED <<step, answer, m_conns, m_sessions, refused, inserted, found, losses>>
      BY <1>7 DEF vars
    <2>2. Types' /\ PoolsOK(m_conns)' /\ Apart(m_conns)'
      BY <2>1 DEF IndInv, Types
    <2>3. \A d \in Cmds :
             CmdInv(d, step[d], answer[d], Held(m_conns), refused, Range(inserted), found)'
      BY <2>1 DEF IndInv
    <2> QED
      BY <2>1, <2>2, <2>3 DEF IndInv
  <1> QED
    BY <1>1, <1>2, <1>3, <1>4, <1>5, <1>6, <1>7 DEF Next

\* So it always holds.
LEMMA Invariance == Spec => []IndInv
  BY InitInv, NextInv, PTL DEF Spec

-----------------------------------------------------------------------------
(* What commands may rely on *)

\* A command answers at most once, and truly: what it says it wrote is in mysql,
\* once, and what it says it read was read (execute_steps of cmd_test_mysql.h,
\* get_session, get_alloc_session), for all commands and pools.
THEOREM CommandsAnswerTruly == Spec => []AnswersTrue
  <1>1. IndInv => AnswersTrue
    <2> SUFFICES ASSUME IndInv PROVE AnswersTrue
      OBVIOUS
    <2>1. IsInjective(inserted)
      BY DEF IndInv, Types
    <2>2. ASSUME NEW c \in Cmds
          PROVE  /\ Len(answer[c]) <= 1
                 /\ answer[c] = <<"ok">> /\ oper[c] # "read" => c \in Range(inserted)
                 /\ answer[c] \in {<<"ok">>, <<"session">>} /\ oper[c] # "write" =>
                       sessid[c] \in found
                 /\ answer[c] = <<"session">> => is_session[c]
      <3>1. CmdInv(c, step[c], answer[c], Held(m_conns), refused, Range(inserted), found)
        BY DEF IndInv
      <3>2. Len(<<>>) <= 1 /\ \A a : Len(<<a>>) <= 1
        OBVIOUS
      <3>3. Len(answer[c]) <= 1
        BY <3>1, <3>2 DEF CmdInv
      <3> QED
        BY <3>1, <3>3 DEF CmdInv
    <2> QED
      BY <2>1, <2>2 DEF AnswersTrue
  <1> QED
    BY <1>1, Invariance, PTL
\* A task of the pools is in one place, and one that they do not have in none.
LEMMA QueuedOnce ==
    ASSUME IndInv, NEW t \in Tasks
    PROVE  Cardinality(Queued(t)) = IF t \in Held(m_conns) THEN 1 ELSE 0
  <1> DEFINE At(p) == {j \in DOMAIN m_conns[p[1]].list[p[2]].tasks :
                          m_conns[p[1]].list[p[2]].tasks[j] = t}
  <1>1. PoolsOK(m_conns) /\ Apart(m_conns)
    BY DEF IndInv
  <1>2. \A p \in Places : /\ p[1] \in Identities /\ p[2] \in 1..Len(m_conns[p[1]].list)
                          /\ p = <<p[1], p[2]>>
    <2>1. ASSUME NEW p \in Places PROVE p = <<p[1], p[2]>>
      <3>1. PICK i \in Identities : p \in {<<i, k>> : k \in DOMAIN m_conns[i].list}
        BY DEF Places
      <3> QED
        BY <3>1
    <2> QED
      BY <1>1, <2>1, PlaceFacts
  <1>3. \A p \in Places : \A j \in At(p) : t \in Range(QueueOf(m_conns, p[1], p[2]))
    BY DEF Range, QueueOf
  <1>4. \A e : e \in Queued(t) <=> \E p \in Places : \E j \in At(p) : e = <<p, j>>
    BY DEF Queued
  <1>5. ASSUME NEW p \in Places, NEW r \in Places, NEW j \in At(p), NEW l \in At(r)
        PROVE  p = r /\ j = l
    <2>1. \/ p[1] = r[1] /\ p[2] = r[2]
          \/ Range(QueueOf(m_conns, p[1], p[2])) \cap Range(QueueOf(m_conns, r[1], r[2])) = {}
      BY <1>1, <1>2 DEF Apart
    <2>2. p[1] = r[1] /\ p[2] = r[2]
      BY <1>3, <2>1
    <2>3. p = r
      BY <1>2, <2>2
    <2>4. IsInjective(QueueOf(m_conns, p[1], p[2]))
      BY <1>1, <1>2 DEF Apart
    <2> QED
      BY <2>3, <2>4 DEF IsInjective, QueueOf
  <1>6. CASE t \in Held(m_conns)
    <2>1. PICK i \in Identities :
             \E k \in 1..Len(m_conns[i].list) : t \in Range(QueueOf(m_conns, i, k))
      BY <1>6 DEF Held
    <2>2. PICK k \in 1..Len(m_conns[i].list) : t \in Range(QueueOf(m_conns, i, k))
      BY <2>1
    <2> DEFINE p == <<i, k>>
    <2>3. p \in Places
      <3>1. DOMAIN m_conns[i].list = 1..Len(m_conns[i].list)
        BY <1>1, PoolFacts
      <3> QED
        BY <2>2, <3>1 DEF Places
    <2>4. PICK j \in At(p) : TRUE
      BY <2>2 DEF Range, QueueOf
    <2> HIDE DEF p, At
    <2>5. Queued(t) = {<<p, j>>}
      BY <1>4, <1>5, <2>3, <2>4
    <2> QED
      BY <1>6, <2>5, FS_Singleton
  <1>7. CASE t \notin Held(m_conns)
    <2>1. \A p \in Places : At(p) = {}
      BY <1>2, <1>3, <1>7 DEF Held
    <2> HIDE DEF At
    <2>2. Queued(t) = {}
      BY <1>4, <2>1
    <2> QED
      BY <1>7, <2>2, FS_EmptySet
  <1> QED
    BY <1>6, <1>7

\* A command waits for exactly one task, in one queue and of its step, or for
\* its timer alone; no task is queued twice, or before its command begins
\* (handle_sql, execute_steps), for all commands and pools, and however often
\* connections are lost.
THEOREM OneTaskPerStep == Spec => []TasksOfCommands
  <1>1. IndInv => TasksOfCommands
    <2> SUFFICES ASSUME IndInv PROVE TasksOfCommands
      OBVIOUS
    <2>1. Types /\ PoolsOK(m_conns)
      BY DEF IndInv
    <2>2. \A c \in Cmds : Range(answer[c]) \subseteq Replies
      BY <2>1, RangeFacts DEF Types
    <2>3. \A p \in Places : Range(m_conns[p[1]].list[p[2]].tasks) \subseteq Tasks
      BY <2>1, PlaceFacts, PoolFacts DEF QueueOf
    <2>4. TypeOK
      BY <2>1, <2>2, <2>3 DEF TypeOK, Types, Replies
    <2>5. ASSUME NEW c \in Cmds, NEW op \in {"insert", "query"}
          PROVE  LET n == Cardinality(Queued(Task(c, op)))
                 IN  /\ n <= 1
                     /\ step[c] = op => (n = IF c \in refused THEN 0 ELSE 1)
                     /\ step[c] = "new" => n = 0
      <3> DEFINE t == Task(c, op)
                 n == Cardinality(Queued(t))
      <3>1. t \in Tasks
        BY DEF Tasks
      <3>2. n = IF t \in Held(m_conns) THEN 1 ELSE 0
        BY <3>1, QueuedOnce
      <3>3. CmdInv(c, step[c], answer[c], Held(m_conns), refused, Range(inserted), found)
        BY DEF IndInv
      <3>4. step[c] = op => (t \in Held(m_conns) <=> c \notin refused)
        BY <3>3 DEF CmdInv
      <3>5. step[c] = "new" => t \notin Held(m_conns)
        BY <3>3 DEF CmdInv
      <3> HIDE DEF n, t
      <3>6. n <= 1 /\ (step[c] = op => (n = IF c \in refused THEN 0 ELSE 1))
            /\ (step[c] = "new" => n = 0)
        BY <3>2, <3>4, <3>5
      <3> QED
        BY <3>6 DEF n, t
    <2> QED
      BY <2>4, <2>5 DEF TasksOfCommands
  <1> QED
    BY <1>1, Invariance, PTL

-----------------------------------------------------------------------------
(* The turns of the connections *)

\* One entry in m_conns, and names of one size.
OnePool ==
    \A n, m \in Nodes : identity[n] = identity[m] /\ max_conn_cnt[n] = max_conn_cnt[m]

\* The connections after the first, up to the iterator, were used once more than
\* the others; while the list is short each was used once.
TurnOK(conns, i, max) ==
    LET n == Len(conns[i].list)
        at == conns[i].iter
    IN  /\ n <= max
        /\ n > 0 =>
              /\ at \in 1..n
              /\ \E b \in Nat :
                    /\ \A k \in 1..n :
                          conns[i].list[k].uses = IF 2 <= k /\ k <= at THEN b + 1 ELSE b
                    /\ n < max => at = 1 /\ b = 1

\* It is about the uses only.
LEMMA TurnSame ==
    ASSUME NEW conns, NEW d, NEW i, NEW max, TurnOK(conns, i, max),
           Len(d[i].list) = Len(conns[i].list), d[i].iter = conns[i].iter,
           \A k \in 1..Len(conns[i].list) : d[i].list[k].uses = conns[i].list[k].uses
    PROVE  TurnOK(d, i, max)
  BY DEF TurnOK

\* handle_sql uses the connection that get_conn gives once.
LEMMA HandleUses ==
    ASSUME NEW conns, PoolsOK(conns), NEW c \in Cmds, NEW op, Task(c, op) \in Tasks,
           NEW h \in handle_sql(conns, c, op)
    PROVE  \E g \in get_conn(conns, node[c]) :
              LET i == identity[node[c]]
              IN  /\ Len(h.conns[i].list) = Len(g.conns[i].list)
                  /\ h.conns[i].iter = g.conns[i].iter
                  /\ \A m \in 1..Len(g.conns[i].list) :
                        h.conns[i].list[m].uses =
                           IF m = g.at THEN g.conns[i].list[m].uses + 1 ELSE g.conns[i].list[m].uses
  <1> DEFINE n == node[c]
             i == identity[n]
             t == Task(c, op)
  <1>1. n \in Nodes /\ t \in Tasks
    BY PoolAssumption
  <1>2. PICK g \in get_conn(conns, n) :
           h = [ret |-> g.ok, taken |-> Used(g.conns, n, g.at)[i].list[g.at].up,
                conns |-> IF g.ok
                          THEN [Used(g.conns, n, g.at) EXCEPT ![i].list[g.at] = add_task(@, t)]
                          ELSE Used(g.conns, n, g.at)]
    BY DEF handle_sql
  <1> DEFINE a == g.conns
             k == g.at
             x == a[i].list[k]
             y == [x EXCEPT !.uses = @ + 1]
             used == Put(a, i, k, y)
             z == add_task(y, t)
             d == Put(used, i, k, z)
  <1>3. i \in Identities /\ PoolsOK(a) /\ g.ok \in BOOLEAN /\ k \in 1..Len(a[i].list)
    BY <1>1, <1>2, GetConnFacts
  <1>4. Used(a, n, k) = used
    BY DEF Used, Put
  <1> HIDE DEF a, k
  <1>5. x \in Conn
    BY <1>3, PoolFacts
  <1>6. y \in Conn /\ y.uses = x.uses + 1
    BY <1>5 DEF Conn
  <1> HIDE DEF y, x, i
  <1>7. /\ PoolsOK(used)
        /\ \A j \in Identities : Len(used[j].list) = Len(a[j].list) /\ used[j].iter = a[j].iter
        /\ \A j \in Identities : \A m \in 1..Len(a[j].list) :
              used[j].list[m] = IF j = i /\ m = k THEN y ELSE a[j].list[m]
    BY <1>3, <1>6, PutFacts
  <1> HIDE DEF used
  <1>8. used[i].list[k] = y
    BY <1>3, <1>7
  <1>9. h.conns = IF g.ok THEN d ELSE used
    BY <1>2, <1>4, <1>8 DEF Put, a, k, i
  <1>10. z \in Conn /\ z.uses = y.uses
    <2>1. y.tasks \in Seq(Tasks) /\ y.up \in BOOLEAN
      BY <1>6 DEF Conn
    <2>2. Append(y.tasks, t) \in Seq(Tasks)
      BY <1>1, <2>1, AppendProperties
    <2> HIDE DEF t
    <2> QED
      BY <1>6, <2>2 DEF add_task, Conn
  <1> HIDE DEF z, t
  <1>11. k \in 1..Len(used[i].list)
    BY <1>3, <1>7
  <1>12. /\ \A j \in Identities : Len(d[j].list) = Len(used[j].list) /\ d[j].iter = used[j].iter
         /\ \A j \in Identities : \A m \in 1..Len(used[j].list) :
               d[j].list[m] = IF j = i /\ m = k THEN z ELSE used[j].list[m]
    BY <1>3, <1>7, <1>10, <1>11, PutFacts
  <1> HIDE DEF d
  <1>13. ASSUME NEW m \in 1..Len(a[i].list)
         PROVE  /\ used[i].list[m].uses = IF m = k THEN a[i].list[m].uses + 1 ELSE a[i].list[m].uses
                /\ d[i].list[m].uses = used[i].list[m].uses
    <2>1. CASE m = k
      BY <1>3, <1>6, <1>7, <1>8, <1>10, <1>12, <2>1 DEF x
    <2>2. CASE m # k
      BY <1>3, <1>7, <1>12, <2>2
    <2> QED
      BY <2>1, <2>2
  <1>14. /\ Len(h.conns[i].list) = Len(a[i].list) /\ h.conns[i].iter = a[i].iter
         /\ \A m \in 1..Len(a[i].list) :
               h.conns[i].list[m].uses = IF m = k THEN a[i].list[m].uses + 1 ELSE a[i].list[m].uses
    <2>1. CASE g.ok
      BY <1>3, <1>7, <1>9, <1>12, <1>13, <2>1
    <2>2. CASE ~g.ok
      BY <1>3, <1>7, <1>9, <1>13, <2>2
    <2> QED
      BY <2>1, <2>2
  <1> QED
    BY <1>2, <1>14 DEF a, k, i
\* A pool, its key in m_conns, and the size of its names.
LEMMA OnePoolFacts ==
    ASSUME OnePool, NEW n \in Nodes
    PROVE  /\ Identities = {identity[n]} /\ max_conn_cnt[n] \in Nat /\ max_conn_cnt[n] >= 1
           /\ \A m \in Nodes : max_conn_cnt[m] = max_conn_cnt[n] /\ identity[m] = identity[n]
  BY PoolAssumption DEF OnePool, Identities

\* handle_sql keeps the turns.
LEMMA HandleTurn ==
    ASSUME OnePool, NEW conns, PoolsOK(conns), NEW c \in Cmds, NEW op, Task(c, op) \in Tasks,
           NEW h \in handle_sql(conns, c, op),
           TurnOK(conns, identity[node[c]], max_conn_cnt[node[c]])
    PROVE  TurnOK(h.conns, identity[node[c]], max_conn_cnt[node[c]])
  <1> DEFINE n == node[c]
             i == identity[n]
             max == max_conn_cnt[n]
             list == conns[i].list
             L == Len(list)
             e == h.conns
  <1>1. n \in Nodes
    BY PoolAssumption
  <1>2. Identities = {i} /\ max \in Nat /\ max >= 1 /\ i \in Identities
    BY <1>1, OnePoolFacts
  <1>3. PICK g \in get_conn(conns, n) :
           /\ Len(e[i].list) = Len(g.conns[i].list) /\ e[i].iter = g.conns[i].iter
           /\ \A m \in 1..Len(g.conns[i].list) :
                 e[i].list[m].uses =
                    IF m = g.at THEN g.conns[i].list[m].uses + 1 ELSE g.conns[i].list[m].uses
    BY HandleUses
  <1> DEFINE new == g.conns[i].list
             it == conns[i].iter
  <1>4. /\ L \in Nat /\ it \in Nat /\ list \in Seq(Conn)
        /\ \A k \in 1..L : list[k].uses \in Nat
    BY <1>2, PoolFacts
  <1>5. \/ First(g, conns, i) /\ g.conns[i].iter = 1 /\ \E x \in New : new = Append(list, x)
        \/ More(g, conns, i) /\ L < max /\ g.conns[i].iter = it
           /\ \E x \in New : new = Append(list, x)
        \/ Again(g, conns, i) /\ ~(L < max) /\ g.conns[i].iter = Turn(conns, i) /\ new = list
    BY <1>1, <1>2, <1>3, GetConnFacts
  <1>6. ASSUME NEW x \in New, new = Append(list, x)
        PROVE  /\ Len(new) = L + 1 /\ new[L + 1].uses = 0
               /\ \A k \in 1..L : new[k].uses = list[k].uses
    BY <1>4, <1>6, NewFacts, AppendProperties
  <1>7. /\ L <= max
        /\ L > 0 => /\ it \in 1..L
                    /\ \E b \in Nat :
                          /\ \A k \in 1..L : list[k].uses = IF 2 <= k /\ k <= it THEN b + 1 ELSE b
                          /\ L < max => it = 1 /\ b = 1
    BY DEF TurnOK
  <1>8. (list = <<>> => L = 0) /\ (list # <<>> => L > 0)
    BY <1>4, EmptySeq
  <1> HIDE DEF list, L, e, new, it, max
  <1>9. Len(e[i].list) = Len(new)
    BY <1>3 DEF new
  <1>10. CASE First(g, conns, i) /\ g.conns[i].iter = 1 /\ \E x \in New : new = Append(list, x)
    <2>1. L = 0 /\ g.at = 1
      BY <1>8, <1>10 DEF First, list
    <2>2. Len(new) = 1 /\ new[1].uses = 0
      BY <1>6, <1>10, <2>1
    <2>3. Len(e[i].list) = 1 /\ e[i].iter = 1 /\ e[i].list[1].uses = 1
      BY <1>3, <1>10, <2>1, <2>2 DEF new
    <2>4. \A k \in 1..1 : k = 1
      OBVIOUS
    <2> QED
      BY <1>2, <2>3, <2>4 DEF TurnOK, e, max
  <1>11. CASE /\ More(g, conns, i) /\ L < max /\ g.conns[i].iter = it
              /\ \E x \in New : new = Append(list, x)
    <2>1. L > 0 /\ g.at = L + 1
      BY <1>8, <1>11 DEF More, list, L
    <2>2. it = 1 /\ \A k \in 1..L : list[k].uses = 1
      BY <1>7, <1>11, <2>1
    <2>3. Len(new) = L + 1 /\ new[L + 1].uses = 0 /\ \A k \in 1..L : new[k].uses = 1
      BY <1>6, <1>11, <2>2
    <2>4. ASSUME NEW k \in 1..(L + 1) PROVE e[i].list[k].uses = 1
      <3>1. e[i].list[k].uses = IF k = g.at THEN new[k].uses + 1 ELSE new[k].uses
        BY <1>3, <2>3 DEF new
      <3> QED
        BY <1>4, <2>1, <2>3, <3>1
    <2>5. Len(e[i].list) = L + 1 /\ e[i].iter = 1
      BY <1>3, <1>9, <1>11, <2>2, <2>3
    <2>6. L + 1 <= max /\ 1 \in 1..(L + 1)
      BY <1>2, <1>4, <1>11
    <2>7. \E b \in Nat :
             /\ \A k \in 1..(L + 1) : e[i].list[k].uses = IF 2 <= k /\ k <= 1 THEN b + 1 ELSE b
             /\ L + 1 < max => b = 1
      <3>1. \A k \in 1..(L + 1) : ~(2 <= k /\ k <= 1)
        BY <1>4
      <3> QED
        BY <2>4, <3>1
    <2>8. TurnOK(e, i, max)
      BY <2>5, <2>6, <2>7 DEF TurnOK
    <2> QED
      BY <2>8 DEF e, max
  <1>12. CASE Again(g, conns, i) /\ ~(L < max) /\ g.conns[i].iter = Turn(conns, i) /\ new = list
    <2> DEFINE turn == IF it = L THEN 1 ELSE it + 1
    <2>1. L > 0 /\ g.at = turn /\ e[i].iter = turn
      BY <1>3, <1>8, <1>12 DEF Again, Turn, list, L, it
    <2>2. PICK b \in Nat : \A k \in 1..L : list[k].uses = IF 2 <= k /\ k <= it THEN b + 1 ELSE b
      BY <1>7, <2>1
    <2>3. it \in 1..L
      BY <1>7, <2>1
    <2>4. \A k \in 1..L : e[i].list[k].uses = IF k = turn THEN list[k].uses + 1 ELSE list[k].uses
      BY <1>3, <1>12, <2>1 DEF new, L
    <2>5. Len(e[i].list) = L /\ turn \in 1..L
      BY <1>4, <1>9, <1>12, <2>1, <2>3 DEF L
    <2>6. \E d \in Nat : \A k \in 1..L :
             e[i].list[k].uses = IF 2 <= k /\ k <= turn THEN d + 1 ELSE d
      <3>1. CASE it = L
        <4>1. \A k \in 1..L : e[i].list[k].uses = b + 1
          BY <1>4, <2>2, <2>4, <3>1
        <4>2. \A k \in 1..L : ~(2 <= k /\ k <= turn)
          BY <1>4, <3>1
        <4>3. b + 1 \in Nat
          BY <2>2
        <4> QED
          BY <4>1, <4>2, <4>3
      <3>2. CASE it # L
        <4>1. \A k \in 1..L : e[i].list[k].uses = IF 2 <= k /\ k <= turn THEN b + 1 ELSE b
          BY <1>4, <2>2, <2>3, <2>4, <3>2
        <4> QED
          BY <2>2, <4>1
      <3> QED
        BY <3>1, <3>2
    <2> HIDE DEF turn
    <2>7. \E d \in Nat :
             /\ \A k \in 1..L : e[i].list[k].uses = IF 2 <= k /\ k <= turn THEN d + 1 ELSE d
             /\ L < max => turn = 1 /\ d = 1
      BY <1>12, <2>6
    <2>8. TurnOK(e, i, max)
      <3>1. Len(e[i].list) = L /\ e[i].iter = turn /\ L <= max
        BY <1>7, <2>1, <2>5
      <3> QED
        BY <2>5, <2>7, <3>1 DEF TurnOK
    <2> QED
      BY <2>8 DEF e, max
  <1> QED
    BY <1>5, <1>10, <1>11, <1>12

\* The turns of all pools.
TurnInv == \A i \in Identities, n \in Nodes : TurnOK(m_conns, i, max_conn_cnt[n])

\* A step of a command that goes on from the pools conns.
Served(conns) ==
    \/ m_conns' = conns
    \/ \E c \in Cmds, op \in {"insert", "query"} :
          \E h \in handle_sql(conns, c, op) : m_conns' = h.conns

\* Such a step keeps the turns, where there is one pool.
LEMMA ServedTurn ==
    ASSUME OnePool, NEW conns, PoolsOK(conns), Served(conns),
           \A i \in Identities, n \in Nodes : TurnOK(conns, i, max_conn_cnt[n])
    PROVE  TurnInv'
  <1>1. CASE m_conns' = conns
    BY <1>1 DEF TurnInv
  <1>2. ASSUME NEW c \in Cmds, NEW op \in {"insert", "query"}, NEW h \in handle_sql(conns, c, op),
               m_conns' = h.conns
        PROVE  TurnInv'
    <2>1. node[c] \in Nodes /\ Task(c, op) \in Tasks
      BY PoolAssumption DEF Tasks
    <2>2. /\ Identities = {identity[node[c]]}
          /\ \A m \in Nodes : max_conn_cnt[m] = max_conn_cnt[node[c]]
      BY <2>1, OnePoolFacts
    <2>3. TurnOK(conns, identity[node[c]], max_conn_cnt[node[c]])
      BY <2>1, <2>2
    <2>4. TurnOK(h.conns, identity[node[c]], max_conn_cnt[node[c]])
      BY <1>2, <2>1, <2>3, HandleTurn
    <2> QED
      BY <1>2, <2>2, <2>4 DEF TurnInv
  <1> QED
    BY <1>1, <1>2 DEF Served

\* The steps of a command are of that kind.
LEMMA StepServed ==
    ASSUME NEW c \in Cmds, NEW conns, QueryStep(c, conns) \/ InsertStep(c, conns)
    PROVE  Served(conns)
  BY DEF QueryStep, InsertStep, Submit, Served
\* A step keeps the turns.
LEMMA NextTurn == OnePool /\ IndInv /\ TurnInv /\ [Next]_vars => TurnInv'
  <1> SUFFICES ASSUME OnePool, IndInv, TurnInv, [Next]_vars PROVE TurnInv'
    OBVIOUS
  <1>1. PoolsOK(m_conns) /\ Apart(m_conns)
    BY DEF IndInv
  <1>2. \A i \in Identities, n \in Nodes : TurnOK(m_conns, i, max_conn_cnt[n])
    BY DEF TurnInv
  <1>3. ASSUME NEW c \in Cmds, Execute(c) PROVE TurnInv'
    <2>1. Served(m_conns)
      BY <1>3, StepServed DEF Execute
    <2> QED
      BY <1>1, <1>2, <2>1, ServedTurn
  <1>4. ASSUME NEW p \in Places, OnMysqlCallback(p[1], p[2]) PROVE TurnInv'
    <2> DEFINE i == p[1]
               k == p[2]
               x == m_conns[i].list[k]
               q == QueueOf(m_conns, i, k)
               t == Head(q)
               y == [x EXCEPT !.tasks = Tail(q)]
               conns == Put(m_conns, i, k, y)
    <2>1. i \in Identities /\ k \in 1..Len(m_conns[i].list)
      BY <1>1, PlaceFacts
    <2>2. x \in Conn /\ q \in Seq(Tasks) /\ q # <<>>
      BY <1>1, <1>4, <2>1, PoolFacts DEF OnMysqlCallback, QueueOf
    <2>3. PICK ok \in {x.up, FALSE} :
             CASE step[t.cmd] \notin {"insert", "query"} ->
                    /\ m_conns' = [m_conns EXCEPT ![i].list[k].tasks = Tail(@)]
                    /\ UNCHANGED <<step, answer, m_sessions, refused>>
               [] step[t.cmd] = "insert" ->
                    InsertCallback(t.cmd, ok, [m_conns EXCEPT ![i].list[k].tasks = Tail(@)])
               [] step[t.cmd] = "query" ->
                    QueryCallback(t.cmd, ok, [m_conns EXCEPT ![i].list[k].tasks = Tail(@)])
      BY <1>4 DEF OnMysqlCallback, QueueOf
    <2>4. [m_conns EXCEPT ![i].list[k].tasks = Tail(@)] = conns
      BY DEF Put, QueueOf
    <2>5. t \in Tasks
      BY <2>2, TailRange
    <2> HIDE DEF i, k
    <2>6. y \in Conn /\ y.uses = x.uses
      <3>1. Tail(q) \in Seq(Tasks)
        BY <2>2, TailRange
      <3> DEFINE r == Tail(q)
      <3> HIDE DEF r, q, x
      <3>2. [x EXCEPT !.tasks = r] \in Conn /\ [x EXCEPT !.tasks = r].uses = x.uses
        BY <2>2, <3>1 DEF Conn, r
      <3> QED
        BY <3>2 DEF r
    <2> HIDE DEF y, t, q
    <2>7. /\ PoolsOK(conns)
          /\ \A j \in Identities : Len(conns[j].list) = Len(m_conns[j].list) /\ conns[j].iter = m_conns[j].iter
          /\ \A j \in Identities : \A m \in 1..Len(m_conns[j].list) :
                conns[j].list[m] = IF j = i /\ m = k THEN y ELSE m_conns[j].list[m]
      BY <1>1, <2>1, <2>6, PutFacts
    <2> HIDE DEF conns
    <2>8. ASSUME NEW j \in Identities, NEW n \in Nodes
          PROVE  TurnOK(conns, j, max_conn_cnt[n])
      <3>1. ASSUME NEW m \in 1..Len(m_conns[j].list)
            PROVE  conns[j].list[m].uses = m_conns[j].list[m].uses
        <4>1. CASE j = i /\ m = k
          BY <2>6, <2>7, <4>1
        <4>2. CASE ~(j = i /\ m = k)
          BY <2>7, <4>2
        <4> QED
          BY <4>1, <4>2
      <3>2. TurnOK(m_conns, j, max_conn_cnt[n])
        BY <1>2
      <3> QED
        BY <2>7, <3>1, <3>2, TurnSame
    <2>9. PICK c \in Cmds, op \in {"insert", "query"} : t = Task(c, op)
      BY <2>5 DEF Tasks
    <2>10. t.cmd = c /\ t.op = op
      BY <2>9 DEF Task
    <2>11. Served(conns)
      <3>1. CASE step[c] \notin {"insert", "query"}
        BY <2>3, <2>4, <2>10, <3>1 DEF Served
      <3>2. CASE step[c] = "insert"
        <4>1. InsertCallback(c, ok, conns)
          BY <2>3, <2>4, <2>10, <3>2
        <4>2. QueryStep(c, conns) \/ m_conns' = conns
          BY <4>1 DEF InsertCallback
        <4> QED
          BY <4>2, StepServed DEF Served
      <3>3. CASE step[c] = "query"
        <4>1. QueryCallback(c, ok, conns)
          BY <2>3, <2>4, <2>10, <3>3
        <4> QED
          BY <4>1 DEF QueryCallback, Served
      <3> QED
        BY <3>1, <3>2, <3>3
    <2> QED
      BY <2>7, <2>8, <2>11, ServedTurn
  <1>5. ASSUME NEW p \in Places, Lose(p[1], p[2]) \/ Restore(p[1], p[2]) PROVE TurnInv'
    <2>1. PICK up \in BOOLEAN : m_conns' = [m_conns EXCEPT ![p[1]].list[p[2]].up = up]
      BY <1>5 DEF Lose, Restore
    <2>2. \A i \in Identities :
             /\ Len(m_conns'[i].list) = Len(m_conns[i].list) /\ m_conns'[i].iter = m_conns[i].iter
             /\ \A k \in 1..Len(m_conns[i].list) :
                   m_conns'[i].list[k].uses = m_conns[i].list[k].uses
      BY <1>1, <2>1, UpFacts
    <2> DEFINE d == m_conns'
    <2>3. \A i \in Identities, n \in Nodes : TurnOK(d, i, max_conn_cnt[n])
      BY <1>2, <2>2, TurnSame
    <2> QED
      BY <2>3 DEF TurnInv
  <1>6. CASE m_conns' = m_conns
    BY <1>2, <1>6 DEF TurnInv
  <1> QED
    BY <1>3, <1>4, <1>5, <1>6 DEF Next, OnCmdTimer, OnSessionTimer, vars

\* There are no connections at first.
LEMMA InitTurn == Init => TurnInv
  <1> SUFFICES ASSUME Init PROVE TurnInv
    OBVIOUS
  <1>1. \A i \in Identities : Len(m_conns[i].list) = 0
    <2> DEFINE none == <<>>
    <2>1. m_conns = [i \in Identities |-> [list |-> none, iter |-> 0]] /\ Len(none) = 0
      BY DEF Init
    <2> HIDE DEF none
    <2> QED
      BY <2>1
  <1>2. \A n \in Nodes : 0 <= max_conn_cnt[n]
    BY PoolAssumption
  <1> QED
    BY <1>1, <1>2 DEF TurnInv, TurnOK

\* A set of numbers that are b or b + 1 spreads by one at most.
LEMMA SpreadOne ==
    ASSUME NEW S, S # {}, NEW b \in Nat, S \subseteq {b, b + 1}
    PROVE  Max(S) - Min(S) <= 1
  <1>1. b \in S \/ b + 1 \in S
    OBVIOUS
  <1>2. \A y \in S : y = b \/ y = b + 1
    OBVIOUS
  <1>3. \E x \in S : \A y \in S : x >= y
    <2>1. CASE b + 1 \in S
      BY <1>2, <2>1
    <2>2. CASE b + 1 \notin S
      BY <1>1, <1>2, <2>2
    <2> QED
      BY <2>1, <2>2
  <1>4. \E x \in S : \A y \in S : x <= y
    <2>1. CASE b \in S
      BY <1>2, <2>1
    <2>2. CASE b \notin S
      BY <1>1, <1>2, <2>2
    <2> QED
      BY <2>1, <2>2
  <1>5. Max(S) \in S
    BY <1>3 DEF Max
  <1>6. Min(S) \in S
    BY <1>4 DEF Min
  <1>7. (Max(S) = b \/ Max(S) = b + 1) /\ (Min(S) = b \/ Min(S) = b + 1)
    BY <1>2, <1>5, <1>6
  <1> QED
    BY <1>7

\* The largest of one number.
LEMMA MaxOne == ASSUME NEW m \in Nat PROVE Max({m}) = m
  BY DEF Max

\* Where all names of databases are one database with one size of its pool, no
\* pool is larger than that, its iterator is in its list, and its connections
\* are used in turn, lost ones included (get_conn), for every size and number
\* of commands.
THEOREM ConnectionsInTurn == ASSUME OnePool PROVE Spec => []UsedInTurn
  <1>1. IndInv /\ TurnInv => UsedInTurn
    <2> SUFFICES ASSUME IndInv, TurnInv PROVE UsedInTurn
      OBVIOUS
    <2>1. SUFFICES ASSUME NEW i \in Identities
          PROVE  LET p == m_conns[i]
                     uses == {p.list[k].uses : k \in DOMAIN p.list}
                 IN  /\ Len(p.list) <= Max({max_conn_cnt[n] : n \in {m \in Nodes : identity[m] = i}})
                     /\ p.list # <<>> => p.iter \in DOMAIN p.list /\ Max(uses) - Min(uses) <= 1
      BY DEF UsedInTurn
    <2> DEFINE p == m_conns[i]
               uses == {p.list[k].uses : k \in DOMAIN p.list}
               sizes == {max_conn_cnt[n] : n \in {m \in Nodes : identity[m] = i}}
    <2>2. PICK n \in Nodes : i = identity[n]
      BY DEF Identities
    <2> DEFINE max == max_conn_cnt[n]
    <2>3. max \in Nat /\ \A m \in Nodes : max_conn_cnt[m] = max
      BY <2>2, OnePoolFacts
    <2>4. sizes = {max}
      BY <2>2, <2>3
    <2>5. Max(sizes) = max
      BY <2>3, <2>4, MaxOne
    <2>6. TurnOK(m_conns, i, max)
      BY <2>2 DEF TurnInv
    <2>7. /\ p.list \in Seq(Conn) /\ DOMAIN p.list = 1..Len(p.list) /\ Len(p.list) \in Nat
      BY PoolFacts DEF IndInv
    <2>8. Len(p.list) <= max
      BY <2>6 DEF TurnOK
    <2>9. ASSUME p.list # <<>>
          PROVE  p.iter \in DOMAIN p.list /\ Max(uses) - Min(uses) <= 1
      <3>1. Len(p.list) > 0
        BY <2>7, <2>9, EmptySeq
      <3>2. p.iter \in 1..Len(p.list)
        BY <2>6, <3>1 DEF TurnOK
      <3>3. PICK b \in Nat : \A k \in 1..Len(p.list) :
               p.list[k].uses = IF 2 <= k /\ k <= p.iter THEN b + 1 ELSE b
        BY <2>6, <3>1 DEF TurnOK
      <3>4. uses \subseteq {b, b + 1} /\ uses # {}
        <4>1. \A k \in 1..Len(p.list) : p.list[k].uses = b \/ p.list[k].uses = b + 1
          BY <3>3
        <4>2. 1 \in DOMAIN p.list
          BY <2>7, <3>1
        <4>3. DOMAIN p.list = 1..Len(p.list)
          BY <2>7
        <4> HIDE DEF p
        <4> QED
          BY <4>1, <4>2, <4>3
      <3> HIDE DEF uses
      <3>5. Max(uses) - Min(uses) <= 1
        BY <3>3, <3>4, SpreadOne
      <3> QED
        BY <2>7, <3>2, <3>5
    <2> QED
      BY <2>5, <2>8, <2>9
  <1>2. IndInv /\ TurnInv /\ [Next]_vars => TurnInv'
    BY NextTurn
  <1> QED
    BY <1>1, <1>2, InitTurn, Invariance, PTL DEF Spec
=============================================================================
