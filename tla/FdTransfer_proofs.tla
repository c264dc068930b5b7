-------------------------- MODULE FdTransfer_proofs --------------------------
(***************************************************************************)
(* TLAPS proofs about FdTransfer, for every number of workers, client      *)
(* connections and descriptors in a channel: a connection has one owner,   *)
(* the round robin is fair, and the gate implements ConnHandoff.           *)
(***************************************************************************)
EXTENDS FdTransfer, SequenceTheorems, FiniteSetTheorems, TLAPS

-----------------------------------------------------------------------------
(* Sequences *)

\* What RemoveAt leaves: the entries before i stay where they are and those
\* after it move up by one.
LEMMA RemoveAtFacts ==
    ASSUME NEW S, NEW s \in Seq(S), NEW i \in 1..Len(s)
    PROVE  /\ RemoveAt(s, i) \in Seq(S)
           /\ Len(RemoveAt(s, i)) = Len(s) - 1
           /\ \A j \in 1..(Len(s) - 1) :
                 RemoveAt(s, i)[j] = IF j < i THEN s[j] ELSE s[j + 1]
  <1> DEFINE a == SubSeq(s, 1, i - 1)
             b == SubSeq(s, i + 1, Len(s))
  <1>1. a \in Seq(S) /\ Len(a) = i - 1 /\ \A j \in 1..(i - 1) : a[j] = s[j]
    BY SubSeqProperties
  <1>2. b \in Seq(S) /\ Len(b) = Len(s) - i
        /\ \A j \in 1..(Len(s) - i) : b[j] = s[i + j]
    BY SubSeqProperties
  <1> HIDE DEF a, b
  <1>3. /\ a \o b \in Seq(S)
        /\ Len(a \o b) = Len(a) + Len(b)
        /\ \A j \in 1..(Len(a) + Len(b)) :
              (a \o b)[j] = IF j <= Len(a) THEN a[j] ELSE b[j - Len(a)]
    BY <1>1, <1>2, ConcatProperties
  <1>4. Len(a) + Len(b) = Len(s) - 1 /\ Len(s) \in Nat
    BY <1>1, <1>2, LenProperties
  <1>5. ASSUME NEW j \in 1..(Len(s) - 1)
        PROVE  (a \o b)[j] = IF j < i THEN s[j] ELSE s[j + 1]
    <2>1. CASE j < i
      BY <1>1, <1>3, <1>4, <2>1
    <2>2. CASE ~(j < i)
      <3>1. (a \o b)[j] = b[j - (i - 1)] /\ j - (i - 1) \in 1..(Len(s) - i)
        BY <1>1, <1>3, <1>4, <2>2
      <3>2. i + (j - (i - 1)) = j + 1
        BY <1>4
      <3> QED
        BY <1>2, <2>2, <3>1, <3>2
    <2> QED
      BY <2>1, <2>2
  <1> QED
    BY <1>3, <1>4, <1>5 DEF RemoveAt, a, b

\* The elements of a sequence, by index.
LEMMA RangeFacts ==
    ASSUME NEW S, NEW s \in Seq(S)
    PROVE  /\ DOMAIN s = 1..Len(s)
           /\ Len(s) \in Nat
           /\ Range(s) = {s[j] : j \in 1..Len(s)}
           /\ Range(s) \subseteq S
  BY LenProperties, ElementOfSeq DEF Range

\* Append adds one element at the end.
LEMMA AppendRange ==
    ASSUME NEW S, NEW s \in Seq(S), NEW e \in S
    PROVE  /\ Append(s, e) \in Seq(S)
           /\ Range(Append(s, e)) = Range(s) \cup {e}
           /\ IsInjective(s) /\ e \notin Range(s) => IsInjective(Append(s, e))
  <1> DEFINE t == Append(s, e)
  <1>1. /\ t \in Seq(S) /\ Len(t) = Len(s) + 1
        /\ \A j \in 1..Len(s) : t[j] = s[j]
        /\ t[Len(s) + 1] = e
    BY AppendProperties
  <1> HIDE DEF t
  <1>2. DOMAIN s = 1..Len(s) /\ DOMAIN t = 1..Len(t) /\ Len(s) \in Nat
    BY <1>1, RangeFacts
  <1>3. Range(t) = Range(s) \cup {e}
    BY <1>1, <1>2 DEF Range
  <1>4. ASSUME IsInjective(s), e \notin Range(s)
        PROVE  IsInjective(t)
    <2>1. \A j \in 1..Len(s) : s[j] # e
      BY <1>2, <1>4 DEF Range
    <2>2. \A i, j \in 1..Len(s) : s[i] = s[j] => i = j
      BY <1>2, <1>4 DEF IsInjective
    <2>3. SUFFICES ASSUME NEW i \in 1..Len(t), NEW j \in 1..Len(t), t[i] = t[j]
                   PROVE  i = j
      BY <1>2 DEF IsInjective
    <2>4. /\ i \in 1..Len(s) \/ i = Len(s) + 1
          /\ j \in 1..Len(s) \/ j = Len(s) + 1
      BY <1>1, <1>2
    <2> QED
      BY <1>1, <2>1, <2>2, <2>3, <2>4
  <1> QED
    BY <1>1, <1>3, <1>4 DEF t

\* Head and Tail take the first element off.
LEMMA TailRange ==
    ASSUME NEW S, NEW s \in Seq(S), s # <<>>
    PROVE  /\ Head(s) \in S
           /\ Tail(s) \in Seq(S)
           /\ Range(s) = Range(Tail(s)) \cup {Head(s)}
           /\ IsInjective(s) => Head(s) \notin Range(Tail(s)) /\ IsInjective(Tail(s))
  <1> DEFINE t == Tail(s)
  <1>1. /\ Head(s) \in S /\ t \in Seq(S) /\ Len(t) = Len(s) - 1
        /\ \A j \in 1..Len(t) : t[j] = s[j + 1]
        /\ Head(s) = s[1]
    BY HeadTailProperties
  <1> HIDE DEF t
  <1>2. /\ DOMAIN s = 1..Len(s) /\ DOMAIN t = 1..Len(t)
        /\ Len(s) \in Nat /\ Len(s) >= 1 /\ Len(t) \in Nat
    BY <1>1, RangeFacts, EmptySeq
  <1>3. Range(s) = Range(t) \cup {Head(s)}
    <2>1. ASSUME NEW x \in Range(s)
          PROVE  x \in Range(t) \cup {Head(s)}
      <3>1. PICK j \in 1..Len(s) : x = s[j]
        BY <1>2 DEF Range
      <3>2. CASE j = 1
        BY <1>1, <3>1, <3>2
      <3>3. CASE j # 1
        <4>1. j - 1 \in 1..Len(t) /\ (j - 1) + 1 = j
          BY <1>1, <1>2, <3>3
        <4> QED
          BY <1>1, <1>2, <3>1, <4>1 DEF Range
      <3> QED
        BY <3>2, <3>3
    <2>2. ASSUME NEW x \in Range(t)
          PROVE  x \in Range(s)
      <3>1. PICK j \in 1..Len(t) : x = t[j]
        BY <1>2 DEF Range
      <3> QED
        BY <1>1, <1>2, <3>1 DEF Range
    <2>3. Head(s) \in Range(s)
      BY <1>1, <1>2 DEF Range
    <2> QED
      BY <2>1, <2>2, <2>3
  <1>4. ASSUME IsInjective(s)
        PROVE  Head(s) \notin Range(t) /\ IsInjective(t)
    <2>1. \A i, j \in 1..Len(s) : s[i] = s[j] => i = j
      BY <1>2, <1>4 DEF IsInjective
    <2>2. \A j \in 1..Len(t) : j + 1 \in 1..Len(s) /\ j + 1 # 1 /\ t[j] = s[j + 1]
      BY <1>1, <1>2
    <2>3. \A j \in 1..Len(t) : t[j] # Head(s)
      BY <1>1, <1>2, <2>1, <2>2
    <2>4. \A i, j \in 1..Len(t) : t[i] = t[j] => i = j
      BY <1>2, <2>1, <2>2
    <2> QED
      BY <1>2, <2>3, <2>4 DEF IsInjective, Range
  <1> QED
    BY <1>1, <1>3, <1>4 DEF t

\* Erasing an entry of a sequence without repetition removes that element.
LEMMA RemoveAtRange ==
    ASSUME NEW S, NEW s \in Seq(S), NEW i \in 1..Len(s), IsInjective(s)
    PROVE  /\ RemoveAt(s, i) \in Seq(S)
           /\ Range(RemoveAt(s, i)) = Range(s) \ {s[i]}
           /\ IsInjective(RemoveAt(s, i))
  <1> DEFINE t == RemoveAt(s, i)
  <1>1. /\ t \in Seq(S) /\ Len(t) = Len(s) - 1
        /\ \A j \in 1..(Len(s) - 1) : t[j] = IF j < i THEN s[j] ELSE s[j + 1]
    BY RemoveAtFacts
  <1> HIDE DEF t
  <1>2. DOMAIN s = 1..Len(s) /\ DOMAIN t = 1..(Len(s) - 1) /\ Len(s) \in Nat
    BY <1>1, RangeFacts
  <1>3. \A j, k \in 1..Len(s) : s[j] = s[k] => j = k
    BY <1>2 DEF IsInjective
  <1>4. IsInjective(t)
    BY <1>1, <1>2, <1>3 DEF IsInjective
  <1>5. ASSUME NEW x \in Range(t)
        PROVE  x \in Range(s) \ {s[i]}
    <2>1. PICK j \in 1..(Len(s) - 1) : x = t[j]
      BY <1>2 DEF Range
    <2>2. PICK k \in 1..Len(s) : k # i /\ x = s[k]
      BY <1>1, <1>2, <2>1
    <2> QED
      BY <1>2, <1>3, <2>2 DEF Range
  <1>6. ASSUME NEW x \in Range(s) \ {s[i]}
        PROVE  x \in Range(t)
    <2>1. PICK k \in 1..Len(s) : k # i /\ x = s[k]
      BY <1>2 DEF Range
    <2>2. CASE k < i
      <3>1. k \in 1..(Len(s) - 1) /\ t[k] = s[k]
        BY <1>1, <1>2, <2>2
      <3> QED
        BY <1>2, <2>1, <3>1 DEF Range
    <2>3. CASE k > i
      <3>1. k - 1 \in 1..(Len(s) - 1) /\ ~(k - 1 < i) /\ (k - 1) + 1 = k
        BY <1>2, <2>3
      <3>2. t[k - 1] = s[k]
        BY <1>1, <3>1
      <3> QED
        BY <1>2, <2>1, <3>1, <3>2 DEF Range
    <2> QED
      BY <1>2, <2>1, <2>2, <2>3
  <1> QED
    BY <1>1, <1>4, <1>5, <1>6 DEF t

\* An enumeration of a finite set has all of its elements, each once.
LEMMA SetToSeqsFacts ==
    ASSUME NEW S, IsFiniteSet(S), NEW s \in SetToSeqs(S)
    PROVE  /\ s \in Seq(S)
           /\ Range(s) = S
           /\ IsInjective(s)
           /\ Len(s) = Cardinality(S)
  <1> DEFINE n == Cardinality(S)
  <1>1. n \in Nat
    BY FS_CardinalityType
  <1>2. s \in [1..n -> S] /\ \A i, j \in 1..n : i # j => s[i] # s[j]
    BY DEF SetToSeqs
  <1>3. s \in Seq(S) /\ Len(s) = n
    BY <1>1, <1>2
  <1>4. IsFiniteSet(1..n) /\ Cardinality(1..n) = n
    BY <1>1, FS_Interval
  <1>5. s \in Surjection(1..n, S)
    <2>1. s \in Injection(1..n, S)
      BY <1>2 DEF Injection, IsInjective
    <2> QED
      BY <1>4, <2>1, FS_Injection
  <1> QED
    BY <1>2, <1>3, <1>5 DEF Range, IsInjective, Surjection

-----------------------------------------------------------------------------
(* m_wait_send_fds *)

\* The connections in a queue of entries, and that none is in it twice.
Queued(q) == {q[j].conn : j \in 1..Len(q)}
NoTwice(q) == \A i, j \in DOMAIN q : q[i].conn = q[j].conn => i = j

\* Appending an entry to m_wait_send_fds.
LEMMA QueueAppend ==
    ASSUME NEW q \in Seq(Entry), NEW e \in Entry, NoTwice(q), e.conn \notin Queued(q)
    PROVE  /\ Append(q, e) \in Seq(Entry)
           /\ Queued(Append(q, e)) = Queued(q) \cup {e.conn}
           /\ NoTwice(Append(q, e))
  <1> DEFINE t == Append(q, e)
  <1>1. /\ t \in Seq(Entry) /\ Len(t) = Len(q) + 1 /\ Len(q) \in Nat
        /\ \A j \in 1..Len(q) : t[j] = q[j]
        /\ t[Len(q) + 1] = e
    BY AppendProperties, LenProperties
  <1> HIDE DEF t
  <1>2. DOMAIN q = 1..Len(q) /\ DOMAIN t = 1..(Len(q) + 1)
    BY <1>1, RangeFacts
  <1>3. Queued(t) = Queued(q) \cup {e.conn}
    BY <1>1 DEF Queued
  <1>4. NoTwice(t)
    <2>1. SUFFICES ASSUME NEW i \in 1..(Len(q) + 1), NEW j \in 1..(Len(q) + 1),
                          t[i].conn = t[j].conn
                   PROVE  i = j
      BY <1>2 DEF NoTwice
    <2>2. \A k \in 1..Len(q) : q[k].conn # e.conn
      BY DEF Queued
    <2>3. \A k, m \in 1..Len(q) : q[k].conn = q[m].conn => k = m
      BY <1>2 DEF NoTwice
    <2>4. /\ i \in 1..Len(q) \/ i = Len(q) + 1
          /\ j \in 1..Len(q) \/ j = Len(q) + 1
      BY <1>1
    <2> QED
      BY <1>1, <2>1, <2>2, <2>3, <2>4
  <1> QED
    BY <1>1, <1>3, <1>4 DEF t

\* Erasing an entry of m_wait_send_fds.
LEMMA QueueRemove ==
    ASSUME NEW q \in Seq(Entry), NEW c \in 1..Len(q), NoTwice(q)
    PROVE  /\ RemoveAt(q, c) \in Seq(Entry)
           /\ Queued(RemoveAt(q, c)) = Queued(q) \ {q[c].conn}
           /\ NoTwice(RemoveAt(q, c))
  <1> DEFINE t == RemoveAt(q, c)
  <1>1. /\ t \in Seq(Entry) /\ Len(t) = Len(q) - 1
        /\ \A j \in 1..(Len(q) - 1) : t[j] = IF j < c THEN q[j] ELSE q[j + 1]
    BY RemoveAtFacts
  <1> HIDE DEF t
  <1>2. DOMAIN q = 1..Len(q) /\ DOMAIN t = 1..(Len(q) - 1) /\ Len(q) \in Nat
    BY <1>1, RangeFacts
  <1>3. \A j, k \in 1..Len(q) : q[j].conn = q[k].conn => j = k
    BY <1>2 DEF NoTwice
  <1>4. NoTwice(t)
    <2>1. SUFFICES ASSUME NEW i \in 1..(Len(q) - 1), NEW j \in 1..(Len(q) - 1),
                          t[i].conn = t[j].conn
                   PROVE  i = j
      BY <1>2 DEF NoTwice
    <2>2. PICK k \in 1..Len(q) : t[i] = q[k] /\ k = IF i < c THEN i ELSE i + 1
      BY <1>1, <1>2
    <2>3. PICK m \in 1..Len(q) : t[j] = q[m] /\ m = IF j < c THEN j ELSE j + 1
      BY <1>1, <1>2
    <2>4. k = m
      BY <1>3, <2>1, <2>2, <2>3
    <2> QED
      BY <1>2, <2>2, <2>3, <2>4
  <1>5. ASSUME NEW x \in Queued(t)
        PROVE  x \in Queued(q) \ {q[c].conn}
    <2>1. PICK j \in 1..(Len(q) - 1) : x = t[j].conn
      BY <1>1 DEF Queued
    <2>2. PICK k \in 1..Len(q) : k # c /\ t[j] = q[k]
      BY <1>1, <1>2, <2>1
    <2> QED
      BY <1>3, <2>1, <2>2 DEF Queued
  <1>6. ASSUME NEW x \in Queued(q) \ {q[c].conn}
        PROVE  x \in Queued(t)
    <2>1. PICK k \in 1..Len(q) : k # c /\ x = q[k].conn
      BY DEF Queued
    <2>2. CASE k < c
      <3>1. k \in 1..(Len(q) - 1) /\ t[k] = q[k]
        BY <1>1, <1>2, <2>2
      <3> QED
        BY <1>1, <2>1, <3>1 DEF Queued
    <2>3. CASE k > c
      <3>1. k - 1 \in 1..(Len(q) - 1) /\ ~(k - 1 < c) /\ (k - 1) + 1 = k
        BY <1>2, <2>3
      <3>2. t[k - 1] = q[k]
        BY <1>1, <3>1
      <3> QED
        BY <1>1, <2>1, <3>1, <3>2 DEF Queued
    <2> QED
      BY <1>2, <2>1, <2>2, <2>3
  <1> QED
    BY <1>1, <1>4, <1>5, <1>6 DEF t

\* Counting an attempt for an entry that may be tried again.
LEMMA QueueCount ==
    ASSUME NEW q \in Seq(Entry), NEW c \in 1..Len(q), q[c].count + 1 < MaxResend
    PROVE  LET t == [q EXCEPT ![c].count = @ + 1]
           IN  /\ t \in Seq(Entry)
               /\ Queued(t) = Queued(q)
               /\ NoTwice(q) => NoTwice(t)
  <1> DEFINE e == [q[c] EXCEPT !.count = @ + 1]
             t == [q EXCEPT ![c] = e]
  <1>1. q[c] \in Entry
    BY ElementOfSeq
  <1>2. e \in Entry /\ e.conn = q[c].conn
    BY <1>1 DEF Entry, MaxResend
  <1>3. t \in Seq(Entry) /\ Len(t) = Len(q) /\ \A j \in 1..Len(q) : t[j] = IF j = c THEN e ELSE q[j]
    BY <1>2, ExceptSeq
  <1>4. \A j \in 1..Len(q) : t[j].conn = q[j].conn
    BY <1>2, <1>3
  <1>5. DOMAIN t = 1..Len(q) /\ DOMAIN q = 1..Len(q)
    BY <1>3, RangeFacts
  <1>6. Queued(t) = Queued(q) /\ (NoTwice(q) => NoTwice(t))
    BY <1>3, <1>4, <1>5 DEF Queued, NoTwice
  <1> QED
    BY <1>3, <1>6

-----------------------------------------------------------------------------
(* The inductive invariant *)

\* The connections that worker w has, in its channel or in its table.
Held(w) == InChanel(w) \cup m_conns[w]

\* Each connection is in one place.
Apart ==
    /\ backlog \cap Waiting = {}
    /\ \A w \in Workers : /\ Held(w) \cap (backlog \cup Waiting) = {}
                          /\ InChanel(w) \cap m_conns[w] = {}
    /\ \A v, w \in Workers : v # w => Held(v) \cap Held(w) = {}

\* And there once.
Once ==
    /\ \A w \in Workers : IsInjective(chanel[w])
    /\ NoTwice(m_wait_send_fds)

\* The workers chosen in this round are those from the second position, where
\* a round begins, up to the iterator.
RoundInv == round = {m_workers[j] : j \in 2..m_itr_worker}

IndInv ==
    /\ TypeOK
    /\ Apart
    /\ Once
    /\ cursor >= 1
    /\ IteratorValid
    /\ RoundInv
    /\ m_workers = <<>> => m_itr_worker = 1

\* What a step does to the places: connections leave the backlog for good,
\* only those from the backlog get into the queue, and only those from the
\* backlog or the queue get to a worker.
Flow ==
    /\ backlog' \subseteq backlog
    /\ Waiting' \subseteq Waiting \cup backlog
    /\ \A w \in Workers : Held(w)' \subseteq Held(w) \cup Waiting \cup backlog

\* OneOwner in the parts the proofs use.
LEMMA OneOwnerParts == TypeOK /\ Apart /\ Once <=> OneOwner
  BY DEF Apart, Once, OneOwner, Held, NoTwice

\* Waiting is what is in the queue.
LEMMA WaitingQueued == Waiting = Queued(m_wait_send_fds)
  BY DEF Waiting, Queued

\* The iterator of a registry that is not empty, and what choosing the next
\* worker does to it.
LEMMA RoundRobinInv ==
    ASSUME IndInv, m_workers # <<>>, RoundRobin, UNCHANGED <<m_workers, up>>
    PROVE  /\ get_next_worker \in Workers
           /\ m_itr_worker' \in Nat
           /\ round' \subseteq Workers
           /\ IteratorValid'
           /\ RoundInv'
           /\ m_itr_worker' # m_itr_worker => m_workers[m_itr_worker'] \notin round
  <1> DEFINE n == Len(m_workers)
             i == m_itr_worker
  <1>1. /\ m_workers \in Seq(Workers) /\ n \in Nat /\ n >= 1 /\ i \in 1..n
        /\ DOMAIN m_workers = 1..n
        /\ Range(m_workers) = {m_workers[j] : j \in 1..n}
    BY RangeFacts, EmptySeq DEF IndInv, TypeOK, IteratorValid
  <1>2. \A j, k \in 1..n : m_workers[j] = m_workers[k] => j = k
    BY <1>1 DEF IndInv, IteratorValid, IsInjective
  <1>3. \A j \in 1..n : m_workers[j] \in Workers
    BY <1>1, ElementOfSeq
  <1>4. NextPos \in 1..n /\ NextPos = IF i < n THEN i + 1 ELSE 1
    BY <1>1 DEF NextPos
  <1>5. /\ m_itr_worker' = NextPos
        /\ round' = NextRound(m_workers[NextPos])
        /\ round = {m_workers[j] : j \in 2..i}
        /\ m_workers' = m_workers
    BY DEF RoundRobin, get_next_worker, IndInv, RoundInv
  <1> HIDE DEF n, i
  <1>6. IteratorValid'
    BY <1>4, <1>5 DEF IndInv, IteratorValid, n
  <1>7. CASE i < n
    <2>1. round \cup {m_workers[NextPos]} = {m_workers[j] : j \in 2..(i + 1)}
      BY <1>1, <1>4, <1>5, <1>7
    <2>2. m_workers[1] \notin round \cup {m_workers[NextPos]} /\ m_workers[1] \in Range(m_workers)
      BY <1>1, <1>2, <1>7, <2>1
    <2>3. round' = {m_workers[j] : j \in 2..(i + 1)}
      BY <1>5, <2>1, <2>2 DEF NextRound
    <2>4. RoundInv'
      BY <1>4, <1>5, <1>7, <2>3 DEF RoundInv
    <2>5. m_workers[NextPos] \notin round
      BY <1>1, <1>2, <1>4, <1>5, <1>7
    <2>6. round' \subseteq Workers
      BY <1>1, <1>3, <1>7, <2>3
    <2> QED
      BY <1>3, <1>4, <1>5, <1>6, <2>4, <2>5, <2>6 DEF get_next_worker
  <1>8. CASE ~(i < n)
    <2>1. i = n /\ NextPos = 1
      BY <1>1, <1>4, <1>8
    <2>2. round \cup {m_workers[1]} = Range(m_workers)
      BY <1>1, <1>5, <2>1
    <2>3. round' = {}
      BY <1>5, <2>1, <2>2 DEF NextRound
    <2>4. RoundInv'
      BY <1>5, <2>1, <2>3 DEF RoundInv
    <2>5. m_itr_worker' # m_itr_worker => m_workers[1] \notin round
      <3>1. \A j \in 2..i : m_workers[j] # m_workers[1]
        BY <1>1, <1>2, <2>1
      <3> QED
        BY <1>5, <3>1
    <2> QED
      BY <1>3, <1>4, <1>5, <1>6, <2>1, <2>3, <2>4, <2>5 DEF get_next_worker
  <1> QED
    BY <1>7, <1>8

\* Sending k to w, which the manager drops at the same time, leaves it with w
\* only (accept_and_transfer_fd, check_wait_send_fds).
LEMMA SendInv ==
    ASSUME TypeOK, Apart, Once, NEW w \in Workers, NEW k \in backlog \cup Waiting,
           k \in Conns, k \notin backlog', k \notin Waiting',
           backlog' \subseteq backlog, Waiting' \subseteq Waiting,
           NoTwice(m_wait_send_fds'),
           chanel' = [chanel EXCEPT ![w] = Append(@, k)], m_conns' = m_conns
    PROVE  chanel' \in [Workers -> Seq(Conns)] /\ Apart' /\ Once' /\ Flow
  <1>1. chanel \in [Workers -> Seq(Conns)] /\ chanel[w] \in Seq(Conns)
    BY DEF TypeOK
  <1>2. k \notin Range(chanel[w]) /\ IsInjective(chanel[w])
    BY DEF Apart, Once, Held, InChanel
  <1>3. /\ Append(chanel[w], k) \in Seq(Conns)
        /\ Range(Append(chanel[w], k)) = Range(chanel[w]) \cup {k}
        /\ IsInjective(Append(chanel[w], k))
    BY <1>1, <1>2, AppendRange
  <1>4. \A v \in Workers : chanel'[v] = IF v = w THEN Append(chanel[w], k) ELSE chanel[v]
    BY <1>1
  <1>5. \A v \in Workers : InChanel(v)' = IF v = w THEN InChanel(w) \cup {k} ELSE InChanel(v)
    <2>1. chanel'[w] = Append(chanel[w], k) /\ \A v \in Workers \ {w} : chanel'[v] = chanel[v]
      BY <1>4
    <2>2. InChanel(w)' = InChanel(w) \cup {k}
      BY <1>3, <2>1 DEF InChanel
    <2>3. \A v \in Workers \ {w} : InChanel(v)' = InChanel(v)
      BY <2>1 DEF InChanel
    <2> QED
      BY <2>2, <2>3
  <1>6. chanel' \in [Workers -> Seq(Conns)]
    BY <1>1, <1>3
  <1>7. Once'
    BY <1>3, <1>4 DEF Once
  <1>8. Apart' /\ Flow
    BY <1>5 DEF Apart, Flow, Held
  <1> QED
    BY <1>6, <1>7, <1>8

\* Forgetting connections, wherever they are, is safe.
LEMMA DropInv ==
    ASSUME Apart, Once, backlog' \subseteq backlog, Waiting' \subseteq Waiting,
           NoTwice(m_wait_send_fds'), chanel' = chanel,
           \A w \in Workers : m_conns'[w] \subseteq m_conns[w]
    PROVE  Apart' /\ Once' /\ Flow
  <1>1. \A w \in Workers : InChanel(w)' = InChanel(w) /\ Held(w)' \subseteq Held(w)
    BY DEF InChanel, Held
  <1> QED
    BY <1>1 DEF Apart, Once, Flow

\* The manager accepts a connection: to a worker, to the queue, or closed.
LEMMA AcceptInv ==
    ASSUME IndInv, NEW k \in Conns, AcceptAndTransfer(k)
    PROVE  IndInv' /\ Flow
  <1> DEFINE w == get_next_worker
             e == [conn |-> k, count |-> 0]
  <1>1. /\ TypeOK /\ Apart /\ Once /\ k \in backlog /\ backlog' = backlog \ {k}
        /\ UNCHANGED <<m_conns, m_workers, up, pc, cursor>>
        /\ k \notin Waiting
        /\ m_wait_send_fds \in Seq(Entry) /\ NoTwice(m_wait_send_fds)
    BY DEF AcceptAndTransfer, IndInv, Apart, Once, TypeOK
  <1>2. CASE m_workers = <<>> /\ UNCHANGED <<m_wait_send_fds, chanel, m_itr_worker, round>>
    <2>1. Waiting' = Waiting
      BY <1>2 DEF Waiting
    <2>2. Apart' /\ Once' /\ Flow
      BY <1>1, <1>2, <2>1, DropInv
    <2>3. TypeOK'
      BY <1>1, <1>2 DEF TypeOK
    <2> QED
      BY <1>1, <1>2, <2>2, <2>3 DEF IndInv, IteratorValid, RoundInv
  <1>3. CASE m_workers # <<>> /\ RoundRobin
    <2>1. /\ w \in Workers /\ m_itr_worker' \in Nat /\ round' \subseteq Workers
          /\ IteratorValid' /\ RoundInv' /\ m_workers' # <<>>
      BY <1>1, <1>3, RoundRobinInv
    <2> HIDE DEF w
    <2>2. SUFFICES TypeOK' /\ Apart' /\ Once' /\ Flow
      BY <1>1, <2>1 DEF IndInv
    <2>3. CASE chanel' = [chanel EXCEPT ![w] = Append(@, k)] /\ UNCHANGED m_wait_send_fds
      <3>1. Waiting' = Waiting
        BY <2>3 DEF Waiting
      <3>2. chanel' \in [Workers -> Seq(Conns)] /\ Apart' /\ Once' /\ Flow
        BY <1>1, <2>1, <2>3, <3>1, SendInv
      <3> QED
        BY <1>1, <2>1, <2>3, <3>2 DEF TypeOK
    <2>4. CASE UNCHANGED <<m_wait_send_fds, chanel>>
      <3>1. Waiting' = Waiting
        BY <2>4 DEF Waiting
      <3>2. Apart' /\ Once' /\ Flow
        BY <1>1, <2>4, <3>1, DropInv
      <3> QED
        BY <1>1, <2>1, <2>4, <3>2 DEF TypeOK
    <2>5. CASE m_wait_send_fds' = Append(m_wait_send_fds, e) /\ UNCHANGED chanel
      <3>1. e \in Entry /\ e.conn = k
        BY DEF Entry, MaxResend
      <3> HIDE DEF e
      <3>2. /\ m_wait_send_fds' \in Seq(Entry)
            /\ Waiting' = Waiting \cup {k}
            /\ NoTwice(m_wait_send_fds')
        BY <1>1, <2>5, <3>1, QueueAppend DEF Waiting, Queued
      <3>3. \A v \in Workers : InChanel(v)' = InChanel(v) /\ Held(v)' = Held(v)
        BY <1>1, <2>5 DEF InChanel, Held
      <3>4. Apart' /\ Once' /\ Flow
        BY <1>1, <2>5, <3>2, <3>3 DEF Apart, Once, Flow, Held
      <3> QED
        BY <1>1, <2>1, <2>5, <3>2, <3>4 DEF TypeOK
    <2> QED
      BY <1>3, <2>3, <2>4, <2>5 DEF AcceptAndTransfer, w
  <1> QED
    BY <1>2, <1>3 DEF AcceptAndTransfer

\* One iteration of check_wait_send_fds: the entry at the cursor is sent and
\* erased, erased, or counted.
LEMMA ResendInv ==
    ASSUME IndInv, Resend
    PROVE  IndInv' /\ Flow
  <1> DEFINE w == get_next_worker
             e == m_wait_send_fds[cursor]
             q == m_wait_send_fds
  <1>1. /\ TypeOK /\ Apart /\ Once
        /\ UNCHANGED <<backlog, m_conns, m_workers, up, pc>>
        /\ q \in Seq(Entry) /\ NoTwice(q)
        /\ cursor \in 1..Len(q) /\ cursor \in Nat
    BY LenProperties DEF Resend, IndInv, Once, TypeOK
  <1>2. /\ w \in Workers /\ m_itr_worker' \in Nat /\ round' \subseteq Workers
        /\ IteratorValid' /\ RoundInv' /\ m_workers' # <<>>
    BY RoundRobinInv DEF Resend
  <1>3. e \in Entry /\ e.conn \in Conns /\ e.count \in 0..2 /\ e.conn \in Waiting
    <2>1. e \in Entry
      BY <1>1, ElementOfSeq
    <2>2. e.conn \in Waiting
      BY <1>1 DEF Waiting
    <2> QED
      BY <2>1, <2>2 DEF Entry, MaxResend
  <1>4. /\ RemoveAt(q, cursor) \in Seq(Entry)
        /\ Queued(RemoveAt(q, cursor)) = Waiting \ {e.conn}
        /\ NoTwice(RemoveAt(q, cursor))
    BY <1>1, QueueRemove, WaitingQueued
  <1> HIDE DEF w, e, q
  <1>5. SUFFICES TypeOK' /\ Apart' /\ Once' /\ Flow /\ cursor' >= 1
    BY <1>2 DEF IndInv
  <1>6. CASE ResendDone(w, e)
    <2>1. /\ m_wait_send_fds' = RemoveAt(q, cursor) /\ UNCHANGED cursor
          /\ chanel' = [chanel EXCEPT ![w] = Append(@, e.conn)]
      BY <1>6 DEF ResendDone, q
    <2>2. Waiting' = Waiting \ {e.conn}
      BY <1>4, <2>1 DEF Waiting, Queued
    <2>3. e.conn \notin backlog'
      BY <1>1, <1>3 DEF Apart
    <2>4. chanel' \in [Workers -> Seq(Conns)] /\ Apart' /\ Once' /\ Flow
      BY <1>1, <1>2, <1>3, <1>4, <2>1, <2>2, <2>3, SendInv
    <2> QED
      BY <1>1, <1>2, <1>4, <2>1, <2>4 DEF TypeOK
  <1>7. CASE /\ m_wait_send_fds' = RemoveAt(q, cursor)
             /\ UNCHANGED <<chanel, cursor>>
    <2>1. Waiting' \subseteq Waiting
      BY <1>4, <1>7 DEF Waiting, Queued
    <2>2. Apart' /\ Once' /\ Flow
      BY <1>1, <1>4, <1>7, <2>1, DropInv
    <2> QED
      BY <1>1, <1>2, <1>4, <1>7, <2>2 DEF TypeOK
  <1>8. CASE /\ e.count + 1 < MaxResend
             /\ m_wait_send_fds' = [q EXCEPT ![cursor].count = @ + 1]
             /\ cursor' = cursor + 1
             /\ UNCHANGED chanel
    <2>1. /\ m_wait_send_fds' \in Seq(Entry)
          /\ Queued(m_wait_send_fds') = Queued(q)
          /\ NoTwice(m_wait_send_fds')
      BY <1>1, <1>8, QueueCount DEF e, q
    <2>2. Waiting' = Waiting
      BY <2>1 DEF Waiting, Queued, q
    <2>3. Apart' /\ Once' /\ Flow
      BY <1>1, <1>8, <2>1, <2>2, DropInv
    <2> QED
      BY <1>1, <1>2, <1>8, <2>1, <2>3 DEF TypeOK
  <1>9. \/ ResendDone(w, e) \/ ResendBroken(w) \/ ResendAgain(w, e)
    BY DEF Resend, w, e
  <1>10. ResendAgain(w, e) /\ e.count + 1 >= MaxResend
           => m_wait_send_fds' = RemoveAt(q, cursor) /\ UNCHANGED <<chanel, cursor>>
    BY DEF ResendAgain, q
  <1>11. ResendAgain(w, e) /\ e.count + 1 < MaxResend
           => /\ m_wait_send_fds' = [q EXCEPT ![cursor].count = @ + 1]
              /\ cursor' = cursor + 1
              /\ UNCHANGED chanel
    BY <1>3 DEF ResendAgain, q, MaxResend
  <1> QED
    BY <1>3, <1>6, <1>7, <1>8, <1>9, <1>10, <1>11 DEF ResendBroken, q, MaxResend

\* A worker that dies takes what is in its channel and in its table along.
LEMMA WorkerExitInv ==
    ASSUME IndInv, NEW w \in Workers, WorkerExit(w)
    PROVE  IndInv' /\ Flow
  <1>1. /\ TypeOK /\ Apart /\ Once
        /\ up' = up \ {w}
        /\ chanel' = [chanel EXCEPT ![w] = <<>>]
        /\ m_conns' = [m_conns EXCEPT ![w] = {}]
        /\ UNCHANGED <<backlog, m_wait_send_fds, m_workers, m_itr_worker, pc, cursor, round>>
    BY DEF WorkerExit, IndInv
  <1>2. /\ chanel'[w] = <<>> /\ m_conns'[w] = {}
        /\ \A v \in Workers \ {w} : chanel'[v] = chanel[v] /\ m_conns'[v] = m_conns[v]
    BY <1>1 DEF TypeOK
  <1>3. Range(<<>>) = {} /\ IsInjective(<<>>)
    BY DEF Range, IsInjective
  <1>4. Waiting' = Waiting
    BY <1>1 DEF Waiting
  <1>5. /\ InChanel(w)' = {} /\ Held(w)' = {}
        /\ \A v \in Workers \ {w} : InChanel(v)' = InChanel(v) /\ Held(v)' = Held(v)
    BY <1>2, <1>3 DEF InChanel, Held
  <1>6. \A v \in Workers : Held(v)' \subseteq Held(v) /\ InChanel(v)' \subseteq InChanel(v)
    BY <1>5
  <1>7. Apart'
    BY <1>1, <1>2, <1>4, <1>5, <1>6 DEF Apart
  <1>8. Once'
    BY <1>1, <1>2, <1>3 DEF Once
  <1>9. Flow
    BY <1>1, <1>4, <1>6 DEF Flow
  <1>10. TypeOK'
    BY <1>1 DEF TypeOK
  <1> QED
    BY <1>1, <1>7, <1>8, <1>9, <1>10 DEF IndInv, IteratorValid, RoundInv

\* restart_worker and create_worker leave the connections where they are, and
\* begin a new round.
LEMMA RegistryInv ==
    ASSUME IndInv, UNCHANGED <<backlog, m_wait_send_fds, chanel, m_conns, pc, cursor>>,
           m_workers' \in Seq(Workers), IsInjective(m_workers'),
           up' \subseteq Range(m_workers'), m_itr_worker' = 1, round' = {}
    PROVE  IndInv' /\ Flow
  <1>1. Waiting' = Waiting /\ NoTwice(m_wait_send_fds') /\ Apart /\ Once
    BY DEF Waiting, IndInv, Once
  <1>2. Apart' /\ Once' /\ Flow
    BY <1>1, DropInv
  <1>3. IteratorValid' /\ RoundInv'
    <2>1. m_workers' # <<>> => Len(m_workers') \in Nat /\ Len(m_workers') >= 1
      BY LenProperties, EmptySeq
    <2>2. 2..1 = {}
      OBVIOUS
    <2> QED
      BY <2>1, <2>2 DEF IteratorValid, RoundInv
  <1>4. TypeOK'
    <2>1. Range(m_workers') \subseteq Workers
      BY RangeFacts
    <2> QED
      BY <2>1 DEF TypeOK, IndInv
  <1> QED
    BY <1>2, <1>3, <1>4 DEF IndInv

\* restart_worker takes a dead worker out of the registry.
LEMMA RestartWorkerInv ==
    ASSUME IndInv, NEW w \in Workers, RestartWorker(w)
    PROVE  IndInv' /\ Flow
  <1>1. m_workers \in Seq(Workers) /\ IsInjective(m_workers) /\ up \subseteq Range(m_workers)
    BY DEF IndInv, TypeOK, IteratorValid
  <1>2. PICK i \in 1..Len(m_workers) :
           m_workers[i] = w /\ m_workers' = RemoveAt(m_workers, i)
    BY <1>1, RangeFacts DEF RestartWorker
  <1>3. /\ m_workers' \in Seq(Workers)
        /\ Range(m_workers') = Range(m_workers) \ {w}
        /\ IsInjective(m_workers')
    BY <1>1, <1>2, RemoveAtRange
  <1>4. up' \subseteq Range(m_workers')
    BY <1>1, <1>3 DEF RestartWorker
  <1> QED
    BY <1>3, <1>4, RegistryInv DEF RestartWorker

\* create_worker registers a worker that was not registered.
LEMMA CreateWorkerInv ==
    ASSUME IndInv, NEW w \in Workers, CreateWorker(w)
    PROVE  IndInv' /\ Flow
  <1> DEFINE S == Range(m_workers) \cup {w}
  <1>1. S \subseteq Workers /\ IsFiniteSet(S)
    BY RangeFacts, FS_Subset, ConstantsAssumption DEF IndInv, TypeOK
  <1>2. m_workers' \in SetToSeqs(S) /\ up' = up \cup {w}
    BY DEF CreateWorker
  <1> HIDE DEF S
  <1>3. m_workers' \in Seq(S) /\ Range(m_workers') = S /\ IsInjective(m_workers')
    BY <1>1, <1>2, SetToSeqsFacts
  <1>4. m_workers' \in Seq(Workers)
    BY <1>1, <1>3
  <1>5. up' \subseteq Range(m_workers')
    BY <1>2, <1>3 DEF IndInv, IteratorValid, S
  <1> QED
    BY <1>3, <1>4, <1>5, RegistryInv DEF CreateWorker

\* A worker takes a connection out of its own channel.
LEMMA ReadTransferInv ==
    ASSUME IndInv, NEW w \in Workers, ReadTransferFd(w)
    PROVE  IndInv' /\ Flow
  <1> DEFINE k == Head(chanel[w])
  <1>1. /\ TypeOK /\ Apart /\ Once
        /\ chanel[w] \in Seq(Conns) /\ chanel[w] # <<>> /\ IsInjective(chanel[w])
        /\ chanel' = [chanel EXCEPT ![w] = Tail(@)]
        /\ \/ m_conns' = [m_conns EXCEPT ![w] = @ \cup {k}]
           \/ UNCHANGED m_conns
        /\ UNCHANGED <<backlog, m_wait_send_fds, m_workers, m_itr_worker, up, pc, cursor, round>>
    BY DEF ReadTransferFd, IndInv, TypeOK, Once
  <1>2. /\ k \in Conns
        /\ Tail(chanel[w]) \in Seq(Conns)
        /\ Range(chanel[w]) = Range(Tail(chanel[w])) \cup {k}
        /\ k \notin Range(Tail(chanel[w]))
        /\ IsInjective(Tail(chanel[w]))
    BY <1>1, TailRange
  <1> HIDE DEF k
  <1>3. /\ chanel'[w] = Tail(chanel[w])
        /\ \A v \in Workers \ {w} : chanel'[v] = chanel[v] /\ m_conns'[v] = m_conns[v]
        /\ m_conns'[w] \subseteq m_conns[w] \cup {k}
    BY <1>1 DEF TypeOK
  <1>4. Waiting' = Waiting
    BY <1>1 DEF Waiting
  <1>5. /\ InChanel(w) = InChanel(w)' \cup {k} /\ k \notin InChanel(w)'
        /\ Held(w)' \subseteq Held(w)
        /\ \A v \in Workers \ {w} : InChanel(v)' = InChanel(v) /\ Held(v)' = Held(v)
    BY <1>2, <1>3 DEF InChanel, Held
  <1>6. \A v \in Workers : Held(v)' \subseteq Held(v)
    BY <1>5
  <1>7. \A v \in Workers : InChanel(v)' \cap m_conns'[v] = {}
    BY <1>1, <1>3, <1>5 DEF Apart
  <1>8. Apart'
    BY <1>1, <1>4, <1>6, <1>7 DEF Apart
  <1>9. Once'
    BY <1>1, <1>2, <1>3 DEF Once
  <1>10. Flow
    BY <1>1, <1>4, <1>6 DEF Flow
  <1>11. TypeOK'
    BY <1>1, <1>2 DEF TypeOK
  <1> QED
    BY <1>1, <1>8, <1>9, <1>10, <1>11 DEF IndInv, IteratorValid, RoundInv

\* A worker closes a connection that it serves.
LEMMA CloseConnInv ==
    ASSUME IndInv, NEW w \in Workers, NEW k \in Conns, CloseConn(w, k)
    PROVE  IndInv' /\ Flow
  <1>1. /\ TypeOK /\ Apart /\ Once /\ NoTwice(m_wait_send_fds)
        /\ m_conns' = [m_conns EXCEPT ![w] = @ \ {k}]
        /\ UNCHANGED <<backlog, m_wait_send_fds, chanel, m_workers,
                       m_itr_worker, up, pc, cursor, round>>
    BY DEF CloseConn, IndInv, Once
  <1>2. Waiting' = Waiting
    BY <1>1 DEF Waiting
  <1>3. \A v \in Workers : m_conns'[v] \subseteq m_conns[v]
    BY <1>1 DEF TypeOK
  <1>4. Apart' /\ Once' /\ Flow
    BY <1>1, <1>2, <1>3, DropInv
  <1>5. TypeOK'
    BY <1>1 DEF TypeOK
  <1> QED
    BY <1>1, <1>4, <1>5 DEF IndInv, IteratorValid, RoundInv

\* A step that leaves connections and registry alone.
LEMMA QuietInv ==
    ASSUME IndInv, pc' \in {"loop", "resend", "restart"}, cursor' \in Nat, cursor' >= 1,
           UNCHANGED <<backlog, m_wait_send_fds, chanel, m_conns, m_workers,
                       m_itr_worker, up, round>>
    PROVE  IndInv' /\ Flow
  <1>1. Waiting' = Waiting /\ NoTwice(m_wait_send_fds') /\ Apart /\ Once
    BY DEF Waiting, IndInv, Once
  <1>2. Apart' /\ Once' /\ Flow
    BY <1>1, DropInv
  <1> QED
    BY <1>2 DEF IndInv, TypeOK, IteratorValid, RoundInv

-----------------------------------------------------------------------------
(* The theorems *)

\* The state after the start satisfies the inductive invariant.
LEMMA InitInv == Init => IndInv
  <1> SUFFICES ASSUME Init PROVE IndInv
    OBVIOUS
  <1>1. /\ m_workers \in Seq(Workers) /\ Range(m_workers) = Workers /\ IsInjective(m_workers)
    BY SetToSeqsFacts, ConstantsAssumption DEF Init
  <1>2. m_workers # <<>> => Len(m_workers) \in Nat /\ Len(m_workers) >= 1
    BY <1>1, LenProperties, EmptySeq
  <1>3. Waiting = {} /\ NoTwice(m_wait_send_fds)
    BY DEF Init, Waiting, NoTwice
  <1>4. \A w \in Workers : chanel[w] = <<>> /\ m_conns[w] = {}
    BY DEF Init
  <1>5. \A w \in Workers : InChanel(w) = {} /\ Held(w) = {} /\ IsInjective(chanel[w])
    BY <1>4 DEF InChanel, Held, Range, IsInjective
  <1>6. Apart /\ Once
    BY <1>3, <1>5 DEF Apart, Once
  <1>7. IteratorValid /\ RoundInv
    <2>1. 2..1 = {}
      OBVIOUS
    <2> QED
      BY <1>1, <1>2, <2>1 DEF Init, IteratorValid, RoundInv
  <1>8. TypeOK
    BY <1>1 DEF Init, TypeOK
  <1> QED
    BY <1>6, <1>7, <1>8 DEF Init, IndInv

\* Every step of the manager and of the workers preserves it.
LEMMA NextInv == IndInv /\ [Next]_vars => IndInv' /\ Flow
  <1> SUFFICES ASSUME IndInv, [Next]_vars PROVE IndInv' /\ Flow
    OBVIOUS
  <1>1. ASSUME NEW k \in Conns, AcceptAndTransfer(k) PROVE IndInv' /\ Flow
    BY <1>1, AcceptInv
  <1>2. CASE CheckWaitSendFds \/ ResendEnd \/ RestartWorkersEnd
    BY <1>2, QuietInv DEF CheckWaitSendFds, ResendEnd, RestartWorkersEnd, IndInv, TypeOK
  <1>3. CASE Resend
    BY <1>3, ResendInv
  <1>4. ASSUME NEW w \in Workers, WorkerExit(w) PROVE IndInv' /\ Flow
    BY <1>4, WorkerExitInv
  <1>5. ASSUME NEW w \in Workers, RestartWorker(w) PROVE IndInv' /\ Flow
    BY <1>5, RestartWorkerInv
  <1>6. ASSUME NEW w \in Workers, CreateWorker(w) PROVE IndInv' /\ Flow
    BY <1>6, CreateWorkerInv
  <1>7. ASSUME NEW w \in Workers, ReadTransferFd(w) PROVE IndInv' /\ Flow
    BY <1>7, ReadTransferInv
  <1>8. ASSUME NEW w \in Workers, NEW k \in Conns, CloseConn(w, k) PROVE IndInv' /\ Flow
    BY <1>8, CloseConnInv
  <1>9. CASE UNCHANGED vars
    BY <1>9, QuietInv DEF vars, IndInv, TypeOK
  <1> QED
    BY <1>1, <1>2, <1>3, <1>4, <1>5, <1>6, <1>7, <1>8, <1>9 DEF Next

\* The inductive invariant holds in every reachable state.
THEOREM Invariance == Spec => []IndInv
  BY InitInv, NextInv, PTL DEF Spec

\* A client connection is with one party only, and there once: the backlog,
\* the queue of the manager, or one worker (accept_and_transfer_fd,
\* check_wait_send_fds, read_transfer_fd, restart_worker).
THEOREM OwnerIsUnique == Spec => []OneOwner
  <1>1. IndInv => OneOwner
    BY OneOwnerParts DEF IndInv
  <1> QED
    BY <1>1, Invariance, PTL

\* Choosing a worker that is not the current one chooses one that has not been
\* chosen in this round.
LEMMA RoundStep ==
    IndInv /\ [Next]_vars
      => [m_workers' = m_workers /\ m_itr_worker' # m_itr_worker
            => m_workers[m_itr_worker'] \notin round]_vars
  <1> SUFFICES ASSUME IndInv, Next, m_workers' = m_workers, m_itr_worker' # m_itr_worker
               PROVE  m_workers[m_itr_worker'] \notin round
    OBVIOUS
  <1>1. ASSUME m_workers # <<>>, RoundRobin, UNCHANGED <<m_workers, up>>
        PROVE  m_workers[m_itr_worker'] \notin round
    BY <1>1, RoundRobinInv
  <1>2. CASE \E k \in Conns : AcceptAndTransfer(k)
    BY <1>1, <1>2 DEF AcceptAndTransfer
  <1>3. CASE Resend
    BY <1>1, <1>3 DEF Resend
  <1>4. ASSUME NEW w \in Workers, RestartWorker(w) PROVE FALSE
    <2>1. PICK i \in 1..Len(m_workers) : m_workers' = RemoveAt(m_workers, i)
      BY <1>4, RangeFacts DEF RestartWorker, IndInv, TypeOK
    <2>2. m_workers \in Seq(Workers) /\ Len(m_workers) \in Nat
      BY LenProperties DEF IndInv, TypeOK
    <2>3. Len(m_workers') = Len(m_workers) - 1
      BY <2>1, <2>2, RemoveAtFacts
    <2> QED
      BY <2>2, <2>3
  <1>5. ASSUME NEW w \in Workers, CreateWorker(w) PROVE FALSE
    <2>1. Range(m_workers) \cup {w} \subseteq Workers /\ w \notin Range(m_workers)
      BY <1>5, RangeFacts DEF IndInv, TypeOK, CreateWorker
    <2>2. IsFiniteSet(Range(m_workers) \cup {w})
      BY <2>1, FS_Subset, ConstantsAssumption
    <2>3. Range(m_workers') = Range(m_workers) \cup {w}
      BY <1>5, <2>2, SetToSeqsFacts DEF CreateWorker
    <2> QED
      BY <2>1, <2>3
  <1>6. CASE \/ CheckWaitSendFds \/ ResendEnd \/ RestartWorkersEnd
             \/ \E w \in Workers : \/ WorkerExit(w) \/ ReadTransferFd(w)
                                   \/ \E k \in Conns : CloseConn(w, k)
    BY <1>6 DEF CheckWaitSendFds, ResendEnd, RestartWorkersEnd, WorkerExit,
                ReadTransferFd, CloseConn
  <1> QED
    BY <1>2, <1>3, <1>4, <1>5, <1>6 DEF Next

\* The iterator of the registry stays valid while workers come and go, and no
\* worker is chosen twice before each has been chosen once
\* (get_next_worker_data_fd, add_worker_info, del_worker_info).
THEOREM RoundRobinIsFair == Spec => RoundRobinFair
  <1>1. IndInv => IteratorValid
    BY DEF IndInv
  <1> QED
    BY <1>1, Invariance, RoundStep, PTL DEF Spec, RoundRobinFair

-----------------------------------------------------------------------------
(* The refinement *)

\* What OwnerOf should say of k.
OwnerRight(k) ==
    /\ k \in backlog => OwnerOf(k) = <<"backlog">>
    /\ k \in Waiting => OwnerOf(k) = <<"manager">>
    /\ \A w \in Workers : k \in Held(w) => OwnerOf(k) = <<"worker", w>>
    /\ \/ k \in backlog \cup Waiting
       \/ \E w \in Workers : k \in Held(w)
       \/ OwnerOf(k) = <<"gone">>

\* Where the invariant holds, OwnerOf says where a connection is.
LEMMA OwnerFacts == Apart => \A k \in Conns : OwnerRight(k)
  <1> SUFFICES ASSUME Apart, NEW k \in Conns PROVE OwnerRight(k)
    OBVIOUS
  <1>1. k \in backlog => OwnerOf(k) = <<"backlog">>
    BY DEF OwnerOf, Apart, Held
  <1>2. k \in Waiting => OwnerOf(k) = <<"manager">>
    BY DEF OwnerOf, Apart, Held
  <1>3. ASSUME NEW w \in Workers, k \in Held(w)
        PROVE  OwnerOf(k) = <<"worker", w>>
    <2>1. k \notin backlog /\ k \notin Waiting
      BY <1>3 DEF Apart
    <2>2. \A v \in Workers : k \in Held(v) => v = w
      BY <1>3 DEF Apart
    <2>3. (CHOOSE v \in Workers : k \in Held(v)) = w
      BY <1>3, <2>2
    <2> QED
      BY <1>3, <2>1, <2>3 DEF OwnerOf, Held
  <1>4. \/ k \in backlog \cup Waiting
        \/ \E w \in Workers : k \in Held(w)
        \/ OwnerOf(k) = <<"gone">>
    BY DEF OwnerOf, Held
  <1> QED
    BY <1>1, <1>2, <1>3, <1>4 DEF OwnerRight

\* The gate implements ConnHandoff: the initial states map to its initial
\* state, and a step that moves connections along Flow to a step of it.
THEOREM GateImplementsHandoff == Spec => ImplementsHandoff
  <1>1. Init => Handoff!Init
    <2> SUFFICES ASSUME Init PROVE \A k \in Conns : OwnerOf(k) = <<"backlog">>
      BY DEF Handoff!Init
    <2> QED
      BY InitInv, OwnerFacts DEF Init, IndInv, OwnerRight
  <1>2. IndInv /\ IndInv' /\ Flow => Handoff!Next
    <2> SUFFICES ASSUME IndInv, IndInv', Flow PROVE Handoff!Next
      OBVIOUS
    <2> USE DEF Handoff!Places
    <2>1. Apart /\ Apart'
      BY DEF IndInv
    <2>2. \A k \in Conns : OwnerRight(k) /\ OwnerRight(k)'
      <3>1. (Apart => \A k \in Conns : OwnerRight(k))'
        BY OwnerFacts, PTL
      <3> QED
        BY <2>1, <3>1, OwnerFacts
    <2>3. ASSUME NEW k \in Conns
          PROVE  OwnerOf(k)' \in {<<p>> : p \in Handoff!Places}
                                   \cup {<<"worker", w>> : w \in Workers}
      BY <2>2 DEF OwnerRight
    <2>4. ASSUME NEW k \in Conns
          PROVE  OwnerOf(k)' = OwnerOf(k) \/ OwnerOf(k)' \in Handoff!Successors(OwnerOf(k))
      <3>0. /\ k \in backlog => OwnerOf(k) = <<"backlog">>
            /\ k \in Waiting => OwnerOf(k) = <<"manager">>
            /\ \A w \in Workers : k \in Held(w) => OwnerOf(k) = <<"worker", w>>
            /\ \/ k \in backlog \cup Waiting
               \/ \E w \in Workers : k \in Held(w)
               \/ OwnerOf(k) = <<"gone">>
        BY <2>2 DEF OwnerRight
      <3>1. /\ k \in backlog' => OwnerOf(k)' = <<"backlog">>
            /\ k \in Waiting' => OwnerOf(k)' = <<"manager">>
            /\ \A w \in Workers : k \in Held(w)' => OwnerOf(k)' = <<"worker", w>>
            /\ \/ k \in backlog' \cup Waiting'
               \/ \E w \in Workers : k \in Held(w)'
               \/ OwnerOf(k)' = <<"gone">>
        BY <2>2 DEF OwnerRight
      <3>2. CASE k \in backlog
        BY <3>0, <3>1, <3>2 DEF Handoff!Successors
      <3>3. CASE k \in Waiting
        <4>1. k \notin backlog'
          BY <2>1, <3>3 DEF Apart, Flow
        <4> QED
          BY <3>0, <3>1, <3>3, <4>1 DEF Handoff!Successors
      <3>4. ASSUME NEW w \in Workers, k \in Held(w)
            PROVE  OwnerOf(k)' = OwnerOf(k) \/ OwnerOf(k)' \in Handoff!Successors(OwnerOf(k))
        <4>1. k \notin backlog /\ k \notin Waiting
          BY <2>1, <3>4 DEF Apart
        <4>2. k \notin backlog' /\ k \notin Waiting'
          BY <4>1 DEF Flow
        <4>3. \A v \in Workers : k \in Held(v)' => v = w
          BY <2>1, <3>4, <4>1 DEF Flow, Apart
        <4>4. OwnerOf(k) = <<"worker", w>>
          BY <3>0, <3>4
        <4>5. OwnerOf(k)' = <<"gone">> \/ OwnerOf(k)' = <<"worker", w>>
          BY <3>1, <4>2, <4>3
        <4> QED
          BY <4>4, <4>5 DEF Handoff!Successors
      <3>5. CASE /\ k \notin backlog \cup Waiting
                 /\ \A w \in Workers : k \notin Held(w)
        BY <3>0, <3>1, <3>5 DEF Flow
      <3> QED
        BY <3>2, <3>3, <3>4, <3>5
    <2> QED
      BY <2>3, <2>4 DEF Handoff!Next
  <1>3. IndInv /\ IndInv' /\ [Next]_vars => [Handoff!Next]_(Handoff!vars)
    BY <1>2, NextInv
  <1> QED
    BY <1>1, <1>3, Invariance, PTL DEF Spec, ImplementsHandoff, Handoff!Spec
=============================================================================
