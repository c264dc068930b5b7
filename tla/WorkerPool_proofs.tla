-------------------------- MODULE WorkerPool_proofs --------------------------
(***************************************************************************)
(* TLAPS proofs about WorkerPool: its invariants hold for every number of  *)
(* workers, pids, descriptors, clients and failing system calls.           *)
(***************************************************************************)
EXTENDS WorkerPool, SequenceTheorems, TLAPS

-----------------------------------------------------------------------------
(* Sequences *)

\* What RemoveAt leaves: the entries before i stay where they are and those
\* after it move up by one.
LEMMA RemoveAtFacts ==
    ASSUME NEW S, NEW s \in Seq(S), NEW i \in 1..Len(s)
    PROVE  /\ RemoveAt(s, i) \in Seq(S)
           /\ Len(RemoveAt(s, i)) = Len(s) - 1
           /\ \A j \in 1..(Len(s) - 1) :
                 RemoveAt(s, i)[j] = IF j < i THEN s[j] ELSE s[j + 1]
  <1> DEFINE a == SubSeq(s, 1, i - 1)
             b == SubSeq(s, i + 1, Len(s))
  <1>1. a \in Seq(S) /\ Len(a) = i - 1 /\ \A j \in 1..(i - 1) : a[j] = s[j]
    BY SubSeqProperties
  <1>2. b \in Seq(S) /\ Len(b) = Len(s) - i
        /\ \A j \in 1..(Len(s) - i) : b[j] = s[i + j]
    BY SubSeqProperties
  <1> HIDE DEF a, b
  <1>3. /\ a \o b \in Seq(S)
        /\ Len(a \o b) = Len(a) + Len(b)
        /\ \A j \in 1..(Len(a) + Len(b)) :
              (a \o b)[j] = IF j <= Len(a) THEN a[j] ELSE b[j - Len(a)]
    BY <1>1, <1>2, ConcatProperties
  <1>4. Len(a) + Len(b) = Len(s) - 1 /\ Len(s) \in Nat
    BY <1>1, <1>2, LenProperties
  <1>5. ASSUME NEW j \in 1..(Len(s) - 1)
        PROVE  (a \o b)[j] = IF j < i THEN s[j] ELSE s[j + 1]
    <2>1. CASE j < i
      BY <1>1, <1>3, <1>4, <2>1
    <2>2. CASE ~(j < i)
      <3>1. (a \o b)[j] = b[j - (i - 1)] /\ j - (i - 1) \in 1..(Len(s) - i)
        BY <1>1, <1>3, <1>4, <2>2
      <3>2. i + (j - (i - 1)) = j + 1
        BY <1>4
      <3> QED
        BY <1>2, <2>2, <3>1, <3>2
    <2> QED
      BY <2>1, <2>2
  <1> QED
    BY <1>3, <1>4, <1>5 DEF RemoveAt, a, b

-----------------------------------------------------------------------------
(* The inductive invariant *)

\* SIGKILL is only on its way to children that still run.
KilledRunning == \A p \in killed : Running(p)

\* A running child without an entry in m_workers has been sent SIGKILL.
RunningRegistered ==
    \A p \in Pids : Running(p) /\ p \notin killed => p \in DOMAIN m_workers

\* create_workers takes the indexes in order, and nothing restarts before it
\* is done.
InitOrder ==
    pc = "init" => /\ m_restart_workers = <<>>
                   /\ \A i \in DOMAIN m_index_workers : i < cursor

\* The part that create_worker can disturb.
PoolInv ==
    /\ RegistryConsistent
    /\ KilledRunning
    /\ RunningRegistered
    /\ ChanelsRegistered

IndInv ==
    /\ TypeOK
    /\ PoolInv
    /\ RestartOnce
    /\ InitOrder
    /\ ZombiesSignalled

\* The conjuncts of TypeOK about the variables create_worker assigns.
PoolTypes ==
    /\ DOMAIN m_workers \subseteq Pids
    /\ m_workers \in [DOMAIN m_workers -> WorkerInfo]
    /\ DOMAIN m_index_workers \subseteq Indexes
    /\ m_index_workers \in [DOMAIN m_index_workers -> Pids]
    /\ m_conns \in [Fds -> Conn]
    /\ leaked \subseteq Fds
    /\ proc \in [Pids -> {"none", "run", "zombie"}]
    /\ serves \in [Pids -> Indexes \cup {0}]
    /\ holds \in [Pids -> SUBSET Ends]
    /\ killed \subseteq Pids
    /\ faults \in 0..MaxFaults

\* create_worker(i), when it succeeds for an index without a worker, keeps the
\* registry, the processes and the channels in step with each other.
LEMMA CreateDoneInv ==
    ASSUME PoolTypes, PoolInv, NEW i \in Indexes, ~Registered(i), CreateDone(i)
    PROVE  /\ PoolTypes'
           /\ PoolInv'
           /\ Zombies' = Zombies
           /\ DOMAIN m_index_workers' = DOMAIN m_index_workers \cup {i}
  <1>1. PICK p \in FreePids, c \in FreeFds, d \in FreeFds :
          /\ c # d
          /\ Fork(i, p)
          /\ m_conns' = [m_conns EXCEPT ![c] = ChanelConn(p, "ctrl"),
                                        ![d] = ChanelConn(p, "data")]
          /\ add_worker_info(i, p, c, d)
          /\ UNCHANGED <<leaked, killed, faults>>
    BY DEF CreateDone
  <1>2. /\ p \in Pids /\ proc[p] = "none"
        /\ p \notin DOMAIN m_workers /\ p \notin killed
        /\ c \in Fds /\ d \in Fds /\ m_conns[c] = NoConn /\ m_conns[d] = NoConn
    BY DEF FreePids, FreeFds, PoolInv, RegistryConsistent, KilledRunning, Running
  <1>3. /\ proc' = [proc EXCEPT ![p] = "run"]
        /\ serves' = [serves EXCEPT ![p] = i]
        /\ holds' = [holds EXCEPT ![p] = Chanels]
    BY <1>1 DEF Fork
  <1>4. m_workers' = [q \in DOMAIN m_workers \cup {p} |->
                        IF q = p THEN [index |-> i, ctrl_fd |-> c, data_fd |-> d]
                                 ELSE m_workers[q]]
    BY <1>1 DEF add_worker_info
  <1>5. m_index_workers' = [j \in DOMAIN m_index_workers \cup {i} |->
                               IF j = i THEN p ELSE m_index_workers[j]]
    BY <1>1, <1>2 DEF add_worker_info
  <1>6. \A fd \in Fds : m_conns'[fd] = IF fd = c THEN ChanelConn(p, "ctrl")
                                 ELSE IF fd = d THEN ChanelConn(p, "data")
                                 ELSE m_conns[fd]
    BY <1>1, <1>2 DEF PoolTypes
  <1>7. PoolTypes'
    <2>1. [index |-> i, ctrl_fd |-> c, data_fd |-> d] \in WorkerInfo
      BY <1>2 DEF WorkerInfo
    <2>2. DOMAIN m_workers' \subseteq Pids
          /\ m_workers' \in [DOMAIN m_workers' -> WorkerInfo]
      BY <1>2, <1>4, <2>1 DEF PoolTypes
    <2>3. DOMAIN m_index_workers' \subseteq Indexes
          /\ m_index_workers' \in [DOMAIN m_index_workers' -> Pids]
      BY <1>2, <1>5 DEF PoolTypes
    <2>4. ChanelConn(p, "ctrl") \in Conn /\ ChanelConn(p, "data") \in Conn
      BY <1>2 DEF ChanelConn, Conn, Chanels
    <2>5. m_conns' \in [Fds -> Conn]
      BY <1>1, <1>2, <2>4 DEF PoolTypes
    <2> QED
      BY <1>1, <1>2, <1>3, <2>2, <2>3, <2>5 DEF PoolTypes, Ends
  <1>8. RegistryConsistent'
    <2>1. ASSUME NEW q \in DOMAIN m_workers'
          PROVE  /\ m_workers'[q].index \in DOMAIN m_index_workers'
                 /\ m_index_workers'[m_workers'[q].index] = q
                 /\ proc'[q] # "none"
                 /\ serves'[q] = m_workers'[q].index
      BY <1>2, <1>3, <1>4, <1>5
         DEF PoolTypes, PoolInv, RegistryConsistent, Registered
    <2>2. ASSUME NEW j \in DOMAIN m_index_workers'
          PROVE  /\ m_index_workers'[j] \in DOMAIN m_workers'
                 /\ m_workers'[m_index_workers'[j]].index = j
      BY <1>2, <1>4, <1>5 DEF PoolTypes, PoolInv, RegistryConsistent, Registered
    <2> QED
      BY <2>1, <2>2 DEF RegistryConsistent, Registered
  <1>9. KilledRunning' /\ RunningRegistered'
    BY <1>1, <1>2, <1>3, <1>4
       DEF PoolTypes, PoolInv, KilledRunning, RunningRegistered, Running
  <1>10. ChanelsRegistered'
    <2> SUFFICES ASSUME NEW fd \in Fds, m_conns'[fd].end \in Chanels
                 PROVE  /\ m_conns'[fd].pid \in DOMAIN m_workers'
                        /\ fd = IF m_conns'[fd].end = "ctrl"
                                THEN m_workers'[m_conns'[fd].pid].ctrl_fd
                                ELSE m_workers'[m_conns'[fd].pid].data_fd
      BY DEF ChanelsRegistered
    <2>1. /\ p \in DOMAIN m_workers'
          /\ m_workers'[p].ctrl_fd = c /\ m_workers'[p].data_fd = d
      BY <1>4
    <2>2. CASE fd = c
      <3>1. m_conns'[fd].end = "ctrl" /\ m_conns'[fd].pid = p
        BY <1>6, <2>2 DEF ChanelConn
      <3> QED
        BY <2>1, <2>2, <3>1
    <2>3. CASE fd = d
      <3>1. c # d
        BY <1>1
      <3>2. m_conns'[fd].end = "data" /\ m_conns'[fd].pid = p
        BY <1>6, <2>3, <3>1 DEF ChanelConn
      <3> QED
        BY <2>1, <2>3, <3>2
    <2>4. CASE fd # c /\ fd # d
      BY <1>2, <1>4, <1>6, <2>4 DEF PoolInv, ChanelsRegistered
    <2> QED
      BY <2>2, <2>3, <2>4
  <1>11. Zombies' = Zombies
    BY <1>2, <1>3 DEF PoolTypes, Zombies
  <1> QED
    BY <1>5, <1>7, <1>8, <1>9, <1>10, <1>11 DEF PoolInv

\* create_worker(i), when it fails, leaves the registry and the channels alone
\* and condemns the child it may have forked.
LEMMA CreateFailsInv ==
    ASSUME ConstantsAssumption, PoolTypes, PoolInv, NEW i \in Indexes, CreateFails(i)
    PROVE  /\ PoolTypes'
           /\ PoolInv'
           /\ Zombies' = Zombies
           /\ UNCHANGED registry
  <1>1. CASE CreateNothing
    <2>1. UNCHANGED <<m_workers, m_index_workers, m_conns, leaked, proc, serves,
                      holds, killed>>
      BY <1>1 DEF CreateNothing, registry, children
    <2>2. faults' \in 0..MaxFaults
      BY <1>1 DEF CreateNothing, PoolTypes, ConstantsAssumption
    <2>3. PoolTypes' /\ Zombies' = Zombies
      BY <2>1, <2>2 DEF PoolTypes, Zombies
    <2>4. PoolInv'
      BY <2>1 DEF PoolInv, RegistryConsistent, KilledRunning, RunningRegistered,
                  ChanelsRegistered, Running, Registered
    <2> QED
      BY <2>1, <2>3, <2>4 DEF registry
  <1>2. CASE CreateUnwatched(i)
    <2>1. PICK p \in FreePids, c \in FreeFds, d \in FreeFds :
            /\ Fork(i, p)
            /\ killed' = killed \cup {p}
            /\ \E lost \in {{}, {d}, {c, d}} : leaked' = leaked \cup lost
            /\ UNCHANGED <<registry, m_conns>>
      BY <1>2 DEF CreateUnwatched
    <2>2. /\ p \in Pids /\ proc[p] = "none" /\ p \notin DOMAIN m_workers
          /\ c \in Fds /\ d \in Fds
      BY DEF FreePids, FreeFds, PoolInv, RegistryConsistent
    <2>3. /\ proc' = [proc EXCEPT ![p] = "run"]
          /\ serves' = [serves EXCEPT ![p] = i]
          /\ holds' = [holds EXCEPT ![p] = Chanels]
          /\ UNCHANGED <<m_workers, m_index_workers, m_conns>>
      BY <2>1 DEF Fork, registry
    <2>4. leaked' \subseteq Fds
      BY <2>1, <2>2 DEF PoolTypes
    <2>5. faults' \in 0..MaxFaults
      BY <1>2 DEF CreateUnwatched, PoolTypes, ConstantsAssumption
    <2>6. PoolTypes'
      BY <2>1, <2>2, <2>3, <2>4, <2>5 DEF PoolTypes, Ends
    <2>7. RegistryConsistent' /\ ChanelsRegistered'
      BY <2>2, <2>3 DEF PoolInv, PoolTypes, RegistryConsistent, ChanelsRegistered,
                        Registered
    <2>8. KilledRunning' /\ RunningRegistered' /\ Zombies' = Zombies
      BY <2>1, <2>2, <2>3 DEF PoolInv, PoolTypes, KilledRunning,
                              RunningRegistered, Running, Zombies
    <2> QED
      BY <2>3, <2>6, <2>7, <2>8 DEF PoolInv, registry
  <1> QED
    BY <1>1, <1>2 DEF CreateFails

-----------------------------------------------------------------------------
(* Invariance *)

\* The manager starts, with no child and an empty registry, in the inductive
\* invariant.
LEMMA InitInv == ConstantsAssumption /\ Init => IndInv
  <1> SUFFICES ASSUME ConstantsAssumption, Init
               PROVE  IndInv
    OBVIOUS
  <1>1. TypeOK
    <2>1. NoConn \in Conn
      BY DEF NoConn, Conn
    <2>2. m_restart_workers \in Seq(Indexes)
      BY EmptySeq DEF Init
    <2>3. /\ DOMAIN m_workers = {} /\ m_workers \in [{} -> WorkerInfo]
          /\ DOMAIN m_index_workers = {} /\ m_index_workers \in [{} -> Pids]
      BY DEF Init
    <2>4. m_conns \in [Fds -> Conn]
      BY <2>1 DEF Init
    <2>5. /\ proc \in [Pids -> {"none", "run", "zombie"}]
          /\ serves \in [Pids -> Indexes \cup {0}]
          /\ holds \in [Pids -> SUBSET Ends]
      BY DEF Init
    <2>6. /\ leaked \subseteq Fds /\ killed \subseteq Pids
          /\ pc \in {"init", "loop", "reap", "restart"}
          /\ cursor \in Nat \ {0} /\ faults \in 0..MaxFaults
      BY DEF Init, ConstantsAssumption
    <2>8. sigchld \in BOOLEAN
      BY Zenon DEF Init
    <2>7. DOMAIN m_workers \subseteq Pids /\ DOMAIN m_index_workers \subseteq Indexes
      BY <2>3
    <2> QED
      BY <2>2, <2>3, <2>4, <2>5, <2>6, <2>7, <2>8 DEF TypeOK
  <1>2. PoolInv
    BY DEF Init, PoolInv, RegistryConsistent, KilledRunning, RunningRegistered,
           ChanelsRegistered, Running, Registered, NoConn, Chanels
  <1>3. RestartOnce /\ InitOrder /\ ZombiesSignalled
    BY EmptySeq DEF Init, RestartOnce, InitOrder, ZombiesSignalled, Zombies
  <1> QED
    BY <1>1, <1>2, <1>3 DEF IndInv

\* A step that leaves the registry, the processes and the connections alone
\* leaves PoolInv alone.
LEMMA PoolUnchanged ==
    ASSUME PoolInv, UNCHANGED <<m_workers, m_index_workers, m_conns, proc, serves, killed>>
    PROVE  PoolInv' /\ Zombies' = Zombies
  BY DEF PoolInv, RegistryConsistent, KilledRunning, RunningRegistered,
         ChanelsRegistered, Running, Registered, Zombies

\* Closing connections cannot disturb what holds of the channels still open.
LEMMA CloseConnsInv ==
    ASSUME TypeOK, ChanelsRegistered, NEW fds, m_conns' = CloseConns(fds),
           UNCHANGED m_workers
    PROVE  m_conns' \in [Fds -> Conn] /\ ChanelsRegistered'
  <1>1. NoConn \in Conn /\ NoConn.end \notin Chanels
    BY DEF NoConn, Conn, Chanels
  <1>2. \A fd \in Fds : m_conns'[fd] = IF fd \in fds THEN NoConn ELSE m_conns[fd]
    BY DEF CloseConns
  <1>3. m_conns' \in [Fds -> Conn]
    BY <1>1 DEF CloseConns, TypeOK
  <1>4. ChanelsRegistered'
    BY <1>1, <1>2 DEF ChanelsRegistered
  <1> QED
    BY <1>3, <1>4

\* Every step of the manager, its children and its sockets preserves the
\* inductive invariant.
LEMMA NextInv == ConstantsAssumption /\ IndInv /\ [Next]_vars => IndInv'
  <1> SUFFICES ASSUME ConstantsAssumption, IndInv, [Next]_vars
               PROVE  IndInv'
    OBVIOUS
  <1> USE DEF IndInv
  <1>0. PoolTypes
    BY DEF TypeOK, PoolTypes
  <1>1. CASE CreateWorkers
    <2>1. /\ pc = "init" /\ cursor \in Indexes /\ cursor' = cursor + 1
          /\ UNCHANGED <<m_restart_workers, sigchld, pc>>
          /\ m_restart_workers = <<>>
      BY <1>1 DEF CreateWorkers, TypeOK, Indexes, InitOrder, ConstantsAssumption
    <2>2. ~Registered(cursor)
      BY <2>1 DEF InitOrder, Registered, Indexes
    <2>3. /\ PoolTypes' /\ PoolInv' /\ Zombies' = Zombies
          /\ \A j \in DOMAIN m_index_workers' :
                j \in DOMAIN m_index_workers \/ j = cursor
      <3>1. CASE CreateDone(cursor)
        BY <1>0, <2>1, <2>2, <3>1, CreateDoneInv
      <3>2. CASE CreateFails(cursor)
        BY <1>0, <2>1, <3>2, CreateFailsInv DEF registry
      <3> QED
        BY <1>1, <3>1, <3>2 DEF CreateWorkers
    <2>4. TypeOK'
      BY <2>1, <2>3 DEF TypeOK, PoolTypes
    <2>5. RestartOnce'
      BY <2>1, EmptySeq DEF RestartOnce
    <2>6. InitOrder'
      BY <2>1, <2>3 DEF InitOrder, TypeOK, Indexes, ConstantsAssumption
    <2>7. ZombiesSignalled'
      BY <2>1, <2>3 DEF ZombiesSignalled
    <2> QED
      BY <2>3, <2>4, <2>5, <2>6, <2>7
  <1>2. CASE CreateWorkersDone
    BY <1>2, PoolUnchanged DEF CreateWorkersDone, registry, children, TypeOK,
       RestartOnce, InitOrder, ZombiesSignalled, Registered
  <1>3. CASE OnRepeatTimer
    BY <1>3, PoolUnchanged DEF OnRepeatTimer, registry, children, TypeOK,
       RestartOnce, InitOrder, ZombiesSignalled, Registered
  <1>4. CASE RestartWorkers
    <2> DEFINE s == m_restart_workers
               i == m_restart_workers[cursor]
    <2>1. /\ pc = "restart" /\ cursor \in 1..Len(s) /\ s \in Seq(Indexes)
          /\ UNCHANGED <<sigchld, pc>> /\ i \in Indexes /\ ~Registered(i)
      <3>1. pc = "restart" /\ cursor \in 1..Len(s) /\ s \in Seq(Indexes)
            /\ UNCHANGED <<sigchld, pc>>
        BY <1>4, LenProperties DEF RestartWorkers, TypeOK
      <3>2. i \in Indexes
        BY <3>1, ElementOfSeq
      <3> QED
        BY <3>1, <3>2 DEF RestartOnce
    <2>2. CASE /\ CreateDone(i)
               /\ m_restart_workers' = RemoveAt(s, cursor)
               /\ cursor' = cursor
      <3>1. /\ PoolTypes' /\ PoolInv' /\ Zombies' = Zombies
            /\ DOMAIN m_index_workers' = DOMAIN m_index_workers \cup {i}
        BY <1>0, <2>1, <2>2, CreateDoneInv
      <3>2. /\ m_restart_workers' \in Seq(Indexes)
            /\ Len(m_restart_workers') = Len(s) - 1
            /\ \A j \in 1..(Len(s) - 1) :
                  m_restart_workers'[j] = IF j < cursor THEN s[j] ELSE s[j + 1]
        BY <2>1, <2>2, RemoveAtFacts
      <3>3. RestartOnce'
        <4>0. Len(s) \in Nat
          BY <2>1, LenProperties
        <4>1. ASSUME NEW j \in 1..(Len(s) - 1), NEW k \in 1..(Len(s) - 1),
                     m_restart_workers'[j] = m_restart_workers'[k]
              PROVE  j = k
          BY <2>1, <3>2, <4>0, <4>1 DEF RestartOnce
        <4>2. ASSUME NEW j \in 1..(Len(s) - 1)
              PROVE  m_restart_workers'[j] \notin DOMAIN m_index_workers'
          BY <2>1, <3>1, <3>2, <4>0 DEF RestartOnce, Registered
        <4> QED
          BY <3>2, <4>1, <4>2 DEF RestartOnce, Registered
      <3>4. TypeOK'
        BY <2>1, <2>2, <3>1, <3>2 DEF TypeOK, PoolTypes
      <3> QED
        BY <2>1, <3>1, <3>3, <3>4 DEF InitOrder, ZombiesSignalled
    <2>3. CASE /\ CreateFails(i)
               /\ m_restart_workers' = s
               /\ cursor' = cursor + 1
      <3>1. /\ PoolTypes' /\ PoolInv' /\ Zombies' = Zombies
            /\ UNCHANGED m_index_workers
        BY <1>0, <2>1, <2>3, CreateFailsInv DEF registry
      <3>2. TypeOK'
        BY <2>1, <2>3, <3>1 DEF TypeOK, PoolTypes
      <3> QED
        BY <2>1, <2>3, <3>1, <3>2
           DEF InitOrder, ZombiesSignalled, RestartOnce, Registered
    <2> QED
      BY <1>4, <2>2, <2>3 DEF RestartWorkers
  <1>5. CASE CheckSocketpairs
    <2>1. /\ UNCHANGED <<m_workers, m_index_workers, m_restart_workers, m_conns,
                         leaked, proc, serves, holds, sigchld, faults>>
          /\ pc = "restart" /\ pc' = "loop" /\ cursor' = 1
          /\ killed \subseteq killed' /\ killed' \subseteq Pids
          /\ \A p \in killed' : Running(p)
      BY <1>5 DEF CheckSocketpairs, registry, TypeOK, PoolInv, KilledRunning
    <2>2. PoolInv'
      BY <2>1 DEF PoolInv, RegistryConsistent, KilledRunning, RunningRegistered,
                  ChanelsRegistered, Running, Registered
    <2> QED
      BY <2>1, <2>2 DEF TypeOK, RestartOnce, InitOrder, ZombiesSignalled,
                        Registered, Zombies
  <1>6. CASE OnChildTerminated
    <2>1. /\ UNCHANGED <<m_workers, m_index_workers, m_restart_workers, m_conns,
                         leaked, proc, serves, holds, killed, cursor, faults>>
          /\ pc' = "reap" /\ sigchld' = FALSE
      BY <1>6 DEF OnChildTerminated, registry, children
    <2>2. PoolInv'
      BY <2>1, PoolUnchanged
    <2>3. TypeOK'
      BY <2>1 DEF TypeOK
    <2> QED
      BY <2>1, <2>2, <2>3 DEF RestartOnce, InitOrder, ZombiesSignalled, Registered
  <1>7. CASE Reap
    <2>1. PICK p \in Zombies :
            /\ proc' = [proc EXCEPT ![p] = "none"]
            /\ serves' = [serves EXCEPT ![p] = 0]
            /\ restart_worker(p)
      BY <1>7 DEF Reap
    <2>2. /\ p \in Pids /\ proc[p] = "zombie" /\ p \notin killed
          /\ pc = "reap"
          /\ UNCHANGED <<leaked, holds, killed, sigchld, pc, cursor, faults>>
      BY <1>7, <2>1 DEF Reap, Zombies, PoolInv, KilledRunning, Running
    <2>3. CASE p \notin DOMAIN m_workers
      <3>1. UNCHANGED <<m_conns, m_workers, m_index_workers, m_restart_workers>>
        BY <2>1, <2>3 DEF restart_worker, registry
      <3>2. TypeOK'
        BY <2>1, <2>2, <3>1 DEF TypeOK
      <3>3. PoolInv'
        BY <2>1, <2>2, <2>3, <3>1
           DEF TypeOK, PoolInv, RegistryConsistent, KilledRunning,
               RunningRegistered, ChanelsRegistered, Running, Registered
      <3> QED
        BY <2>2, <3>1, <3>2, <3>3
           DEF RestartOnce, InitOrder, ZombiesSignalled, Registered
    <2>4. CASE p \in DOMAIN m_workers
      <3> DEFINE i == m_workers[p].index
                 fds == {m_workers[p].ctrl_fd, m_workers[p].data_fd}
      <3>1. /\ m_conns' = CloseConns(fds)
            /\ m_workers' = [q \in DOMAIN m_workers \ {p} |-> m_workers[q]]
            /\ m_index_workers' = [j \in DOMAIN m_index_workers \ {i} |->
                                      m_index_workers[j]]
            /\ m_restart_workers' = Append(m_restart_workers, i)
        BY <2>1, <2>4 DEF restart_worker, del_worker_info, WorkersWithout,
                          IndexesWithout
      <3>2. i \in Indexes /\ Registered(i) /\ m_index_workers[i] = p
        BY <2>4 DEF TypeOK, WorkerInfo, PoolInv, RegistryConsistent
      <3>3. /\ m_restart_workers' \in Seq(Indexes)
            /\ Len(m_restart_workers') = Len(m_restart_workers) + 1
            /\ Len(m_restart_workers) \in Nat
            /\ m_restart_workers'[Len(m_restart_workers) + 1] = i
            /\ \A j \in 1..Len(m_restart_workers) :
                  m_restart_workers'[j] = m_restart_workers[j]
        BY <3>1, <3>2, LenProperties DEF TypeOK
      <3>4. \A fd \in Fds : m_conns'[fd] = IF fd \in fds THEN NoConn ELSE m_conns[fd]
        BY <3>1 DEF CloseConns
      <3>5. m_conns' \in [Fds -> Conn]
        BY <3>1 DEF CloseConns, TypeOK, NoConn, Conn
      <3>6. TypeOK'
        BY <2>1, <2>2, <3>1, <3>3, <3>5 DEF TypeOK
      <3>7. RegistryConsistent'
        <4>1. ASSUME NEW q \in DOMAIN m_workers'
              PROVE  /\ m_workers'[q].index \in DOMAIN m_index_workers'
                     /\ m_index_workers'[m_workers'[q].index] = q
                     /\ proc'[q] # "none"
                     /\ serves'[q] = m_workers'[q].index
          BY <2>1, <3>1, <3>2 DEF TypeOK, PoolInv, RegistryConsistent, Registered
        <4>2. ASSUME NEW j \in DOMAIN m_index_workers'
              PROVE  /\ m_index_workers'[j] \in DOMAIN m_workers'
                     /\ m_workers'[m_index_workers'[j]].index = j
          BY <3>1, <3>2 DEF TypeOK, PoolInv, RegistryConsistent, Registered
        <4> QED
          BY <4>1, <4>2 DEF RegistryConsistent, Registered
      <3>8. KilledRunning' /\ RunningRegistered'
        BY <2>1, <2>2, <3>1 DEF TypeOK, PoolInv, KilledRunning,
                                RunningRegistered, Running
      <3>9. ChanelsRegistered'
        <4> SUFFICES ASSUME NEW fd \in Fds, m_conns'[fd].end \in Chanels
                     PROVE  /\ m_conns'[fd].pid \in DOMAIN m_workers'
                            /\ fd = IF m_conns'[fd].end = "ctrl"
                                    THEN m_workers'[m_conns'[fd].pid].ctrl_fd
                                    ELSE m_workers'[m_conns'[fd].pid].data_fd
          BY DEF ChanelsRegistered
        <4>1. fd \notin fds /\ m_conns'[fd] = m_conns[fd]
          BY <3>4 DEF NoConn, Chanels
        <4>2. m_conns[fd].pid # p
          BY <4>1 DEF PoolInv, ChanelsRegistered
        <4> QED
          BY <3>1, <4>1, <4>2 DEF PoolInv, ChanelsRegistered
      <3>10. RestartOnce'
        <4>1. ASSUME NEW j \in 1..Len(m_restart_workers')
              PROVE  m_restart_workers'[j] \notin DOMAIN m_index_workers'
          BY <3>1, <3>2, <3>3 DEF RestartOnce, Registered
        <4>2. ASSUME NEW j \in 1..Len(m_restart_workers'),
                     NEW k \in 1..Len(m_restart_workers'),
                     m_restart_workers'[j] = m_restart_workers'[k]
              PROVE  j = k
          <5>1. \A l \in 1..Len(m_restart_workers) : m_restart_workers[l] # i
            BY <3>2 DEF RestartOnce
          <5> QED
            BY <3>3, <4>2, <5>1 DEF RestartOnce
        <4> QED
          BY <4>1, <4>2 DEF RestartOnce, Registered
      <3> QED
        BY <2>2, <3>6, <3>7, <3>8, <3>9, <3>10
           DEF PoolInv, InitOrder, ZombiesSignalled
    <2> QED
      BY <2>3, <2>4
  <1>8. CASE ReapDone
    BY <1>8, PoolUnchanged DEF ReapDone, registry, children, TypeOK,
       RestartOnce, InitOrder, ZombiesSignalled, Registered
  <1>9. ASSUME NEW fd \in Fds, ChanelClosed(fd) \/ ClientClosed(fd)
        PROVE  IndInv'
    <2>1. /\ m_conns' = CloseConns({fd})
          /\ UNCHANGED <<m_workers, m_index_workers, m_restart_workers, leaked,
                         proc, serves, holds, killed, sigchld, pc, cursor, faults>>
      BY <1>9 DEF ChanelClosed, ClientClosed, registry, children
    <2>2. m_conns' \in [Fds -> Conn] /\ ChanelsRegistered'
      BY <2>1, CloseConnsInv DEF PoolInv
    <2>3. TypeOK'
      BY <2>1, <2>2 DEF TypeOK
    <2>4. PoolInv'
      BY <2>1, <2>2 DEF PoolInv, RegistryConsistent, KilledRunning,
         RunningRegistered, Running, Registered
    <2>5. RestartOnce' /\ InitOrder' /\ ZombiesSignalled'
      BY <2>1 DEF RestartOnce, Registered, InitOrder, ZombiesSignalled, Zombies
    <2> QED
      BY <2>3, <2>4, <2>5
  <1>10. ASSUME NEW fd \in Fds, AcceptServerConn(fd)
         PROVE  IndInv'
    <2>1. /\ m_conns' = [m_conns EXCEPT ![fd] = ClientConn]
          /\ UNCHANGED <<m_workers, m_index_workers, m_restart_workers, leaked,
                         proc, serves, holds, killed, sigchld, pc, cursor, faults>>
      BY <1>10 DEF AcceptServerConn, registry, children
    <2>2. ClientConn \in Conn /\ ClientConn.end \notin Chanels
      BY DEF ClientConn, Conn, Chanels
    <2>3. m_conns' \in [Fds -> Conn] /\ ChanelsRegistered'
      BY <2>1, <2>2 DEF TypeOK, PoolInv, ChanelsRegistered
    <2> QED
      BY <2>1, <2>3 DEF TypeOK, PoolInv, RegistryConsistent, KilledRunning,
         RunningRegistered, Running, Registered, RestartOnce, InitOrder,
         ZombiesSignalled, Zombies
  <1>11. ASSUME NEW p \in Pids, WorkerExit(p)
         PROVE  IndInv'
    <2>1. /\ proc[p] = "run" /\ proc' = [proc EXCEPT ![p] = "zombie"]
          /\ holds' = [holds EXCEPT ![p] = {}]
          /\ killed' = killed \ {p} /\ sigchld' = TRUE
          /\ UNCHANGED <<m_workers, m_index_workers, m_restart_workers, m_conns,
                         leaked, serves, pc, cursor, faults>>
      BY <1>11 DEF WorkerExit, Running, registry
    <2>2. PoolInv'
      BY <2>1 DEF TypeOK, PoolInv, RegistryConsistent, KilledRunning,
         RunningRegistered, ChanelsRegistered, Running, Registered
    <2> QED
      BY <2>1, <2>2 DEF TypeOK, RestartOnce, Registered, InitOrder,
                        ZombiesSignalled
  <1>12. ASSUME NEW p \in Pids, WorkerClosesCtrl(p)
         PROVE  IndInv'
    <2>1. /\ holds' = [holds EXCEPT ![p] = @ \ {"ctrl"}]
          /\ UNCHANGED <<m_workers, m_index_workers, m_restart_workers, m_conns,
                         leaked, proc, serves, killed, sigchld, pc, cursor, faults>>
      BY <1>12 DEF WorkerClosesCtrl, registry
    <2> QED
      BY <2>1, PoolUnchanged DEF TypeOK, RestartOnce, Registered, InitOrder,
                                 ZombiesSignalled
  <1>13. ASSUME NEW p \in Pids, WorkerTakesConn(p) \/ WorkerConnClosed(p)
         PROVE  IndInv'
    <2>1. /\ \E e \in {holds[p] \cup {"other"}, holds[p] \ {"other"}} :
                holds' = [holds EXCEPT ![p] = e]
          /\ UNCHANGED <<m_workers, m_index_workers, m_restart_workers, m_conns,
                         leaked, proc, serves, killed, sigchld, pc, cursor, faults>>
      BY <1>13 DEF WorkerTakesConn, WorkerConnClosed, registry
    <2>2. holds' \in [Pids -> SUBSET Ends]
      BY <2>1 DEF TypeOK, Ends
    <2> QED
      BY <2>1, <2>2, PoolUnchanged DEF TypeOK, RestartOnce, Registered, InitOrder,
                                       ZombiesSignalled
  <1>14. CASE UNCHANGED vars
    BY <1>14, PoolUnchanged DEF vars, TypeOK, RestartOnce, Registered, InitOrder,
                                ZombiesSignalled
  <1> QED
    BY <1>1, <1>2, <1>3, <1>4, <1>5, <1>6, <1>7, <1>8, <1>9, <1>10, <1>11,
       <1>12, <1>13, <1>14 DEF Next

-----------------------------------------------------------------------------
(* Theorems *)

\* The inductive invariant holds in every reachable state.
LEMMA Invariance == Spec => []IndInv
  BY ConstantsAssumption, InitInv, NextInv, PTL DEF Spec

\* Every reachable state is well typed: in particular the restart list only
\* holds configured indexes.
THEOREM TypeCorrect == Spec => []TypeOK
  <1>1. IndInv => TypeOK
    BY DEF IndInv
  <1> QED
    BY <1>1, Invariance, PTL

\* The two maps of WorkerDataMgr always describe the same children, none of
\* which has been waited for.
THEOREM RegistryCorrect == Spec => []RegistryConsistent
  <1>1. IndInv => RegistryConsistent
    BY DEF IndInv, PoolInv
  <1> QED
    BY <1>1, Invariance, PTL

\* No index is queued twice for a restart, or while it has a worker.
THEOREM RestartsOnce == Spec => []RestartOnce
  <1>1. IndInv => RestartOnce
    BY DEF IndInv
  <1> QED
    BY <1>1, Invariance, PTL

\* Two children that are not condemned never serve the same index.
THEOREM NoTwoWorkersPerIndex == Spec => []OneWorkerPerIndex
  <1>1. IndInv => OneWorkerPerIndex
    <2> SUFFICES ASSUME IndInv,
                        NEW p \in {r \in Pids : Running(r)} \ killed,
                        NEW q \in {r \in Pids : Running(r)} \ killed,
                        serves[p] = serves[q]
                 PROVE  p = q
      BY DEF OneWorkerPerIndex
    <2>1. p \in DOMAIN m_workers /\ q \in DOMAIN m_workers
      BY DEF IndInv, PoolInv, RunningRegistered
    <2>2. m_workers[p].index = m_workers[q].index
      BY <2>1 DEF IndInv, PoolInv, RegistryConsistent
    <2> QED
      BY <2>1, <2>2 DEF IndInv, PoolInv, RegistryConsistent
  <1> QED
    BY <1>1, Invariance, PTL

\* However SIGCHLDs merge, no dead child is overlooked.
THEOREM NoLostChild == Spec => []ZombiesSignalled
  <1>1. IndInv => ZombiesSignalled
    BY DEF IndInv
  <1> QED
    BY <1>1, Invariance, PTL

\* The manager keeps no channel of a worker that it has waited for.
THEOREM NoStrayChanel == Spec => []ChanelsRegistered
  <1>1. IndInv => ChanelsRegistered
    BY DEF IndInv, PoolInv
  <1> QED
    BY <1>1, Invariance, PTL

\* An index that has a worker, or waits for one, has one or waits for one after
\* every step.
THEOREM NoIndexForgotten == Spec => IndexNeverForgotten
  <1> DEFINE Kept(i) == Registered(i) \/ Listed(i) => (Registered(i) \/ Listed(i))'
  <1>1. ASSUME IndInv, [Next]_vars, NEW i \in Indexes
        PROVE  Kept(i)
    <2> DEFINE s == m_restart_workers
    <2>0. s \in Seq(Indexes) /\ DOMAIN s = 1..Len(s) /\ Len(s) \in Nat
      BY <1>1, LenProperties DEF IndInv, TypeOK
    <2>1. CASE UNCHANGED <<m_index_workers, m_restart_workers>>
      BY <2>1 DEF Registered, Listed
    <2>2. ASSUME NEW k \in Indexes, CreateDone(k) \/ CreateFails(k), Registered(i)
          PROVE  Registered(i)'
      <3>1. CASE CreateFails(k)
        BY <2>2, <3>1 DEF CreateFails, CreateNothing, CreateUnwatched, registry,
                          Registered
      <3>2. CASE CreateDone(k)
        <4>1. PICK p \in FreePids, c \in FreeFds, d \in FreeFds :
                add_worker_info(k, p, c, d)
          BY <3>2 DEF CreateDone
        <4>2. p \notin DOMAIN m_workers
          BY <1>1 DEF IndInv, PoolInv, RegistryConsistent, FreePids
        <4> QED
          BY <2>2, <4>1, <4>2 DEF add_worker_info, Registered
      <3> QED
        BY <2>2, <3>1, <3>2
    <2>3. CASE CreateWorkers
      <3>1. cursor \in Indexes /\ m_restart_workers' = m_restart_workers
        BY <1>1, <2>3 DEF CreateWorkers, IndInv, TypeOK, Indexes, ConstantsAssumption
      <3> QED
        BY <2>2, <2>3, <3>1 DEF CreateWorkers, Listed
    <2>4. CASE RestartWorkers
      <3>1. cursor \in 1..Len(s) /\ s[cursor] \in Indexes
        BY <1>1, <2>0, <2>4, ElementOfSeq DEF RestartWorkers, IndInv, TypeOK
      <3>2. Registered(i) => Registered(i)'
        BY <2>2, <2>4, <3>1 DEF RestartWorkers
      <3>3. ASSUME Listed(i)
            PROVE  (Registered(i) \/ Listed(i))'
        <4>1. PICK j \in 1..Len(s) : s[j] = i
          BY <2>0, <3>3 DEF Listed, Range
        <4>2. CASE m_restart_workers' = m_restart_workers
          BY <3>3, <4>2 DEF Listed
        <4>3. CASE /\ CreateDone(s[cursor])
                   /\ m_restart_workers' = RemoveAt(s, cursor)
          <5>1. /\ m_restart_workers' \in Seq(Indexes)
                /\ Len(m_restart_workers') = Len(s) - 1
                /\ \A l \in 1..(Len(s) - 1) :
                      m_restart_workers'[l] = IF l < cursor THEN s[l] ELSE s[l + 1]
            <6>1. m_restart_workers' = RemoveAt(s, cursor)
              BY <4>3
            <6>2. /\ RemoveAt(s, cursor) \in Seq(Indexes)
                  /\ Len(RemoveAt(s, cursor)) = Len(s) - 1
                  /\ \A l \in 1..(Len(s) - 1) :
                        RemoveAt(s, cursor)[l] = IF l < cursor THEN s[l] ELSE s[l + 1]
              BY <2>0, <3>1, RemoveAtFacts, Zenon
            <6> QED
              BY <6>1, <6>2, Zenon
          <5>2. DOMAIN m_restart_workers' = 1..(Len(s) - 1)
            BY <5>1, LenProperties
          <5>3. CASE j = cursor
            <6>1. i \in DOMAIN m_index_workers'
              BY <4>1, <4>3, <5>3 DEF CreateDone, add_worker_info
            <6> QED
              BY <6>1 DEF Registered
          <5>4. CASE j < cursor
            <6>1. j \in 1..(Len(s) - 1) /\ m_restart_workers'[j] = i
              BY <2>0, <3>1, <4>1, <5>1, <5>4
            <6> QED
              BY <5>2, <6>1 DEF Listed, Range
          <5>5. CASE j > cursor
            <6>1. j - 1 \in 1..(Len(s) - 1) /\ m_restart_workers'[j - 1] = i
              BY <2>0, <3>1, <4>1, <5>1, <5>5
            <6> QED
              BY <5>2, <6>1 DEF Listed, Range
          <5>6. j = cursor \/ j < cursor \/ j > cursor
            BY <3>1
          <5> QED
            BY <5>3, <5>4, <5>5, <5>6, Zenon
        <4> QED
          BY <2>4, <4>2, <4>3 DEF RestartWorkers
      <3> QED
        BY <3>2, <3>3
    <2>5. CASE Reap
      <3>1. PICK p \in Zombies : restart_worker(p)
        BY <2>5 DEF Reap
      <3>2. CASE p \notin DOMAIN m_workers
        BY <2>1, <3>1, <3>2 DEF restart_worker, registry
      <3>3. CASE p \in DOMAIN m_workers
        <4> DEFINE k == m_workers[p].index
        <4>1. /\ m_index_workers' = [j \in DOMAIN m_index_workers \ {k} |->
                                        m_index_workers[j]]
              /\ m_restart_workers' = Append(s, k)
              /\ k \in Indexes
          BY <1>1, <3>1, <3>3 DEF restart_worker, del_worker_info, IndexesWithout,
                                  IndInv, TypeOK, WorkerInfo
        <4>2. /\ Append(s, k) \in Seq(Indexes)
              /\ Len(Append(s, k)) = Len(s) + 1
              /\ Append(s, k)[Len(s) + 1] = k
              /\ \A j \in 1..Len(s) : Append(s, k)[j] = s[j]
          BY <2>0, <4>1
        <4>3. DOMAIN m_restart_workers' = 1..(Len(s) + 1)
          BY <4>1, <4>2, LenProperties
        <4>4. CASE i = k
          BY <2>0, <4>1, <4>2, <4>3, <4>4 DEF Listed, Range
        <4>5. CASE i # k /\ Registered(i)
          BY <4>1, <4>5 DEF Registered
        <4>6. CASE Listed(i)
          <5>1. PICK j \in 1..Len(s) : s[j] = i
            BY <2>0, <4>6 DEF Listed, Range
          <5>2. j \in 1..(Len(s) + 1) /\ m_restart_workers'[j] = i
            BY <2>0, <4>1, <4>2, <5>1
          <5> QED
            BY <4>3, <5>2 DEF Listed, Range
        <4> QED
          BY <4>4, <4>5, <4>6
      <3> QED
        BY <3>2, <3>3
    <2>6. [Next]_vars =>
            \/ CreateWorkers \/ RestartWorkers \/ Reap
            \/ UNCHANGED <<m_index_workers, m_restart_workers>>
      BY DEF Next, vars, registry, children, CreateWorkersDone, OnRepeatTimer,
             CheckSocketpairs, OnChildTerminated, ReapDone, ChanelClosed,
             AcceptServerConn, ClientClosed, WorkerExit, WorkerClosesCtrl,
             WorkerTakesConn, WorkerConnClosed
    <2> QED
      BY <1>1, <2>1, <2>3, <2>4, <2>5, <2>6
  <1>2. IndInv /\ [Next]_vars => [\A i \in Indexes : Kept(i)]_vars
    BY <1>1
  <1> QED
    BY <1>2, Invariance, PTL DEF Spec, IndexNeverForgotten
=============================================================================
