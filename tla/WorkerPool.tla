----------------------------- MODULE WorkerPool -----------------------------
(***************************************************************************)
(* The manager process and the workers it forks: Manager (manager.cpp),    *)
(* the registry WorkerDataMgr (worker_data_mgr.cpp), and of Network the    *)
(* table m_conns of the manager's connections, where every worker has the  *)
(* two channels (socketpairs) "ctrl" and "data".                           *)
(*                                                                         *)
(* The manager is one thread in an event loop, so its handlers never       *)
(* interleave with each other; pc tells which one is running.  A handler   *)
(* that loops over children or indexes takes one step per iteration,       *)
(* because workers exit, and connections end, in between.                  *)
(*                                                                         *)
(* File descriptors are numbers the kernel hands out again as soon as they *)
(* are closed, and pids are free again once the child has been waited for. *)
(* Which free number the kernel picks is left open.                        *)
(***************************************************************************)
EXTENDS Integers, Sequences, FiniteSets, SequencesExt

CONSTANTS
    worker_cnt,   \* "worker_cnt" of the configuration: indexes 1..worker_cnt
    Pids,         \* process ids the kernel can give to a child
    Fds,          \* descriptor numbers of the manager beside its listeners
    NoPid,        \* no process
    MaxClients,   \* bound: accepted node connections open at a time
    MaxFaults     \* bound: system calls that fail while creating workers

ASSUME ConstantsAssumption ==
    /\ worker_cnt \in Nat
    /\ NoPid \notin Pids
    /\ MaxClients \in Nat
    /\ MaxFaults \in Nat

VARIABLES
    m_workers,         \* pid -> worker_info_t, the live entries
    m_index_workers,   \* index -> the pid of the entry it points to
    m_restart_workers, \* indexes waiting to be forked again
    m_conns,           \* fd -> the connection open on it
    leaked,            \* fds that are open and in nobody's table
    proc,              \* pid -> state of the process
    serves,            \* pid -> index the child was forked for
    holds,             \* pid -> what the child has open on the numbers of its
                       \* channels: its ends, or another connection
    killed,            \* running children with a SIGKILL on its way
    sigchld,           \* a SIGCHLD is pending (signals coalesce: one bit)
    pc,                \* handler the manager is in
    cursor,            \* its loop variable
    faults             \* failed system calls so far

registry == <<m_workers, m_index_workers>>
children == <<proc, serves, holds, killed>>
vars == <<m_workers, m_index_workers, m_restart_workers, m_conns, leaked,
          proc, serves, holds, killed, sigchld, pc, cursor, faults>>

-----------------------------------------------------------------------------
Indexes == 1..worker_cnt
Chanels == {"ctrl", "data"}
Ends == Chanels \cup {"other"}

\* worker_info_t; payload and work_path play no part here.
WorkerInfo == [index : Indexes, ctrl_fd : Fds, data_fd : Fds]

\* What a descriptor number stands for: a channel of a child, an accepted
\* connection, or nothing.
Conn == [end : Chanels \cup {"client", "none"}, pid : Pids \cup {NoPid}]
NoConn == [end |-> "none", pid |-> NoPid]
ClientConn == [end |-> "client", pid |-> NoPid]
ChanelConn(p, e) == [end |-> e, pid |-> p]

Running(p) == proc[p] = "run"
Zombies == {p \in Pids : proc[p] = "zombie"}
Clients == {fd \in Fds : m_conns[fd] = ClientConn}
FreeFds == {fd \in Fds : m_conns[fd] = NoConn /\ fd \notin leaked}
FreePids == {p \in Pids : proc[p] = "none"}

\* Network::check_conn: some connection is open on that number.
check_conn(fd) == m_conns[fd] # NoConn

\* m_conns after Network::close_conn on each of the numbers.
CloseConns(fds) == [fd \in Fds |-> IF fd \in fds THEN NoConn ELSE m_conns[fd]]

Registered(i) == i \in DOMAIN m_index_workers
Listed(i) == i \in Range(m_restart_workers)

-----------------------------------------------------------------------------
(* WorkerDataMgr *)

\* m_workers and m_index_workers without pid's entry (del_worker_info).
WorkersWithout(p) == [q \in DOMAIN m_workers \ {p} |-> m_workers[q]]
IndexesWithout(p) ==
    [i \in DOMAIN m_index_workers \ {m_workers[p].index} |-> m_index_workers[i]]

\* Mutant: m_index_workers is left alone.
del_worker_info_KeepsIndex(p) ==
    /\ m_workers' = WorkersWithout(p)
    /\ UNCHANGED m_index_workers

del_worker_info(p) ==
    /\ m_workers' = WorkersWithout(p)
    /\ m_index_workers' = IndexesWithout(p)

\* An entry of the same pid is deleted first.
add_worker_info(i, p, c, d) ==
    LET indexes == IF p \in DOMAIN m_workers THEN IndexesWithout(p)
                                             ELSE m_index_workers
    IN  /\ m_workers' = [q \in DOMAIN m_workers \cup {p} |->
                            IF q = p
                            THEN [index |-> i, ctrl_fd |-> c, data_fd |-> d]
                            ELSE m_workers[q]]
        /\ m_index_workers' = [j \in DOMAIN indexes \cup {i} |->
                                  IF j = i THEN p ELSE indexes[j]]

-----------------------------------------------------------------------------
(* Manager::create_worker, by the way it ends *)

\* fork() returned p in the parent.
Fork(i, p) ==
    /\ proc' = [proc EXCEPT ![p] = "run"]
    /\ serves' = [serves EXCEPT ![p] = i]
    /\ holds' = [holds EXCEPT ![p] = Chanels]

CreateDone(i) ==
    \E p \in FreePids, c, d \in FreeFds :
        /\ c # d
        /\ Fork(i, p)
        /\ m_conns' = [m_conns EXCEPT ![c] = ChanelConn(p, "ctrl"),
                                      ![d] = ChanelConn(p, "data")]
        /\ add_worker_info(i, p, c, d)
        /\ UNCHANGED <<leaked, killed, faults>>

\* socketpair() or fork() failed, for want of numbers or for another reason;
\* whatever had been opened is closed again.
CreateNothing ==
    /\ \/ /\ faults < MaxFaults
          /\ faults' = faults + 1
       \/ /\ FreePids = {} \/ Cardinality(FreeFds) < 2
          /\ faults' = faults
    /\ UNCHANGED <<registry, m_conns, leaked, children>>

\* Mutant: the child of a failed registration is not killed.
CreateUnwatched_NoKill(i) ==
    /\ faults < MaxFaults
    /\ faults' = faults + 1
    /\ \E p \in FreePids, c, d \in FreeFds :
        /\ c # d
        /\ Fork(i, p)
        /\ \E lost \in {{}, {d}, {c, d}} : leaked' = leaked \cup lost
        /\ UNCHANGED <<registry, m_conns, killed>>

\* add_read_event failed and the new child is killed.  close_conn only closes
\* numbers in m_conns: the data end is not there unless its own registration
\* got as far as create_conn, the ctrl end not if its registration did not.
CreateUnwatched(i) ==
    /\ faults < MaxFaults
    /\ faults' = faults + 1
    /\ \E p \in FreePids, c, d \in FreeFds :
        /\ c # d
        /\ Fork(i, p)
        /\ killed' = killed \cup {p}
        /\ \E lost \in {{}, {d}, {c, d}} : leaked' = leaked \cup lost
        /\ UNCHANGED <<registry, m_conns>>

CreateFails(i) == CreateNothing \/ CreateUnwatched(i)

-----------------------------------------------------------------------------
(* Handlers of the manager *)

Init ==
    /\ m_workers = <<>>
    /\ m_index_workers = <<>>
    /\ m_restart_workers = <<>>
    /\ m_conns = [fd \in Fds |-> NoConn]
    /\ leaked = {}
    /\ proc = [p \in Pids |-> "none"]
    /\ serves = [p \in Pids |-> 0]
    /\ holds = [p \in Pids |-> {}]
    /\ killed = {}
    /\ sigchld = FALSE
    /\ pc = "init"
    /\ cursor = 1
    /\ faults = 0

\* create_workers: a failure is logged and the loop goes on.
CreateWorkers ==
    /\ pc = "init" /\ cursor <= worker_cnt
    /\ CreateDone(cursor) \/ CreateFails(cursor)
    /\ cursor' = cursor + 1
    /\ UNCHANGED <<m_restart_workers, sigchld, pc>>

CreateWorkersDone ==
    /\ pc = "init" /\ cursor > worker_cnt
    /\ pc' = "loop"
    /\ cursor' = 1
    /\ UNCHANGED <<registry, m_restart_workers, m_conns, leaked, children,
                   sigchld, faults>>

\* Mutant: the loop of restart_workers begins after the first entry.
OnRepeatTimer_Skips ==
    /\ pc = "loop"
    /\ pc' = "restart"
    /\ cursor' = 2
    /\ UNCHANGED <<registry, m_restart_workers, m_conns, leaked, children,
                   sigchld, faults>>

\* on_repeat_timer, up to restart_workers.
OnRepeatTimer ==
    /\ pc = "loop"
    /\ pc' = "restart"
    /\ cursor' = 1
    /\ UNCHANGED <<registry, m_restart_workers, m_conns, leaked, children,
                   sigchld, faults>>

\* Mutant: the list entry is erased whether or not the worker was created.
RestartWorkers_AlwaysErases ==
    /\ pc = "restart" /\ cursor <= Len(m_restart_workers)
    /\ \/ CreateDone(m_restart_workers[cursor])
       \/ CreateFails(m_restart_workers[cursor])
    /\ m_restart_workers' = RemoveAt(m_restart_workers, cursor)
    /\ UNCHANGED <<sigchld, pc, cursor>>

\* Mutant: the list entry stays after the worker was created.
RestartWorkers_NeverErases ==
    /\ pc = "restart" /\ cursor <= Len(m_restart_workers)
    /\ \/ CreateDone(m_restart_workers[cursor])
       \/ CreateFails(m_restart_workers[cursor])
    /\ cursor' = cursor + 1
    /\ UNCHANGED <<m_restart_workers, sigchld, pc>>

\* restart_workers, one iteration: the list entry goes only if a worker was
\* created for it.
RestartWorkers ==
    /\ pc = "restart" /\ cursor <= Len(m_restart_workers)
    /\ \/ /\ CreateDone(m_restart_workers[cursor])
          /\ m_restart_workers' = RemoveAt(m_restart_workers, cursor)
          /\ cursor' = cursor
       \/ /\ CreateFails(m_restart_workers[cursor])
          /\ m_restart_workers' = m_restart_workers
          /\ cursor' = cursor + 1
    /\ UNCHANGED <<sigchld, pc>>

\* The rest of on_repeat_timer: kill every worker whose channels check_conn
\* does not find.
CheckSocketpairs ==
    /\ pc = "restart" /\ cursor > Len(m_restart_workers)
    /\ killed' = killed \cup
          {p \in DOMAIN m_workers :
              /\ Running(p)
              /\ \/ ~check_conn(m_workers[p].ctrl_fd)
                 \/ ~check_conn(m_workers[p].data_fd)}
    /\ pc' = "loop"
    /\ cursor' = 1
    /\ UNCHANGED <<registry, m_restart_workers, m_conns, leaked, proc, serves,
                   holds, sigchld, faults>>

\* on_child_terminated: all signals since the last one count as one.
OnChildTerminated ==
    /\ pc = "loop" /\ sigchld
    /\ sigchld' = FALSE
    /\ pc' = "reap"
    /\ UNCHANGED <<registry, m_restart_workers, m_conns, leaked, children,
                   cursor, faults>>

\* Mutant: only the ctrl channel is closed.
restart_worker_KeepsData(p) ==
    IF p \in DOMAIN m_workers
    THEN /\ m_conns' = CloseConns({m_workers[p].ctrl_fd})
         /\ del_worker_info(p)
         /\ m_restart_workers' = Append(m_restart_workers, m_workers[p].index)
    ELSE UNCHANGED <<m_conns, registry, m_restart_workers>>

\* restart_worker: the connections on the channel numbers of pid's entry are
\* closed, and its index is queued.
restart_worker(p) ==
    IF p \in DOMAIN m_workers
    THEN /\ m_conns' = CloseConns({m_workers[p].ctrl_fd, m_workers[p].data_fd})
         /\ del_worker_info(p)
         /\ m_restart_workers' = Append(m_restart_workers, m_workers[p].index)
    ELSE UNCHANGED <<m_conns, registry, m_restart_workers>>

\* One waitpid() that returned a child.
Reap ==
    /\ pc = "reap"
    /\ \E p \in Zombies :
        /\ proc' = [proc EXCEPT ![p] = "none"]
        /\ serves' = [serves EXCEPT ![p] = 0]
        /\ restart_worker(p)
    /\ UNCHANGED <<leaked, holds, killed, sigchld, pc, cursor, faults>>

\* waitpid() found no more.
ReapDone ==
    /\ pc = "reap" /\ Zombies = {}
    /\ pc' = "loop"
    /\ UNCHANGED <<registry, m_restart_workers, m_conns, leaked, children,
                   sigchld, cursor, faults>>

\* A channel whose other end the child has closed, by exiting or otherwise:
\* reading or writing it fails and the manager closes its end.  The entry in
\* m_workers keeps the number.
ChanelClosed(fd) ==
    /\ pc = "loop"
    /\ m_conns[fd].end \in Chanels
    /\ m_conns[fd].end \notin holds[m_conns[fd].pid]
    /\ m_conns' = CloseConns({fd})
    /\ UNCHANGED <<registry, m_restart_workers, leaked, children, sigchld, pc,
                   cursor, faults>>

\* accept_server_conn: a connection of another node gets a free number.
AcceptServerConn(fd) ==
    /\ pc = "loop"
    /\ fd \in FreeFds /\ Cardinality(Clients) < MaxClients
    /\ m_conns' = [m_conns EXCEPT ![fd] = ClientConn]
    /\ UNCHANGED <<registry, m_restart_workers, leaked, children, sigchld, pc,
                   cursor, faults>>

\* ... and ends.
ClientClosed(fd) ==
    /\ pc = "loop" /\ m_conns[fd] = ClientConn
    /\ m_conns' = CloseConns({fd})
    /\ UNCHANGED <<registry, m_restart_workers, leaked, children, sigchld, pc,
                   cursor, faults>>

-----------------------------------------------------------------------------
(* Workers *)

\* A worker ends: a crash, a failed init, an error on its data channel, its
\* own check of the socketpairs, or SIGKILL.  The kernel closes its
\* descriptors and signals the parent.
WorkerExit(p) ==
    /\ Running(p)
    /\ proc' = [proc EXCEPT ![p] = "zombie"]
    /\ holds' = [holds EXCEPT ![p] = {}]
    /\ killed' = killed \ {p}
    /\ sigchld' = TRUE
    /\ UNCHANGED <<registry, m_restart_workers, m_conns, leaked, serves, pc,
                   cursor, faults>>

\* Worker::on_repeat_timer, which is one way to end: no connection is open on
\* the number of the ctrl channel.  (On an error of data the worker exits at
\* once.)
WorkerTimer(p) == holds[p] \cap {"ctrl", "other"} = {} /\ WorkerExit(p)

\* A worker closes its ctrl connection, after a read or a write that failed,
\* and runs on until its timer finds out.
WorkerClosesCtrl(p) ==
    /\ Running(p) /\ "ctrl" \in holds[p]
    /\ holds' = [holds EXCEPT ![p] = @ \ {"ctrl"}]
    /\ UNCHANGED <<registry, m_restart_workers, m_conns, leaked, proc, serves,
                   killed, sigchld, pc, cursor, faults>>

\* read_transfer_fd: a connection comes through the data channel and gets the
\* number that ctrl had.  Its codec is protobuf: one with http does not outlive
\* the tick, since send_to_parent writes the payload to that number, fails
\* and closes it before the check.
WorkerTakesConn(p) ==
    /\ Running(p) /\ holds[p] = {"data"}
    /\ holds' = [holds EXCEPT ![p] = @ \cup {"other"}]
    /\ UNCHANGED <<registry, m_restart_workers, m_conns, leaked, proc, serves,
                   killed, sigchld, pc, cursor, faults>>

\* ... and ends.
WorkerConnClosed(p) ==
    /\ Running(p) /\ "other" \in holds[p]
    /\ holds' = [holds EXCEPT ![p] = @ \ {"other"}]
    /\ UNCHANGED <<registry, m_restart_workers, m_conns, leaked, proc, serves,
                   killed, sigchld, pc, cursor, faults>>

-----------------------------------------------------------------------------
Next ==
    \/ CreateWorkers \/ CreateWorkersDone
    \/ OnRepeatTimer \/ RestartWorkers \/ CheckSocketpairs
    \/ OnChildTerminated \/ Reap \/ ReapDone
    \/ \E fd \in Fds : ChanelClosed(fd) \/ AcceptServerConn(fd) \/ ClientClosed(fd)
    \/ \E p \in Pids : WorkerExit(p) \/ WorkerClosesCtrl(p)
                      \/ WorkerTakesConn(p) \/ WorkerConnClosed(p)

Spec == Init /\ [][Next]_vars

\* The manager goes on with a handler it is in; the event loop comes round to
\* a pending signal and to the timer, however often other events come first
\* (libev collects all pending events in every iteration); SIGKILL kills.
Fairness ==
    /\ WF_vars(CreateWorkers \/ CreateWorkersDone \/ RestartWorkers
               \/ CheckSocketpairs \/ Reap \/ ReapDone)
    /\ SF_vars(OnRepeatTimer)
    /\ SF_vars(OnChildTerminated)
    /\ \A p \in Pids : WF_vars(p \in killed /\ WorkerExit(p))

FairSpec == Spec /\ Fairness

\* ... and besides, the timer of a worker fires while no connection is on the
\* number of ctrl, if that is so again and again.
WatchedSpec == FairSpec /\ \A p \in Pids : SF_vars(WorkerTimer(p))

-----------------------------------------------------------------------------
(* Properties *)

\* Every variable has its type; in particular the restart list only ever
\* holds configured indexes, although children that were never entered in
\* m_workers are waited for too (manager.cpp, restart_worker).
TypeOK ==
    /\ DOMAIN m_workers \subseteq Pids
    /\ m_workers \in [DOMAIN m_workers -> WorkerInfo]
    /\ DOMAIN m_index_workers \subseteq Indexes
    /\ m_index_workers \in [DOMAIN m_index_workers -> Pids]
    /\ m_restart_workers \in Seq(Indexes)
    /\ m_conns \in [Fds -> Conn]
    /\ leaked \subseteq Fds
    /\ proc \in [Pids -> {"none", "run", "zombie"}]
    /\ serves \in [Pids -> Indexes \cup {0}]
    /\ holds \in [Pids -> SUBSET Ends]
    /\ killed \subseteq Pids
    /\ sigchld \in BOOLEAN
    /\ pc \in {"init", "loop", "reap", "restart"}
    /\ cursor \in Nat \ {0}
    /\ faults \in 0..MaxFaults

\* The two maps of WorkerDataMgr describe the same workers, one per index, and
\* every entry is of a child that has not been waited for, so that its pid
\* cannot meanwhile belong to another process: kill() in on_repeat_timer never
\* hits a stranger.
RegistryConsistent ==
    /\ \A p \in DOMAIN m_workers :
          /\ Registered(m_workers[p].index)
          /\ m_index_workers[m_workers[p].index] = p
          /\ proc[p] # "none"
          /\ serves[p] = m_workers[p].index
    /\ \A i \in DOMAIN m_index_workers :
          /\ m_index_workers[i] \in DOMAIN m_workers
          /\ m_workers[m_index_workers[i]].index = i

\* No index waits twice for its restart, and none waits that has a worker:
\* restart_workers never forks a second worker for an index.
RestartOnce ==
    /\ \A j, k \in 1..Len(m_restart_workers) :
          m_restart_workers[j] = m_restart_workers[k] => j = k
    /\ \A j \in 1..Len(m_restart_workers) : ~Registered(m_restart_workers[j])

\* At any time at most one child serves an index, not counting children that
\* SIGKILL is about to end: also across a failed create_worker, a crash
\* during a restart pass, and pids that are used again.
OneWorkerPerIndex ==
    \A p, q \in {r \in Pids : Running(r)} \ killed :
        serves[p] = serves[q] => p = q

\* A child that ended is about to be waited for, however the SIGCHLDs of
\* several children merge and whenever they arrive (on_child_terminated).
ZombiesSignalled == Zombies # {} => sigchld \/ pc = "reap"

\* A channel connection in m_conns belongs to a registered worker and is on
\* the number its entry names: after restart_worker no channel of the dead
\* worker stays open in the manager.
ChanelsRegistered ==
    \A fd \in Fds : m_conns[fd].end \in Chanels =>
        LET p == m_conns[fd].pid
        IN  /\ p \in DOMAIN m_workers
            /\ fd = IF m_conns[fd].end = "ctrl" THEN m_workers[p].ctrl_fd
                                                ELSE m_workers[p].data_fd

\* An index that ever had a worker is never lost: in every step it keeps its
\* entry or its place in the restart list, or moves between the two
\* (restart_worker, restart_workers).
IndexNeverForgotten ==
    [][\A i \in Indexes :
          Registered(i) \/ Listed(i) => (Registered(i) \/ Listed(i))']_vars

\* A registered worker that died is eventually replaced by a running one with
\* its index ("delay restart of a process that has been shut down").
DeadWorkerReplaced ==
    \A i \in Indexes :
        (\E p \in DOMAIN m_workers : m_workers[p].index = i /\ ~Running(p))
        ~> (\E p \in DOMAIN m_workers : m_workers[p].index = i /\ Running(p))

-----------------------------------------------------------------------------
(* What comments and documents say, and the code does not do *)

\* Both ends of the control channel of p are closed: p hears nothing of its
\* manager any more.
CutOff(p) ==
    /\ p \in DOMAIN m_workers /\ Running(p) /\ "ctrl" \notin holds[p]
    /\ m_conns[m_workers[p].ctrl_fd] # ChanelConn(p, "ctrl")

\* manager.cpp and worker.cpp: "check socketpair between parent/children."  A
\* worker that is cut off ends: the manager's check kills it, or it exits by its
\* own.  Both look for a connection on a number, whatever it is by then
\* (check_conn).
CutOffWorkerEnds == \A p \in Pids : CutOff(p) ~> ~Running(p)
=============================================================================
