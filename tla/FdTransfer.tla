----------------------------- MODULE FdTransfer -----------------------------
(***************************************************************************)
(* How a client connection accepted on the gate port gets to a worker:     *)
(* Network::accept_and_transfer_fd and check_wait_send_fds in the manager, *)
(* write_channel and read_channel over the data channel (net/chanel.cpp),  *)
(* Network::read_transfer_fd in the worker, and the round robin of         *)
(* WorkerDataMgr::get_next_worker_data_fd, while workers die and are       *)
(* forked again.                                                           *)
(*                                                                         *)
(* A connection is open as long as some process holds a descriptor of it.  *)
(* Passing a descriptor copies it: the manager still has to close its own. *)
(* Descriptor numbers are the subject of WorkerPool; here a connection is  *)
(* named by its identity, and copies that a process holds without knowing  *)
(* of them (a worker forked while connections are queued inherits those)   *)
(* are not followed.                                                       *)
(***************************************************************************)
EXTENDS Integers, Sequences, FiniteSets, SequencesExt

CONSTANTS
    Workers,    \* worker indexes
    Conns,      \* client connections
    ChanelCap   \* bound: descriptors a data channel takes before EAGAIN

ASSUME ConstantsAssumption ==
    /\ IsFiniteSet(Workers)
    /\ ChanelCap \in Nat \ {0}

VARIABLES
    backlog,          \* connections not accepted yet
    m_wait_send_fds,  \* the manager's queue of [conn, count] to send again
    chanel,           \* worker -> connections in its data channel
    m_conns,          \* worker -> connections it serves
    m_workers,        \* the registered workers in the order of the map
    m_itr_worker,     \* position of the round robin in it
    up,               \* workers whose process runs
    pc,               \* "loop", or the part of on_repeat_timer: "resend", "restart"
    cursor,           \* loop variable of check_wait_send_fds
    round             \* history: workers chosen in the current round

vars == <<backlog, m_wait_send_fds, chanel, m_conns, m_workers,
          m_itr_worker, up, pc, cursor, round>>

MaxResend == 3

-----------------------------------------------------------------------------
Entry == [conn : Conns, count : 0..(MaxResend - 1)]
Waiting == {m_wait_send_fds[j].conn : j \in 1..Len(m_wait_send_fds)}

\* get_next_worker_data_fd moves the iterator on, then uses it.
\* Mutant: the iterator is not wrapped round in time.
NextPos_SkipsFirst == IF m_itr_worker < Len(m_workers) THEN m_itr_worker + 1
                      ELSE IF Len(m_workers) > 1 THEN 2 ELSE 1

NextPos == IF m_itr_worker < Len(m_workers) THEN m_itr_worker + 1 ELSE 1
get_next_worker == m_workers[NextPos]

NextRound(w) == IF round \cup {w} = Range(m_workers) THEN {} ELSE round \cup {w}

RoundRobin ==
    /\ m_itr_worker' = NextPos
    /\ round' = NextRound(get_next_worker)

\* The results write_channel can have on w's channel.  Writing to a channel
\* whose worker has died fails; and so, for the client, does writing to its
\* number after the manager has closed it.
CanSend(w) == w \in up /\ Len(chanel[w]) < ChanelCap
MustWait(w) == w \in up /\ Len(chanel[w]) >= ChanelCap
Broken(w) == w \notin up

-----------------------------------------------------------------------------
Init ==
    /\ backlog = Conns
    /\ m_wait_send_fds = <<>>
    /\ chanel = [w \in Workers |-> <<>>]
    /\ m_conns = [w \in Workers |-> {}]
    /\ m_workers \in SetToSeqs(Workers)
    /\ m_itr_worker = 1
    /\ up = Workers
    /\ pc = "loop"
    /\ cursor = 1
    /\ round = {}

\* Mutant: the manager keeps a connection in the queue that it has also sent.
AcceptAndTransfer_QueuesToo(k) ==
    /\ pc = "loop" /\ k \in backlog
    /\ backlog' = backlog \ {k}
    /\ m_workers # <<>>
    /\ RoundRobin
    /\ CanSend(get_next_worker)
    /\ chanel' = [chanel EXCEPT ![get_next_worker] = Append(@, k)]
    /\ m_wait_send_fds' = Append(m_wait_send_fds, [conn |-> k, count |-> 0])
    /\ UNCHANGED <<m_conns, m_workers, up, pc, cursor>>

\* accept_and_transfer_fd: the manager closes its copy unless the channel is
\* full, in which case the connection is queued.
AcceptAndTransfer(k) ==
    /\ pc = "loop" /\ k \in backlog
    /\ backlog' = backlog \ {k}
    /\ \/ /\ m_workers = <<>>
          /\ UNCHANGED <<m_wait_send_fds, chanel, m_itr_worker, round>>
       \/ /\ m_workers # <<>>
          /\ RoundRobin
          /\ \/ /\ CanSend(get_next_worker)
                /\ chanel' = [chanel EXCEPT ![get_next_worker] = Append(@, k)]
                /\ UNCHANGED m_wait_send_fds
             \/ /\ Broken(get_next_worker)
                /\ UNCHANGED <<m_wait_send_fds, chanel>>
             \/ /\ MustWait(get_next_worker)
                /\ m_wait_send_fds' = Append(m_wait_send_fds, [conn |-> k, count |-> 0])
                /\ UNCHANGED chanel
    /\ UNCHANGED <<m_conns, m_workers, up, pc, cursor>>

\* Manager::on_repeat_timer calls Network's, and that check_wait_send_fds.
CheckWaitSendFds ==
    /\ pc = "loop"
    /\ pc' = "resend"
    /\ cursor' = 1
    /\ UNCHANGED <<backlog, m_wait_send_fds, chanel, m_conns, m_workers,
                   m_itr_worker, up, round>>

ResendDone(w, e) ==
    /\ CanSend(w)
    /\ chanel' = [chanel EXCEPT ![w] = Append(@, e.conn)]
    /\ m_wait_send_fds' = RemoveAt(m_wait_send_fds, cursor)
    /\ UNCHANGED cursor

ResendBroken(w) ==
    /\ Broken(w)
    /\ m_wait_send_fds' = RemoveAt(m_wait_send_fds, cursor)
    /\ UNCHANGED <<chanel, cursor>>

\* Mutant: the attempts are not counted.
ResendAgain_NoCount(w, e) ==
    /\ MustWait(w)
    /\ cursor' = cursor + 1
    /\ UNCHANGED <<chanel, m_wait_send_fds>>

\* EAGAIN: the third time the connection is given up.
ResendAgain(w, e) ==
    /\ MustWait(w)
    /\ IF e.count + 1 >= MaxResend
       THEN /\ m_wait_send_fds' = RemoveAt(m_wait_send_fds, cursor)
            /\ UNCHANGED cursor
       ELSE /\ m_wait_send_fds' = [m_wait_send_fds EXCEPT ![cursor].count = @ + 1]
            /\ cursor' = cursor + 1
    /\ UNCHANGED chanel

\* One iteration of check_wait_send_fds.
Resend ==
    /\ pc = "resend" /\ cursor <= Len(m_wait_send_fds) /\ m_workers # <<>>
    /\ RoundRobin
    /\ \/ ResendDone(get_next_worker, m_wait_send_fds[cursor])
       \/ ResendBroken(get_next_worker)
       \/ ResendAgain(get_next_worker, m_wait_send_fds[cursor])
    /\ UNCHANGED <<backlog, m_conns, m_workers, up, pc>>

\* It ends with the queue, or at once when no worker is registered;
\* restart_workers comes next.
ResendEnd ==
    /\ pc = "resend" /\ (cursor > Len(m_wait_send_fds) \/ m_workers = <<>>)
    /\ pc' = "restart"
    /\ cursor' = 1
    /\ UNCHANGED <<backlog, m_wait_send_fds, chanel, m_conns, m_workers,
                   m_itr_worker, up, round>>

-----------------------------------------------------------------------------
(* The life of workers, as far as it matters here; see WorkerPool *)

\* The kernel closes the worker's descriptors and those still in its channel.
WorkerExit(w) ==
    /\ w \in up
    /\ up' = up \ {w}
    /\ chanel' = [chanel EXCEPT ![w] = <<>>]
    /\ m_conns' = [m_conns EXCEPT ![w] = {}]
    /\ UNCHANGED <<backlog, m_wait_send_fds, m_workers, m_itr_worker, pc, cursor, round>>

\* restart_worker: del_worker_info resets the iterator.
RestartWorker(w) ==
    /\ pc = "loop" /\ w \notin up
    /\ \E i \in DOMAIN m_workers : /\ m_workers[i] = w
                                  /\ m_workers' = RemoveAt(m_workers, i)
    /\ m_itr_worker' = 1
    /\ round' = {}
    /\ UNCHANGED <<backlog, m_wait_send_fds, chanel, m_conns, up, pc, cursor>>

\* restart_workers forks the worker again.  The order of an unordered_map may
\* be any after an insertion.
CreateWorker(w) ==
    /\ pc = "restart" /\ w \notin Range(m_workers)
    /\ up' = up \cup {w}
    /\ m_workers' \in SetToSeqs(Range(m_workers) \cup {w})
    /\ m_itr_worker' = 1
    /\ round' = {}
    /\ UNCHANGED <<backlog, m_wait_send_fds, chanel, m_conns, pc, cursor>>

\* The timer is done; workers it could not create have to wait for the next.
RestartWorkersEnd ==
    /\ pc = "restart"
    /\ pc' = "loop"
    /\ UNCHANGED <<backlog, m_wait_send_fds, chanel, m_conns, m_workers,
                   m_itr_worker, up, cursor, round>>

-----------------------------------------------------------------------------
(* Workers *)

\* Mutant: a worker reads a channel that is not its own, its end of which it
\* inherited.
ReadTransferFd_AnyChanel(w) ==
    \E v \in Workers :
        /\ w \in up /\ chanel[v] # <<>>
        /\ chanel' = [chanel EXCEPT ![v] = Tail(@)]
        /\ m_conns' = [m_conns EXCEPT ![w] = @ \cup {Head(chanel[v])}]
        /\ UNCHANGED <<backlog, m_wait_send_fds, m_workers, m_itr_worker, up, pc,
                       cursor, round>>

\* One iteration of read_transfer_fd: the connection is served, or, when it
\* cannot be set up, dropped (closed if it got as far as m_conns).
ReadTransferFd(w) ==
    /\ w \in up /\ chanel[w] # <<>>
    /\ chanel' = [chanel EXCEPT ![w] = Tail(@)]
    /\ \/ m_conns' = [m_conns EXCEPT ![w] = @ \cup {Head(chanel[w])}]
       \/ UNCHANGED m_conns
    /\ UNCHANGED <<backlog, m_wait_send_fds, m_workers, m_itr_worker, up, pc,
                   cursor, round>>

\* close_conn in the worker: the client is done, or the io timer expired.
CloseConn(w, k) ==
    /\ k \in m_conns[w]
    /\ m_conns' = [m_conns EXCEPT ![w] = @ \ {k}]
    /\ UNCHANGED <<backlog, m_wait_send_fds, chanel, m_workers,
                   m_itr_worker, up, pc, cursor, round>>

-----------------------------------------------------------------------------
Next ==
    \/ \E k \in Conns : AcceptAndTransfer(k)
    \/ CheckWaitSendFds \/ Resend \/ ResendEnd \/ RestartWorkersEnd
    \/ \E w \in Workers :
          \/ WorkerExit(w) \/ RestartWorker(w) \/ CreateWorker(w)
          \/ ReadTransferFd(w)
          \/ \E k \in Conns : CloseConn(w, k)

Spec == Init /\ [][Next]_vars

\* The manager's timer fires again and again, whatever else the loop has to
\* do, and its handler goes on.  Nothing is assumed of clients, and not that
\* workers read their channel or stay alive.
Fairness ==
    /\ SF_vars(CheckWaitSendFds)
    /\ WF_vars(Resend \/ ResendEnd \/ RestartWorkersEnd)

FairSpec == Spec /\ Fairness

-----------------------------------------------------------------------------
(* Properties *)

\* Every variable has its type; the count of a queued connection stays below
\* the number of attempts check_wait_send_fds allows.
TypeOK ==
    /\ backlog \subseteq Conns
    /\ m_wait_send_fds \in Seq(Entry)
    /\ chanel \in [Workers -> Seq(Conns)]
    /\ m_conns \in [Workers -> SUBSET Conns]
    /\ m_workers \in Seq(Workers)
    /\ m_itr_worker \in Nat
    /\ up \subseteq Workers
    /\ pc \in {"loop", "resend", "restart"}
    /\ cursor \in Nat
    /\ round \subseteq Workers

InChanel(w) == Range(chanel[w])

\* A connection is with one party only: in the backlog, in the manager's
\* queue, or with one worker, in its channel or in its table, and there once.
\* Otherwise two workers would answer one client (accept_and_transfer_fd,
\* check_wait_send_fds: the manager must drop what it has sent).
OneOwner ==
    /\ TypeOK
    /\ backlog \cap Waiting = {}
    /\ \A w \in Workers :
          /\ (InChanel(w) \cup m_conns[w]) \cap (backlog \cup Waiting) = {}
          /\ InChanel(w) \cap m_conns[w] = {}
          /\ IsInjective(chanel[w])
    /\ \A v, w \in Workers :
          v # w => (InChanel(v) \cup m_conns[v]) \cap (InChanel(w) \cup m_conns[w]) = {}
    /\ \A i, j \in DOMAIN m_wait_send_fds :
          m_wait_send_fds[i].conn = m_wait_send_fds[j].conn => i = j

\* A worker process that is not registered has nothing sent to it, and the
\* iterator of a non-empty registry always points into it: the increment in
\* get_next_worker_data_fd never leaves the end of the map behind.
IteratorValid ==
    /\ m_workers # <<>> => m_itr_worker \in 1..Len(m_workers)
    /\ IsInjective(m_workers)
    /\ up \subseteq Range(m_workers)

\* ... and while the registry does not change, every worker is chosen once
\* before any is chosen twice (round robin of get_next_worker_data_fd).
RoundRobinFair ==
    []IteratorValid /\ [][m_workers' = m_workers /\ m_itr_worker' # m_itr_worker
          => m_workers[m_itr_worker'] \notin round]_vars

\* Who owns k.
OwnerOf(k) ==
    CASE k \in backlog -> <<"backlog">>
      [] k \in Waiting -> <<"manager">>
      [] \E w \in Workers : k \in InChanel(w) \cup m_conns[w] ->
            <<"worker", CHOOSE w \in Workers : k \in InChanel(w) \cup m_conns[w]>>
      [] OTHER -> <<"gone">>

Handoff == INSTANCE ConnHandoff WITH owner <- [k \in Conns |-> OwnerOf(k)]

\* The gate implements ConnHandoff: a connection goes from the manager to one
\* worker, and never back, on, or into two.
ImplementsHandoff == Handoff!Spec

\* Again and again the timer finds a worker registered: the workers do not
\* crash so fast that the registry is empty every time.
PoolComesBack == []<>(pc = "resend" /\ m_workers # <<>>)

\* A connection that the manager had to queue does not stay there: it is sent
\* or closed after at most MaxResend passes of check_wait_send_fds that find a
\* worker, even if every channel stays full.
QueueDrains == PoolComesBack => \A k \in Conns : k \in Waiting ~> k \notin Waiting
=============================================================================
