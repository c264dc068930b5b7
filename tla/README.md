# A TLA+ model of kimserver

kimserver is an asynchronous server framework: one **manager** process accepts
connections and forks **workers**; each worker runs one libev loop, serves
clients over TCP or HTTP with commands written in modules, and talks to redis,
mysql and the workers of other nodes. The nodes of a cluster find each other
through zookeeper. This directory models the parts of it in which the order of
events decides, checks them with TLC and proves theorems about them with TLAPS.

All paths below are relative to `src/src/core/` of the repository.

## 1. The system

| part | source | state | operations | talks to |
|---|---|---|---|---|
| Manager | `manager.cpp` | restart list `m_restart_workers` | create, restart, reap and check workers | workers by fork, signal, socketpair |
| WorkerDataMgr | `worker_data_mgr.cpp` | `m_workers` by pid, `m_index_workers` by index, round robin iterator | add, delete, look up, next worker | used by Manager and Network |
| Network in the manager | `network.cpp`, `net/chanel.cpp` | `m_conns`, `m_wait_send_fds` | accept node connections, accept and pass on client connections, send again | workers over data channels |
| Network in a worker | `network.cpp`, `module.cpp`, `module_mgr.cpp`, `cmd.cpp` | `m_conns`, `m_cmds`, timers, `m_seq` | take connections over, run commands, callbacks, timers | clients, redis, mysql, nodes |
| Nodes | `nodes.cpp` | `m_zk_nodes`, `m_host_zk_paths`, `m_nodes`, hash ring, `m_version` | add, delete, clear, find by hash | used by ZkClient, SysCmd, Network |
| SysCmd | `sys_cmd.cpp` | timer index | messages between manager and workers; handshake between nodes | control channels |
| ZkClient, Bio | `zk_client.cpp`, `zookeeper/` | flags of the session, the register timer, two queues between threads | register, watch, handle results, report payload | zookeeper, Nodes, SysCmd |
| Connection, codecs, parser | `connection.cpp`, `codec/`, `util/socket_buffer.*`, `util/http/` | three buffers, state, activity time, the codec's version and keep-alive | read, write, decode, encode | sockets, Network |
| auto_send | `network.cpp`, `sys_cmd.cpp` | `m_node_conns`, waiting buffer | connect to a worker of another node | other nodes |
| MysqlAsyncConn, DBMgr | `db/` | connection state, task queue; lists of connections with iterators | connect, query, ping, reconnect; choose a connection | mysql, commands |
| RedisContext, RedisMgr | `redis/` | connection state, waiting tasks, table of connections | connect, send, reconnect, close | hiredis, commands |
| SessionMgr | `session.cpp` | sessions and their timers | add, get, delete, time out | commands |
| Events, server, configuration, log, utilities | `events.cpp`, `server.cpp`, `util/` | watchers, settings | start, watch, log | all |

Each process is one thread (but the manager has the Bio thread and those of the
zookeeper library besides), so a handler is atomic with respect to the handlers of
its own process. What is hard is what happens *between* handlers:

* children die at any time, SIGCHLDs merge, and `create_worker` can fail half
  way, before or after the fork;
* descriptor numbers and pids are used again while tables still hold the old
  ones;
* a channel is full (`EAGAIN`) or its reader is dead when a connection is to
  be passed on;
* a client goes away while its command waits for an answer that may be late or
  never come, and the timers of both run;
* a connection to another node is handed from its manager to its worker while
  messages for it queue up, and each step of the handshake can fail;
* a mysql connection is lost with tasks queued, and a timer pings it meanwhile;
* messages about cluster nodes cross the answers to sync requests; a restarted
  worker has missed all of them;
* three threads meet around zookeeper: events, blocking calls and results are
  queued, and the session may end, or the timer begin a registration again,
  while any of them waits;
* TCP delivers messages in any parts, and buffers grow and shrink meanwhile;
* redis refuses or drops a connection with tasks waiting for it and others sent;
* a connection of a pool does not take a task, and commands and sessions are
  left to their timers.

Correct, for each part, is:

* **Manager and registry**: the two maps agree; an index has at most one worker
  that stays; no index is lost or restarted twice; dead workers are replaced.
* **Passing on connections**: a connection is in one place, goes to one worker,
  and does not wait for ever; workers take turns.
* **Commands**: a reply goes to the connection that asked, at most once; every
  waiting command has a timer and ends; a silent connection is closed.
* **Nodes**: the maps agree, an old registration does not replace a new one, and
  workers come to know what the manager knows; the ring leads to registered
  workers only, and keys stay with their worker when others come and go.
* **Registration**: the node is registered once, again after its session expired,
  and its table is what zookeeper holds.
* **Messages**: what a module handles is what a client sent, complete and in
  order, and so are the answers.
* **Connections between nodes**: messages arrive in order, at the worker they are
  for, and not before the handshake is done; they do leave, and a handshake ends.
* **MysqlAsyncConn, redis**: one callback for each task, in order, with its own
  result, and in the end.
* **Pools and sessions**: connections are used in turn; a command says what is
  true of the database or of a session, and ends; sessions end.

`PROJECT.json` lists the hazards line by line with the properties that address
them.

## 2. The modules

| module | models | extends |
|---|---|---|
| `WorkerPool` | Manager, WorkerDataMgr, the manager's channels | |
| `ConnHandoff` | what passing on a connection promises (abstract) | |
| `FdTransfer` | accept, transfer, resend, take over | instantiates `ConnHandoff` |
| `CmdTable` | connections, commands and timers of one worker | |
| `NodeTable` | Nodes, with its hash ring, as a value with operations | |
| `NodeSync` | manager, workers and zookeeper around `NodeTable` | `NodeTable` |
| `NodeConn` | connections between workers of different nodes and their send buffers | |
| `ZkSession` | ZkClient, Bio and the zookeeper session of a manager | `NodeTable`; instantiates `NodeSync` |
| `MysqlConn` | MysqlAsyncConn | |
| `TaskQueue` | what an asynchronous client promises a command (abstract) | |
| `RedisConn` | RedisMgr, RedisContext and a command that uses them | instantiates `TaskQueue` |
| `DbPool` | DBMgr, SessionMgr and a command that uses them | |
| `SocketBuffer`, `HttpParser` | the buffer and the parser as values with operations | |
| `MsgStream` | Connection's reads and writes, both codecs, the loops that handle messages | `SocketBuffer`, `HttpParser` |
| `WorkerPool_proofs`, `CmdTable_proofs`, `FdTransfer_proofs`, `RedisConn_proofs`, `MysqlConn_proofs`, `NodeConn_proofs`, `NodeSync_proofs`, `DbPool_proofs` | theorems, after the facts about sequences that they need | the component, `TLAPS` |
| `MC...` | constant values for TLC | the component |

An operator whose comment begins with *Mutant* is a wrong version of the one
that follows it. `PROJECT.json` names for each property a mutant that breaks it.

### WorkerPool

`m_workers` maps pids to `worker_info_t`, `m_index_workers` maps indexes to
pids, `m_restart_workers` is the list, `m_conns` says what each descriptor
number of the manager is: a channel of a pid, a node connection or nothing.
`leaked` holds numbers that are open but unknown to `m_conns`. `proc` is what the
kernel knows of each pid (none, running, zombie), `serves` the index it was
forked for, `holds` the channel ends it has open, `killed` the condemned ones.

Handlers that fork or wait in a loop are split at each iteration
(`CreateWorkers`, `RestartWorkers`, `Reap`), with `pc` and a loop variable,
because a child can die between two of them; the others are one action.
`CreateDone`, `CreateNothing` and `CreateUnwatched` are the outcomes of
`create_worker`: everything succeeds; nothing is left; the child was forked but
its channel cannot be watched, so it is killed and the index stays on the list.
The check of the socketpairs at the end of the timer looks up the recorded
*numbers*, as the code does. So does the worker's own check (`WorkerTimer`, one way
to end): `holds` is what a child has on the numbers of its channels, `other` being a
connection with the protobuf codec that it took over on the number of a closed `ctrl`.

### FdTransfer and ConnHandoff

A connection has an identity instead of a number. `chanel` is what is in each
data channel, `m_wait_send_fds` the queue with the count of attempts. `Resend` is
one iteration of `check_wait_send_fds`, with the three results of
`write_channel`: sent, broken, full. After three attempts the connection is
closed. The order of the `unordered_map` after an insertion is any.

`ConnHandoff` says that a connection goes from the backlog to the manager, into
one worker's channel, to that same worker, and is gone in the end; it may be
dropped on the way, but never goes back or changes its worker. `FdTransfer`
implements it with the refinement mapping `OwnerOf`.

Left out: descriptors that a forked worker inherits without knowing of them.

### CmdTable

Ids of connections and commands come from one sequence, as in the code. `calls`
is what was sent to redis, mysql or another node and is not answered. Time is
reduced to what timers ask: was there activity since the timer was set?
`RequestRunning` is a command that returned `RUNNING`; `CallbackLate`,
`CallbackNext` and `CallbackDone` are the fates of an answer; `CallLost` is an
answer that never comes. The history variables `asker` and `replies` record who
asked and who got replies.

### NodeTable and NodeSync

A zookeeper path stands for the `zk_node` stored under it: a node writes its data
once, and a node that registers again has a new path and a later time.
`check_zk_node_host` also removes the older path, and `add_node` and `del_node`
count the version up once for each worker of a node, as the code does; `clear`
leaves the version alone. In `NodeSync` the manager hears of zookeeper in any
order, may handle data that it read before a node went, broadcasts what it
accepts, and answers sync requests with the version *of the request*. A worker
can be restarted, with an empty table and new channels.

The ring maps points to workers. `vnodes` gives each worker the points that its
virtual nodes hash to; two workers may share a point (`Collisions`), and then
`add_nodes` leaves it to the one that has it, while `del_nodes` erases it whoever
has it, as `m_vnodes` does. `get_node_in_hash` is the `lower_bound` with its wrap.
`KeysStay` speaks of the workers that the ring of a type has: a host that registers
again with another type has left the ring of the first one.

`Loading` is the loop that loads a table, with the paths that `add_zk_node`
accepted: `Load` is the table, `Accepted` what on_zk_register passes to the workers.
`Following`, of `BroadcastsSuffice`, applies the broadcasts under way to a worker
and passes over the answers to its sync requests.

Left out: the branch of `add_zk_node` for a known path whose data changed, which
no node causes.

### ZkSession

`zookeeper`, `filled` and `parents` are the server; `session` and `link` what the
server and the library think of the session; `watch` the watches that are set and
`pending` the events that a lost connection holds back. `req` and `ack` are the
queues of the Bio thread, `batch` what `handle_acks` has fetched and handles.
A registration is several blocking calls, and each is a step (`RegisterCheck` to
`RegisterRead`): nodes come and go, the connection is lost and the session expires
between them, and every call can fail or (`RegisterCreateLost`) succeed without
its answer. `missed` is a history: a watch could not be set, which the code
does not try again before the next registration. `slow` counts registrations that
the timer begins while another is unfinished. Every step that changes the table
is a step of `NodeSync` without workers (`ImplementsNodeSync`), so what `NodeSync`
assumes of zookeeper's notifications is what `ZkClient` makes of them.

Left out: the loading of configuration, access control, and reports of payload by
the workers; the payload itself is written at most `MaxPayloads` times.

### NodeConn

A connection is one record for both ends. `state`, `wait`, `send` and `write` are
the state, the two send buffers and the write event of A1, the worker that
connects; `up` and `down` are what the socket holds; `at` is who has the other
end: the manager B0, the channel to the worker, the worker B1, or nobody.
`handle_write_events` is the set of results of a write: any part of the buffer
that `conn_write` chooses (`sbuf`) goes, as far as the socket has room.
`AutoSend`, `SendWaiting` and `SendConnected` are the branches of `send_to_node`.
`OnReqConnect` answers first and then passes the connection on or fails to, as the
code does. `OnUnknown` is a manager that reads a request it has no handler for:
`process_tcp_msg` turns to the modules, which a manager does not load, and the
process ends. `given` and `got` are histories.

Left out: nodes with several workers, a worker that sends to itself, the buffers
of the other end (its two answers are the first bytes written into a new socket),
and parts of messages, since a stream does not tell them apart.

### MysqlConn

The handlers of `MysqlAsyncConn` call each other, so every method is an operator
from a connection to the set of connections it can end in; the four actions are
what calls in from outside. `Errors` is what the library may report: a lost
server, which makes the code reconnect, or another error. `flags` are `m_reading`
and `m_writing`, `events` what the libev watcher waits for (nothing if it is
stopped), `called` that the current task's callback was cleared.

### RedisConn and TaskQueue

`replies` and `live` are hiredis: the requests without an answer and the context
that is not freed. `m_wait_tasks` are tasks taken before the connection was made.
hiredis calls back for every request of a lost connection and then for the
connection; the callback for a disconnection in the code is the one for a
connection that failed, and so calls back for the waiting tasks too. A command
that is called back may send its next task at once, which connects again.
If that is refused, the connection is deleted but stays in the table: `conn` is
`deleted`, and what a later look-up does is undefined (`Undefined` lets it
succeed or fail without effect). `TaskQueue` says that tasks are called back
once and in order; `RedisConn` implements it with the requests sent, followed by
those that wait, as the queue.

### DbPool

`m_conns` has a list of connections for each identity, and `iter` is the place of
its iterator, 0 where the code sets it into another list. A connection is what
`MysqlConn` shows: it takes tasks while it is up, calls back in order, may be lost
with tasks, and may leave them. A callback with an error may be of a statement that
mysql has run. `refused` records commands whose task was not
taken; `handle_sql` does not tell them, and they wait for their timers.
Sessions carry what their timer asks: were they activated since it started?

### SocketBuffer, HttpParser and MsgStream

A buffer is its memory up to the write index, its capacity and its read index;
the operations move and copy as the code does. The parser works on words (a
method, a URL, a header, a byte of a body, the end of a line) instead of
characters, and has the states in which words differ; a word cut in two is not
distinguished from one that has not arrived, because `CodecHttp::decode` parses a
buffer from its start until a message is complete. `MsgStream` is one connection:
the client's requests, what is under way in both directions (`up`, `down`), the two
buffers, the state of the codec, the messages that modules got (`handled`) and
have still to answer (`owed`). A transfer moves everything that there is, or a
part: `MaxParts` bounds the parts, in all their sizes.

Left out: the parts of a URL, limits of sizes, compression, and requests that the
server itself encodes for http, which nothing sends.

## 3. What is checked

| run | question | bounds | result |
|---|---|---|---|
| `worker_pool` | do registry, list, processes and channels stay in step? is a dead worker replaced, after a failed restart and with its numbers taken? | 1 index, 3 pids, 5 numbers, 1 node connection, 1 failed creation | holds |
| `worker_pool_stale` | does a worker whose control channel is closed end? | 2 workers with 4 numbers | **violated** |
| `fd_transfer` | one place, one worker, fair turns, implements `ConnHandoff`? does the queue drain? | 3 workers, 3 connections, channels of 1 | holds |
| `cmd_table` | do replies go where they belong, do timers match, do commands end, are silent connections closed? | 1 number, 4 ids, 2 steps | holds |
| `node_sync` | do tables and rings stay consistent and follow the manager? do keys stay? | 3 paths on 2 hosts, 5 points of which two workers share one, 1 worker, versions up to 4, 2 messages, 1 restart | holds |
| `node_sync_restart` | does a worker learn the nodes? | 1 path, 1 worker, 1 restart | **violated** |
| `mysql_conn` | one callback per task, in order, with its result, and in the end? | 4 tasks, all errors | holds |
| `node_conn` | order, addressee, write event and table of connections right? do handshakes end? | 2 workers, 2 connections, 3 messages, room for 2 | holds |
| `zk_session` | is the node registered once and again? does its table follow zookeeper, by steps of `NodeSync`? | 3 paths, 2 of them its own, 2 types, 1 lost connection, a tick of 1, 2 results in a batch, 1 overtaken registration, 1 payload | holds |
| `redis_conn` | one callback per task, in order and in the end? true answers? no freed context? | 4 commands, 3 connections | holds |
| `msg_stream` | are messages and answers what was sent, in whatever parts? do waiting clients get answers? | 7 sequences of 2 or 3 requests for 3 kinds of client, 3 partial transfers, buffers of 4 units at first, given back from 7 | holds |
| `db_pool` | are connections used in turn? are answers true? do commands and sessions end? | 4 commands, 2 names of one database, 2 connections, 1 loss | holds |

The type invariants of `WorkerPool` and `CmdTable` are proved, not run; in the
other modules `TypeOK` is the first conjunct of an invariant that is run.

Why the bounds are enough. Three pids let a condemned child and its replacement
coexist and die together; five numbers are those of two workers and a node
connection, so that a freed number is taken at once, and one failed restart, which
leaks two, still leaves some; the theorems extend the safety properties to any
number of indexes. Channels of one descriptor make `EAGAIN` as common as success,
and with three connections one is tried three times while others fill the
channels. Four ids are a client, its command, the client that gets its number, and
that one's command (theorems again cover any number). Two paths on one host are a
registration and its successor, in `node_sync` with fewer workers, in `zk_session`
after a session that expired; the other path comes and goes at any time. The code
waits 9 ticks before it registers again and fetches 100 results at a time; 1 and 2
make both limits matter. Three messages are one in the waiting buffer, one in the
send buffer and one more, and a socket with room for two makes writes partial; two
connections are a broken one and its successor. Four tasks for mysql are one that
is worked on, one queued, and two added after an idle or a lost connection. Four
commands for redis (one reads, two write, one does both) on three connections are
tasks that wait, tasks that were sent, and tasks of callbacks, for a connection, a
lost one and a refused one. Buffers that begin with 4 units and give memory back
from 7 on are smaller than a request, so that they grow and shrink within one; with
three partial transfers two requests are cut at every pair of places and an answer
at one more. The requests have bodies with a length and in chunks, both keep-alives, an upgrade,
HTTP/0.9, a spoilt request and one without a handler.

Deadlock is checked for WorkerPool, FdTransfer and MysqlConn. It is not for
CmdTable, where a worker without connections rests once the ids are used up, nor
for NodeSync and ZkSession, where nothing happens any more after the bounds on
versions, losses and paths, nor for NodeConn, RedisConn, MsgStream and DbPool,
where nothing is left to do once messages, requests or commands are used up.

### The violations

* **A number is not a channel** (`manager.cpp:156`, `worker.cpp:130`). A worker closes
  its end of the control channel, and the manager the other one. Another worker is
  restarted and one of its channels gets the manager's number; a connection with the
  protobuf codec (of a client of a protobuf gate, or of another node) that the manager
  hands over gets the worker's. Both sides check the socketpair by looking for a connection on
  the number, so neither finds anything as long as these two connections are open:
  the worker goes on serving connections, without a control channel. At every tick the
  worker writes its report of payload to that number (`send_to_parent`), which counts
  as activity, so its timer does not close the connection. With the http codec there
  is no such case: the report fails and closes the connection (`network.cpp:1153`)
  just before the check, and the worker exits. Both numbers have to be taken: `CutOffWorkerEnds` holds for one worker without node
  connections (the manager then kills it), and without `WorkerTakesConn` (it then
  exits by its own check); in both cases it is replaced.
* **A sync brings nothing to a restarted worker** (`sys_cmd.cpp:407`). The answer
  carries the request's version, and the worker loads it only if the version
  differs from its own, which is what it asked with.
The models also contain the following, for which no run is kept:

* A sync can take everything (`sys_cmd.cpp:442`): if the versions agree the answer
  has no nodes; a worker that applied a broadcast between asking and the answer
  has another version, clears its table and loads nothing. `BroadcastsSuffice` is
  therefore about workers that loaded no answer.
* An idle mysql connection stays idle (`db/mysql_async_conn.cpp:452`): without a
  task the watcher is stopped, but `m_writing` stays set, and `active_ev_io` starts
  the watcher only when a flag changes. The next task waits until the connection
  is lost; `WatchedTasksAnswered` is about a watcher that waits.
* The send buffer is forgotten (`connection.cpp:107`, `network.cpp:1271`): a write
  that empties the waiting buffer removes the write event, although a message sent
  after the handshake is in the send buffer.
* `create_workers` (`manager.cpp:285`) ignores a failure, and only workers that
  were registered can enter the restart list: an index whose first creation fails
  has no worker. `IndexNeverForgotten` is therefore about indexes that had one.
* `on_req_tell_worker` (`sys_cmd.cpp:264`) enters the connection of A1 under B1's
  own id, since A1's data have been overwritten by then, and `close_conn` does not
  know of the entry. `NodeConnsRight` is therefore about the ids of other nodes.
* `on_req_connect_to_worker` (`sys_cmd.cpp:203`) says ok before it passes the
  connection on; if that fails, the manager gets CMD_REQ_TELL_WORKER
  (`OnUnknown`). `HandshakeEnds` holds in spite of it, by A1's timer.
* A ping that succeeds at once (`db/mysql_async_conn.cpp:344`) leaves the state at
  NO_CONNECTED, in which tasks are taken and not run. `WatchedTasksAnswered` leaves
  that state out.
* A registration that the timer begins while another is unfinished
  (`zk_client.cpp`, `on_repeat_timer`) can fail after the earlier one succeeded;
  the manager then takes itself for registered and has no node. `RegisteredOnce`
  and `RegistersUnlessOvertaken` exempt it.
* A watch that cannot be set, for want of a connection or of the parent, is not
  set again before the next registration (`missed`, which `TableFollows` exempts).
* A connection to redis that cannot be made again is deleted and stays in the
  table of `RedisMgr` (`redis/redis_mgr.cpp`).
* Requests of http that arrive in one buffer become one message
  (`codec/codec_http.cpp`): the parser goes on to the end of what is readable, with
  one message. `HandledAsSent` says what remains for a client that does not wait.
* A spoilt request of http whose message has begun is not refused but waited for,
  since `decode` asks whether it is decoding before it asks for an error.
* The answer to a request of HTTP/0.9 is refused by `encode`, and the connection
  is closed.
* A task that no connection takes is not reported to its command
  (`db/db_mgr.cpp:152`), which waits for its timer; with several databases the
  iterator of a new list is set to the first list's (`db/db_mgr.cpp:97`), so that
  `UsedInTurn` is checked for one.

### Fairness

* WorkerPool: the manager goes on with the handler it is in; its timer fires and a
  pending SIGCHLD is handled, however often other events come first (strong
  fairness, since libev collects every pending event in each iteration); a child
  that got SIGKILL dies. `worker_pool_stale` adds the timers of the workers, strongly
  fair, so that its counterexample does not depend on a client that comes and goes
  between them. Deaths, clients and faults are not fair, and that closed
  channels are noticed is not assumed. Creations fail at most `MaxFaults` times
  besides those for want of pids or numbers. `DeadWorkerReplaced` says that a
  worker that died is followed by one that is registered for its index.
* FdTransfer: the manager's timer and the steps of its handler. Nothing is
  assumed of workers: they may die or never read. `QueueDrains` is conditional on
  there being a registered worker again and again when the queue is looked at;
  without workers the code keeps the queue.
* CmdTable: the timers fire, since libev runs them; answers and clients are not
  fair.
* NodeConn: A1 handles its events and its timer runs. Nothing is assumed of the
  other node, not even that it reads. The timer closes a connection on which
  nothing was read or written; that it was restarted on activity is in its guard.
* MysqlConn: a socket can be written; what the library works on becomes readable
  in the end; the timer runs. An idle connection need not become readable, since
  the server does not speak first.
* ZkSession: the library reaches a server in the end, the Bio thread goes on, and
  the timer fires and handles its results. Losses and other nodes are not fair.
* RedisConn: a connection is made or fails, redis answers while it is connected,
  and the timers of commands fire. `CalledBackOnce` needs no more, because hiredis calls
  back for all requests of a lost connection.
* MsgStream: libev reports sockets that are ready, the client sends and reads, and
  modules answer. That a connection is closed is not fair.
* DbPool: only the timers of commands and sessions, since `MysqlConn` shows that
  a task may wait for ever.
* NodeSync: channels deliver, the manager answers, and the worker's timer fires,
  strongly fair because a bound disables it for a while.

## 4. What is proved

For every number of workers, pids, descriptors, clients and faults,
`WorkerPool_proofs` proves the type invariant and all safety properties of
`WorkerPool`, and the action property that no index is forgotten. The inductive
invariant `IndInv` is

* `TypeOK`;
* `PoolInv`: the registry's maps agree (`RegistryConsistent`), condemned children
  are running (`KilledRunning`), a running child is registered or condemned
  (`RunningRegistered`), and a channel belongs to a registered worker
  (`ChanelsRegistered`);
* `RestartOnce`: the list has no duplicate and no index that has a worker;
* `InitOrder`: while the first workers are created, the list is empty and only
  earlier indexes are registered;
* `ZombiesSignalled`.

`RestartOnce` needs `RegistryConsistent` (the index that enters the list is the
one whose entry is deleted) and `InitOrder` (the first creation cannot meet a
listed index). `OneWorkerPerIndex` follows from `RunningRegistered` and the
agreement of the maps, which is why it is not part of the invariant itself. The
lemmas `CreateDoneInv` and `CreateFailsInv` treat the outcomes of
`create_worker` once for its two callers, `RemoveAtFacts` says what erasing from
the list does.

For every set of numbers and every bound on ids and steps, `CmdTable_proofs`
proves `TypeOK`, `RepliesToAsker`, `TimersMatch` and `AnswersCurrentStep`. The
invariant adds `FreshIds` (ids not given out yet occur nowhere), `OneNumber` (a
connection id is open on one number) and `WaitingUnanswered` (a command that
waits has not replied). The bound `MaxSeq` is below 2^31, which stands for the
assumption that sequence numbers do not exceed the 32 bits an ack carries.

`FdTransfer_proofs` proves, for every number of workers and connections and
every capacity of the channels, `OneOwner`, `RoundRobinFair` and the refinement of
`ConnHandoff`. Its `IndInv` adds to `TypeOK` and `IteratorValid`

* `Apart` and `Once`: backlog, queue, channels and tables have no connection in
  common, and none has one twice;
* `RoundInv`: the workers chosen in a round are those at positions 2 to the
  iterator, and an empty registry has its iterator at 1. This makes the round
  robin fair: the iterator moves to a position that is not among them.

The refinement rests on the action fact `Flow`, which every step satisfies:
connections leave the backlog for good, enter the queue from the backlog only, and
reach a worker from those two only; `OwnerRight` reads the owner off the places.

`RedisConn_proofs` proves `ContextIsLive`, `AnswersAreTrue` and the refinement of
`TaskQueue` (`ImplementsTaskQueue`, the safety part of `CalledBackOnce`) for every
set of commands and every number of connections. The invariant: the context is the
live one (`ContextInv`); tasks wait only while connecting and are sent only when
connected (`QueueInv`), so that the two queues in a row are the queue of
`TaskQueue`; a command has one task at most, of its step, and has it while it waits
(`TaskInv`); it answers when it is done, and what it says is stored (`AnswerInv`).
`QueueStep` says what each step does to the queue.

`MysqlConn_proofs` proves `InOrder` and `ResultIsOwn` for every number of tasks and
whatever the library returns. Each method of `MysqlAsyncConn` has a lemma: it keeps
`All`, the tasks that were called back in it, the one that is open and the queue, in
a row. The invariant is that what was called back before, the open task and the
queue are the tasks that were added, in order, together with `Own`: a task is open
exactly in the states that operate, and those are connected.

`NodeConn_proofs` proves `InOrder`, `WaitingIsWatched` and `NodeConnsRight` for
every number of workers, connections and messages and every room in a socket. The
invariant follows one connection through its phases (`Phase`): before and in the
handshake at most one request is in the send buffer or on the way (`Shaking`, with
the answers that each place of the other end allows), afterwards only messages
(`Messaging`), and the waiting buffer has all of them until then. `Passed` says
that B1 has a prefix of what was taken and, while the other end is there, that the
rest is on the way. There is one lemma for each kind of step on one connection,
and `OneConnStep` lifts them to the system. `TableInv` is needed for the table:
on_rsp_tell_worker writes an entry that is there already. The lemmas about writing
(`WriteFacts`, `WriteRequest`, `WriteMessages`) treat partial writes once.

`NodeSync_proofs` proves all safety properties of `NodeSync`, `TablesConsistent`,
`BroadcastsSuffice`, `OldNeverReplacesNew` and `KeysStay`, for every finite set of
paths, any hosts, types, points and collisions and any number of workers. First the
operations of `NodeTable`: `TableInv` says that a table's maps and ring agree, with
more about the ring than `RingRight` does: an entry is a point of a worker of a
registered node *of the entry's type*. Without the type, `del_nodes` could leave an
entry behind that leads to no worker. `DelFacts`, `InsertFacts` and `AddFacts` show
that it is kept; a point that is no collision is free when its worker comes and is
erased by no other (`OwnPoint`). `KeysMove` needs nothing but `TableInv` of two
tables: each has the point that the other finds, so both find the same one. Then
`Loading` and `Following`: that the recursive functions exist and what they compute
(`LoadingFacts`, `FollowingFacts`) is shown by least counterexample, from
`LeastNatural`. `LoadFacts` has the heart of `BroadcastsSuffice`: to load the
accepted paths alone gives the same table as to load all, so a worker that gets
these ends where the manager did. The inductive invariant is `TableInv` of every
table and the shape of the messages (to add or to remove carries one path).

`DbPool_proofs` proves the safety properties of `DbPool`. For every set of
commands, databases and sizes of pools: `CommandsAnswerTruly` (`AnswersTrue`) and
`OneTaskPerStep` (`TasksOfCommands`). The pools are treated as values first:
`PutMore` and `PutLess` say what one task more or less on one connection does to the
tasks that are held and to `Apart` (no task is queued twice), `HandleFacts` what
`handle_sql` does whichever connection `get_conn` gives. `IndInv` has `Apart`, that a
session is of a key that was found, and `CmdInv` for each command: its task is queued
exactly while it waits and was not refused, a task left over belongs to a command that
has ended, and who has inserted has no such task. The last is what keeps a command
from inserting twice, also when its timer ends it while its task stays queued. The
commands that a callback does not concern keep their part by `OtherCmd`; the one it
concerns goes through `SubmitCmd` or `AnswerCmd`.

`ConnectionsInTurn` (`UsedInTurn`) has the hypothesis `OnePool`: all names lead to one
entry of `m_conns` and have one size. This is the case that the run checks; with
several databases the property is false, because the first connection of a list puts
the iterator of whichever entry is first in `m_conns` to its beginning (section 3).
The property says that uses differ by one at most, which is not inductive; `TurnInv`
says which connections are ahead: those from the second to the iterator. While the
list is short, each was used once and the iterator is at the first.

The assumptions are those named in the modules, which TLC evaluates on every
run. Every inductive invariant was checked by TLC before it was proved.

Only model-checked: liveness (out of the prover's reach: `DeadWorkerReplaced`,
`QueueDrains`, `CmdsEnd`, `SilentConnsClosed`, `WatchedTasksAnswered`,
`HandshakeEnds`, `RegistersUnlessOvertaken`, `AnsweredOrClosed`, `AllEnds` and the
second half of `CalledBackOnce`); `ZkSession`, with `RegisteredOnce`, `TableFollows`
and the refinement of `NodeSync`, which is stated for a version bound that no run
reaches and so not for every value of the constants; and `SocketBuffer`, `HttpParser`
and `MsgStream`, whose properties are about what the parser computes for every input
and need induction over data.

## 5. What is not modelled, and the plan

Still to do, in this order:

1. Proofs: `RegisteredOnce` and `TableFollows` of `ZkSession`, from the lemmas about
   `NodeTable` in `NodeSync_proofs`, with an invariant that follows the queues of the
   three threads.
2. Compositions: `CmdTable` over `TaskQueue`, in place of calls that are answered
   at any time; `NodeConn` with several workers per node over `WorkerPool`'s
   registry, and acks with 32-bit sequence numbers.
3. The reports of payload from workers to the manager.

Not planned: JSON and configuration, the parts of a URL, compression, logging, the
registration of watchers with libev (`events.cpp`; the models have its effect), the
start and the end of the program, vendored code without a protocol, and errors of
memory such as the use of a connection after it was closed further down the call
stack; the models close a connection in the same step as the call that causes it.
