----------------------------- MODULE ZkSession -----------------------------
(***************************************************************************)
(* How a manager registers with zookeeper and follows the nodes there.     *)
(* Three threads meet: the zookeeper client library queues a task for each *)
(* event; the Bio thread works through that queue with blocking calls      *)
(* (zk_bio.cpp); the timer of the manager handles the results and looks    *)
(* after the registration (zk_client.cpp).                                 *)
(*                                                                         *)
(* The server and the library are modelled as the calls and the watches    *)
(* need them: a watch fires once, events are delivered in order and, after *)
(* a loss of the connection, when it is back.                              *)
(***************************************************************************)
EXTENDS NodeTable

CONSTANTS
    Mine,           \* paths that this node gets, one for each registration
    MyType,         \* its type
    Subscribed,     \* sequence of the types it follows
    RegisterTicks,  \* ticks until a registration is tried again (9)
    AckLimit,       \* results handled in one tick (100)
    MaxLosses,      \* bound: losses of the connection
    MaxSlow,        \* bound: registrations that outlast RegisterTicks
    MaxPayloads     \* bound: reports of the payload, before the first loss

ASSUME SessionAssumption ==
    /\ Mine \subseteq Paths /\ \A p, q \in Mine : host[p] = host[q] /\ node_type[p] = MyType
    /\ Subscribed \in Seq(Range(node_type))
    /\ RegisterTicks \in Nat /\ AckLimit \in Nat \ {0}
    /\ MaxLosses \in Nat /\ MaxSlow \in Nat /\ MaxPayloads \in Nat

VARIABLES
    zookeeper,   \* path -> "new", "there" or "gone"
    filled,      \* paths with data
    parents,     \* types whose parent node exists
    old,         \* my paths that belong to abandoned sessions
    session,     \* of m_zh: "fresh", "alive" or "dead" for the server
    link,        \* ... and "connecting", "connected" or "expired" for the library
    watch,       \* watches of the session: <<"data", path>>, <<"child", type>>
    pending,     \* events to be delivered when the connection is back
    req,         \* m_req_tasks
    bio,         \* the registration that the Bio thread is in
    ack,         \* m_ack_tasks
    batch,       \* results fetched by handle_acks
    m_is_connected, m_is_registered, m_is_expired, m_register_index,
    nodes,       \* Nodes of the manager
    my,          \* its m_my_zk_node, in a set
    m_payload_node_path,   \* in a set
    missed,      \* history: a watch was not set since the registration began
    losses, slow, payloads \* counts for the bounds

server  == <<zookeeper, filled, parents, old>>
library == <<session, link, watch, pending>>
flags   == <<m_is_connected, m_is_registered, m_is_expired, m_register_index>>
table   == <<nodes, my>>
counts  == <<losses, slow, payloads>>
vars == <<server, library, req, bio, ack, batch, flags, table,
          m_payload_node_path, missed, counts>>

-----------------------------------------------------------------------------
Task(cmd, on) == [cmd |-> cmd, on |-> on]
Result(task, ok, res) == [cmd |-> task.cmd, on |-> task.on, ok |-> ok, res |-> res]

Idle == [at |-> "idle"]
Registration(at, path, types, todo, found) ==
    [at |-> at, path |-> path, types |-> types, todo |-> todo, found |-> found]

Children(type) == {p \in Paths : node_type[p] = type /\ zookeeper[p] = "there"}

\* The events of watches that fire, and of which event a watch it was.
WatchOf(e) == <<IF e.cmd = "CHILD" THEN "child" ELSE "data", e.on>>
Fire(events) ==
    LET fired == {e \in events : WatchOf(e) \in watch}
    IN  /\ watch' = watch \ {WatchOf(e) : e \in fired}
        /\ IF link = "connected"
           THEN req' = req \o SetToSeq(fired) /\ UNCHANGED pending
           ELSE pending' = pending \cup fired /\ UNCHANGED req
        /\ UNCHANGED <<session, link>>

Coming(p) == {Task("CHILD", node_type[p])}
Going(S) == {Task("DELETED", p) : p \in S} \cup {Task("CHILD", node_type[p]) : p \in S}

Init ==
    /\ zookeeper = [p \in Paths |-> "new"] /\ filled = {} /\ parents = {} /\ old = {}
    /\ session = "fresh" /\ link = "connecting" /\ watch = {} /\ pending = {}
    /\ req = <<Task("REGISTER", MyType)>> /\ bio = Idle /\ ack = <<>> /\ batch = <<>>
    /\ m_is_connected = FALSE /\ m_is_registered = FALSE /\ m_is_expired = FALSE
    /\ m_register_index = 0
    /\ nodes = EmptyTable /\ my = {} /\ m_payload_node_path = {}
    /\ missed = TRUE
    /\ losses = 0 /\ slow = 0 /\ payloads = 0

-----------------------------------------------------------------------------
(* Other nodes, and sessions that were abandoned *)

NodeComes(p) ==
    /\ p \notin Mine /\ zookeeper[p] = "new"
    /\ zookeeper' = [zookeeper EXCEPT ![p] = "there"]
    /\ parents' = parents \cup {node_type[p]}
    /\ Fire(Coming(p))
    /\ UNCHANGED <<filled, old, bio, ack, batch, flags, table, m_payload_node_path,
                   missed, counts>>

NodeFilled(p) ==
    /\ p \notin Mine /\ zookeeper[p] = "there" /\ p \notin filled
    /\ filled' = filled \cup {p}
    /\ Fire({Task("CHANGED", p)})
    /\ UNCHANGED <<zookeeper, parents, old, bio, ack, batch, flags, table,
                   m_payload_node_path, missed, counts>>

NodeGoes(p) ==
    /\ zookeeper[p] = "there" /\ (p \notin Mine \/ p \in old)
    /\ zookeeper' = [zookeeper EXCEPT ![p] = "gone"]
    /\ old' = old \ {p}
    /\ Fire(Going({p}))
    /\ UNCHANGED <<filled, parents, bio, ack, batch, flags, table,
                   m_payload_node_path, missed, counts>>

-----------------------------------------------------------------------------
(* The session, and on_zk_watch_events *)

\* My paths of the present session go when it ends.
Current == {p \in Mine : zookeeper[p] = "there"} \ old
SessionEnds == zookeeper' = [p \in Paths |-> IF p \in Current THEN "gone" ELSE zookeeper[p]]

Lose ==
    /\ link = "connected" /\ losses < MaxLosses
    /\ link' = "connecting" /\ losses' = losses + 1
    /\ req' = Append(req, Task("CONNECTING", MyType))
    /\ UNCHANGED <<server, session, watch, pending, bio, ack, batch, flags, table,
                   m_payload_node_path, missed, slow, payloads>>

SessionDies ==
    /\ link = "connecting" /\ session = "alive"
    /\ session' = "dead"
    /\ SessionEnds
    /\ UNCHANGED <<filled, parents, old, link, watch, pending, req, bio, ack, batch,
                   flags, table, m_payload_node_path, missed, counts>>

\* The library reaches a server, and gets the events that it has not had.
Connect ==
    /\ link = "connecting"
    /\ IF session = "dead"
       THEN /\ link' = "expired"
            /\ req' = Append(req, Task("EXPIRED", MyType))
            /\ UNCHANGED <<session, pending>>
       ELSE /\ link' = "connected" /\ session' = "alive"
            /\ req' = Append(req, Task("CONNECTED", MyType)) \o SetToSeq(pending)
            /\ pending' = {}
    /\ UNCHANGED <<server, watch, bio, ack, batch, flags, table, m_payload_node_path,
                   missed, counts>>

-----------------------------------------------------------------------------
(* The Bio thread: bio_process_cmd *)

\* Notifications of sessions and of created or deleted nodes need no call.
BioPass ==
    /\ bio = Idle /\ req # <<>>
    /\ Head(req).cmd \in {"CONNECTED", "CONNECTING", "EXPIRED", "DELETED"}
    /\ req' = Tail(req)
    /\ ack' = Append(ack, Result(Head(req), TRUE, {}))
    /\ UNCHANGED <<server, library, bio, batch, flags, table, m_payload_node_path,
                   missed, counts>>

\* watch_data_change: the path, if it has data.
BioGet ==
    /\ bio = Idle /\ req # <<>> /\ Head(req).cmd \in {"GET", "CHANGED"}
    /\ link = "connected"
    /\ LET p == Head(req).on
           there == zookeeper[p] = "there"
       IN  /\ watch' = IF there THEN watch \cup {<<"data", p>>} ELSE watch
           /\ ack' = Append(ack, Result(Head(req), there, {p} \cap filled))
    /\ req' = Tail(req)
    /\ UNCHANGED <<server, session, link, pending, bio, batch, flags, table,
                   m_payload_node_path, missed, counts>>

\* watch_children_event
BioChildren ==
    /\ bio = Idle /\ req # <<>> /\ Head(req).cmd = "CHILD"
    /\ link = "connected"
    /\ watch' = watch \cup {<<"child", Head(req).on>>}
    /\ ack' = Append(ack, Result(Head(req), TRUE, Children(Head(req).on)))
    /\ req' = Tail(req)
    /\ UNCHANGED <<server, session, link, pending, bio, batch, flags, table,
                   m_payload_node_path, missed, counts>>

\* set_node of the payload, whatever becomes of it.
BioSetData ==
    /\ bio = Idle /\ req # <<>> /\ Head(req).cmd = "SET_DATA"
    /\ \E ok \in BOOLEAN :
          /\ ok => link = "connected" /\ zookeeper[Head(req).on] = "there"
          /\ ack' = Append(ack, Result(Head(req), ok, {}))
    /\ req' = Tail(req)
    /\ UNCHANGED <<server, library, bio, batch, flags, table, m_payload_node_path,
                   missed, counts>>

\* A call fails without a connection, also when a new handle cannot get one.
CallFails ==
    \/ link # "connected" /\ session # "fresh" /\ UNCHANGED losses
    \/ session = "fresh" /\ losses < MaxLosses /\ losses' = losses + 1

\* ... and no watch is set.
BioFails ==
    /\ bio = Idle /\ req # <<>> /\ Head(req).cmd \in {"GET", "CHANGED", "CHILD"}
    /\ CallFails
    /\ req' = Tail(req)
    /\ ack' = Append(ack, Result(Head(req), FALSE, {}))
    /\ missed' = TRUE
    /\ UNCHANGED <<server, library, bio, batch, flags, table, m_payload_node_path,
                   slow, payloads>>

-----------------------------------------------------------------------------
(* bio_register_node *)

Register ==
    /\ bio = Idle /\ req # <<>> /\ Head(req).cmd = "REGISTER"
    /\ req' = Tail(req)
    /\ bio' = Registration("check", {}, Subscribed, {}, <<>>)
    /\ missed' = FALSE
    /\ UNCHANGED <<server, library, ack, batch, flags, table, m_payload_node_path, counts>>

Ends(ok) ==
    /\ bio' = Idle
    /\ ack' = Append(ack, Result(Task("REGISTER", MyType), ok,
                                 [path |-> bio.path, found |-> bio.found]))
    /\ missed' = (missed \/ ~ok)

\* bio_create_parent: is the parent there?
RegisterCheck ==
    /\ bio.at = "check" /\ link = "connected"
    /\ bio' = [bio EXCEPT !.at = IF MyType \in parents THEN "create" ELSE "parent"]
    /\ UNCHANGED <<server, library, req, ack, batch, flags, table, m_payload_node_path,
                   missed, counts>>

\* ... and if it was not, create it; z_node_exists is handed on as a failure.
RegisterParent ==
    /\ bio.at = "parent" /\ link = "connected"
    /\ IF MyType \in parents THEN Ends(FALSE)
       ELSE bio' = [bio EXCEPT !.at = "create"] /\ UNCHANGED <<ack, missed>>
    /\ parents' = parents \cup {MyType}
    /\ UNCHANGED <<zookeeper, filled, old, library, req, batch, flags, table,
                   m_payload_node_path, counts>>

\* create_sequance_ephemeral_node: the next of my paths.
NextPath == {p \in Mine : zookeeper[p] = "new" /\
                \A q \in Mine : zookeeper[q] = "new" => active_time[p] <= active_time[q]}

\* The answer arrives, or the connection is lost before.
RegisterCreate ==
    /\ bio.at = "create" /\ link = "connected"
    /\ \E p \in NextPath :
          /\ zookeeper' = [zookeeper EXCEPT ![p] = "there"]
          /\ Fire(Coming(p))
          /\ bio' = [bio EXCEPT !.at = "payload", !.path = {p}]
    /\ UNCHANGED <<filled, parents, old, ack, batch, flags, table, m_payload_node_path,
                   missed, counts>>

RegisterCreateLost ==
    /\ bio.at = "create" /\ link = "connected" /\ losses < MaxLosses
    /\ \E p \in NextPath : zookeeper' = [zookeeper EXCEPT ![p] = "there"]
    /\ link' = "connecting" /\ losses' = losses + 1
    /\ LET fired == Coming(CHOOSE p \in NextPath : TRUE)
       IN  pending' = pending \cup {e \in fired : WatchOf(e) \in watch}
    /\ watch' = watch \ {<<"child", MyType>>}
    /\ req' = Append(req, Task("CONNECTING", MyType))
    /\ Ends(FALSE)
    /\ UNCHANGED <<filled, parents, old, session, batch, flags, table,
                   m_payload_node_path, slow, payloads>>

\* create_ephemeral_node for the payload, under the same name.
RegisterPayload ==
    /\ bio.at = "payload" /\ link = "connected"
    /\ m_payload_node_path' = bio.path
    /\ bio' = [bio EXCEPT !.at = "fill"]
    /\ UNCHANGED <<server, library, req, ack, batch, flags, table, missed, counts>>

\* set_node: the data; the node may have gone with the session it was made in.
RegisterFill ==
    /\ bio.at = "fill" /\ link = "connected"
    /\ \E p \in bio.path :
          IF zookeeper[p] = "there"
          THEN /\ filled' = filled \cup {p}
               /\ Fire({Task("CHANGED", p)})
               /\ bio' = [bio EXCEPT !.at = "watch"] /\ UNCHANGED <<ack, missed>>
          ELSE Ends(FALSE) /\ UNCHANGED <<filled, library, req>>
    /\ UNCHANGED <<zookeeper, parents, old, batch, flags, table, m_payload_node_path,
                   counts>>

\* watch_children_event for the next type; a parent that is not there is
\* passed over, without a watch.
RegisterWatch ==
    /\ bio.at = "watch" /\ bio.types # <<>> /\ link = "connected"
    /\ LET type == Head(bio.types)
       IN  IF type \in parents
           THEN /\ watch' = watch \cup {<<"child", type>>}
                /\ bio' = [bio EXCEPT !.at = "read", !.todo = Children(type),
                                      !.types = Tail(@)]
                /\ UNCHANGED missed
           ELSE /\ bio' = [bio EXCEPT !.types = Tail(@)]
                /\ missed' = TRUE
                /\ UNCHANGED watch
    /\ UNCHANGED <<server, session, link, pending, req, ack, batch, flags, table,
                   m_payload_node_path, counts>>

\* watch_data_change for each child, in any order; what fails, is gone or has
\* no data is passed over.
RegisterRead ==
    /\ bio.at = "read"
    /\ LET there == {p \in bio.todo : zookeeper[p] = "there"}
       IN  \/ /\ link = "connected"
              /\ watch' = watch \cup {<<"data", p>> : p \in there}
              /\ \E s \in SetToSeqs(there \cap filled) :
                    bio' = [bio EXCEPT !.at = "watch", !.todo = {}, !.found = @ \o s]
              /\ UNCHANGED <<missed, losses>>
           \/ /\ CallFails
              /\ bio' = [bio EXCEPT !.at = "watch", !.todo = {}]
              /\ missed' = TRUE
              /\ UNCHANGED watch
    /\ UNCHANGED <<server, session, link, pending, req, ack, batch, flags, table,
                   m_payload_node_path, slow, payloads>>

\* The path of an earlier registration is not deleted: node_register puts
\* old_path into a copy of the configuration that is not sent.
RegisterDone ==
    /\ bio.at = "watch" /\ bio.types = <<>>
    /\ Ends(TRUE)
    /\ UNCHANGED <<server, library, req, batch, flags, table, m_payload_node_path, counts>>

RegisterFails ==
    /\ bio.at \in {"check", "parent", "create", "payload", "fill", "watch"}
    /\ bio.at = "watch" => bio.types # <<>>
    /\ CallFails
    /\ Ends(FALSE)
    /\ UNCHANGED <<server, library, req, batch, flags, table, m_payload_node_path,
                   slow, payloads>>

BioStep ==
    \/ BioPass \/ BioGet \/ BioChildren \/ BioSetData \/ BioFails
    \/ Register \/ RegisterCheck \/ RegisterParent \/ RegisterCreate \/ RegisterCreateLost
    \/ RegisterPayload \/ RegisterFill \/ RegisterWatch \/ RegisterRead \/ RegisterDone
    \/ RegisterFails

-----------------------------------------------------------------------------
(* The manager's timer *)

\* A registration is queued, under way, or done and not handled yet.
Registering ==
    \/ bio # Idle
    \/ \E i \in 1..Len(req) : req[i].cmd = "REGISTER"
    \/ \E i \in 1..Len(ack) : ack[i].cmd = "REGISTER"
    \/ \E i \in 1..Len(batch) : batch[i].cmd = "REGISTER"

\* Mutant: the node registers again in the session it has.
Reconnect_Stays ==
    /\ req' = Append(req, Task("REGISTER", MyType))
    /\ missed' = TRUE
    /\ slow' = IF Registering THEN slow + 1 ELSE slow
    /\ UNCHANGED <<server, library>>

\* reconnect: zk_cpp::connect closes the handle, which ends the session if the
\* server can be told, and opens another; node_register queues REGISTER.  The
\* Bio thread may be in a registration.
Reconnect ==
    /\ IF link = "connected"
       THEN SessionEnds /\ UNCHANGED old
       ELSE old' = old \cup Current /\ UNCHANGED zookeeper
    /\ session' = "fresh" /\ link' = "connecting" /\ watch' = {} /\ pending' = {}
    /\ req' = Append(req, Task("REGISTER", MyType))
    /\ missed' = TRUE
    /\ slow' = IF Registering THEN slow + 1 ELSE slow
    /\ UNCHANGED <<filled, parents>>

Waiting == (m_is_connected \/ m_is_expired) /\ ~m_is_registered

Due == Waiting /\ m_register_index >= RegisterTicks

\* on_repeat_timer, and the part of handle_acks that fetches results.
OnRepeatTimer ==
    /\ batch = <<>>
    /\ IF Due
       THEN /\ Registering => slow < MaxSlow
            /\ m_register_index' = 0
            /\ Reconnect
       ELSE /\ m_register_index' = m_register_index + (IF Waiting THEN 1 ELSE 0)
            /\ UNCHANGED <<server, library, req, missed, slow>>
    /\ batch' = SubSeq(ack, 1, Min({AckLimit, Len(ack)}))
    /\ ack' = SubSeq(ack, AckLimit + 1, Len(ack))
    /\ UNCHANGED <<bio, m_is_connected, m_is_registered, m_is_expired, table,
                   m_payload_node_path, losses, payloads>>

\* The next result is handled (timer_process_ack).
Handle(cmds) == batch # <<>> /\ Head(batch).cmd \in cmds /\ batch' = Tail(batch)

OnSessionConnected ==
    /\ Handle({"CONNECTED"})
    /\ m_is_connected' = TRUE /\ m_is_expired' = FALSE
    /\ UNCHANGED <<server, library, req, bio, ack, m_is_registered, m_register_index,
                   table, m_payload_node_path, missed, counts>>

OnSessionConnecting ==
    /\ Handle({"CONNECTING"})
    /\ m_is_connected' = FALSE
    /\ UNCHANGED <<server, library, req, bio, ack, m_is_registered, m_is_expired,
                   m_register_index, table, m_payload_node_path, missed, counts>>

\* Mutant: the registration is not begun again.
OnSessionExpired_Waits ==
    /\ Handle({"EXPIRED"})
    /\ m_is_connected' = FALSE /\ m_is_expired' = TRUE
    /\ UNCHANGED <<server, library, req, missed, m_is_registered, bio, ack,
                   m_register_index, table, m_payload_node_path, counts>>

OnSessionExpired ==
    /\ Handle({"EXPIRED"})
    /\ m_is_connected' = FALSE /\ m_is_registered' = FALSE /\ m_is_expired' = TRUE
    /\ Reconnect
    /\ UNCHANGED <<bio, ack, m_register_index, table, m_payload_node_path,
                   losses, payloads>>

\* Mutant: the version begins again, too.
OnZkRegister_Anew ==
    /\ Handle({"REGISTER"})
    /\ LET r == Head(batch)
       IN  IF r.ok
           THEN /\ m_is_registered' = TRUE /\ m_register_index' = 0
                /\ nodes' = Load(EmptyTable, r.res.found) /\ my' = r.res.path
           ELSE UNCHANGED <<m_is_registered, m_register_index, table>>
    /\ UNCHANGED <<server, library, req, bio, ack, m_is_connected, m_is_expired,
                   m_payload_node_path, missed, counts>>

\* on_zk_register: nothing is done about a failure.
OnZkRegister ==
    /\ Handle({"REGISTER"})
    /\ LET r == Head(batch)
       IN  IF r.ok
           THEN /\ m_is_registered' = TRUE /\ m_register_index' = 0
                /\ nodes' = Load(nodes, r.res.found) /\ my' = r.res.path
           ELSE UNCHANGED <<m_is_registered, m_register_index, table>>
    /\ UNCHANGED <<server, library, req, bio, ack, m_is_connected, m_is_expired,
                   m_payload_node_path, missed, counts>>

\* on_zk_get_data, on_zk_data_change: a node without data is no node.
OnZkData ==
    /\ Handle({"GET", "CHANGED"})
    /\ LET r == Head(batch)
       IN  nodes' = IF r.ok /\ r.res # {} THEN add_zk_node(nodes, r.on) ELSE nodes
    /\ UNCHANGED <<server, library, req, bio, ack, flags, my, m_payload_node_path,
                   missed, counts>>

OnZkNodeDeleted ==
    /\ Handle({"DELETED"})
    /\ nodes' = del_zk_node(nodes, Head(batch).on)
    /\ UNCHANGED <<server, library, req, bio, ack, flags, my, m_payload_node_path,
                   missed, counts>>

\* on_zk_child_change: new children are read by the Bio thread, and what is no
\* child any more is deleted, one after the other, before the next result.
OnZkChildChange ==
    /\ batch # <<>> /\ Head(batch).cmd = "CHILD"
    /\ LET r == Head(batch)
           diff == get_zk_diff_nodes(nodes, r.on, r.res)
           gone == [i \in 1..Cardinality(diff.dels) |->
                       Result(Task("DELETED", SetToSeq(diff.dels)[i]), TRUE, {})]
       IN  IF r.ok
           THEN /\ req' = req \o [i \in 1..Cardinality(diff.adds) |->
                                     Task("GET", SetToSeq(diff.adds)[i])]
                /\ batch' = gone \o Tail(batch)
           ELSE batch' = Tail(batch) /\ UNCHANGED req
    /\ UNCHANGED <<server, library, bio, ack, flags, table, m_payload_node_path,
                   missed, counts>>

OnZkSetData ==
    /\ Handle({"SET_DATA"})
    /\ UNCHANGED <<server, library, req, bio, ack, flags, table, m_payload_node_path,
                   missed, counts>>

\* set_payload_data, from the timer of the manager.
SetPayloadData ==
    /\ payloads < MaxPayloads /\ losses = 0 /\ batch = <<>>
    /\ m_is_connected
    /\ \E p \in m_payload_node_path : req' = Append(req, Task("SET_DATA", p))
    /\ payloads' = payloads + 1
    /\ UNCHANGED <<server, library, bio, ack, batch, flags, table, m_payload_node_path,
                   missed, losses, slow>>

HandleAck ==
    \/ OnSessionConnected \/ OnSessionConnecting \/ OnSessionExpired \/ OnZkRegister
    \/ OnZkData \/ OnZkNodeDeleted \/ OnZkChildChange \/ OnZkSetData

-----------------------------------------------------------------------------
Next ==
    \/ \E p \in Paths : NodeComes(p) \/ NodeFilled(p) \/ NodeGoes(p)
    \/ Lose \/ SessionDies \/ Connect
    \/ BioStep
    \/ OnRepeatTimer \/ HandleAck \/ SetPayloadData

\* The threads run and the timer fires; the library reaches a server in the end.
Fairness ==
    WF_vars(Connect) /\ WF_vars(BioStep) /\ WF_vars(OnRepeatTimer \/ HandleAck)

Spec == Init /\ [][Next]_vars
FairSpec == Spec /\ Fairness

-----------------------------------------------------------------------------
(* Properties *)

\* Every variable has its type.
TypeOK ==
    /\ zookeeper \in [Paths -> {"new", "there", "gone"}]
    /\ filled \subseteq Paths /\ old \subseteq Mine /\ parents \subseteq Range(node_type)
    /\ session \in {"fresh", "alive", "dead"}
    /\ link \in {"connecting", "connected", "expired"}
    /\ watch \subseteq ({"data"} \X Paths) \cup ({"child"} \X Range(node_type))
    /\ bio.at \in {"idle", "check", "parent", "create", "payload", "fill", "watch", "read"}
    /\ m_is_connected \in BOOLEAN /\ m_is_registered \in BOOLEAN /\ m_is_expired \in BOOLEAN
    /\ m_register_index \in 0..RegisterTicks
    /\ IsTable(nodes) /\ my \subseteq Mine /\ m_payload_node_path \subseteq Mine
    /\ losses \in 0..MaxLosses /\ slow \in Nat /\ payloads \in 0..MaxPayloads

\* Nothing is under way in any of the three threads.
Quiet ==
    /\ link = "connected" /\ pending = {}
    /\ req = <<>> /\ bio = Idle /\ ack = <<>> /\ batch = <<>>

\* The nodes that the manager should know: those with data, and of several on
\* one host the last.
Known ==
    LET live == {p \in filled : zookeeper[p] = "there" /\ node_type[p] \in Range(Subscribed)}
    IN  {p \in live : \A q \in live : host[q] = host[p] => active_time[q] <= active_time[p]}

\* If no watch was missed since the registration began, the manager's table is
\* what zookeeper holds as soon as nothing is under way: no change falls
\* between a read and its watch, and no result is applied out of order.
TableFollows == Quiet /\ m_is_registered /\ ~missed => nodes.zk = Known

\* The manager's side of NodeSync, without workers: the table is loaded only
\* with paths that were there, and loses a path only when it is gone or a later
\* one on its host is there (on_zk_register, on_zk_child_change, ...).
NS == INSTANCE NodeSync WITH
    mgr <- nodes, tab <- <<>>, down <- <<>>, asked <- <<>>, intact <- {}, restarts <- 0,
    Workers <- {}, MaxVersion <- 1000, MaxMsgs <- 0, MaxRestarts <- 0

ImplementsNodeSync == NS!Init /\ [][UNCHANGED <<zookeeper, nodes>> \/ NS!Next]_<<zookeeper, nodes>>

\* A manager that takes itself for registered has one path in zookeeper, the
\* one it knows, when nothing is under way; unless a registration was begun
\* while another was unfinished (reconnect).
RegisteredOnce ==
    /\ TypeOK
    /\ Quiet /\ m_is_registered /\ slow = 0 => Current = my

Registered == m_is_registered /\ \A p \in my : zookeeper[p] = "there"

\* One registration overtakes another, or is about to.
Overtaken == slow > 0 \/ (Due /\ Registering /\ batch = <<>>)

\* However a registration fails (on_zk_register, on_zk_session_expired), the
\* timer begins another until one succeeds, with the same exception.
RegistersUnlessOvertaken == <>[]Registered \/ <>Overtaken
=============================================================================
