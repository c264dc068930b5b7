------------------------------ MODULE NodeSync ------------------------------
(***************************************************************************)
(* How workers learn the nodes of the cluster: the manager gets them from  *)
(* zookeeper (zk_client.cpp), keeps them in its Nodes and passes every     *)
(* change to its workers over the control channels; from time to time a    *)
(* worker asks for all of them by its version (sys_cmd.cpp).               *)
(***************************************************************************)
EXTENDS NodeTable

CONSTANTS
    Workers,      \* worker indexes
    MaxVersion,   \* bound: versions up to which the tables are followed
    MaxMsgs,      \* bound: messages under way to a worker when another is sent
    MaxRestarts   \* bound: restarts of workers

ASSUME BoundsAssumption == MaxVersion \in Nat /\ MaxMsgs \in Nat /\ MaxRestarts \in Nat

VARIABLES
    zookeeper,  \* path -> "new", "there" or "gone"
    mgr,        \* Nodes of the manager
    tab,        \* worker -> its Nodes
    down,       \* worker -> messages of the manager under way to it
    asked,      \* worker -> versions in its sync requests under way
    intact,     \* history: workers that saw every change and loaded no answer
    restarts    \* restarts so far

vars == <<zookeeper, mgr, tab, down, asked, intact, restarts>>

-----------------------------------------------------------------------------
Msg(kind, paths, version) == [kind |-> kind, paths |-> paths, version |-> version]

\* send_to_children: to every worker in the registry.
Broadcast(m) == down' = [w \in Workers |-> Append(down[w], m)]

\* The bounds on what zookeeper tells the manager.
Bounded == mgr.version < MaxVersion /\ \A w \in Workers : Len(down[w]) < MaxMsgs

\* Paths whose data the Bio thread can have read: it may be gone by the time
\* the manager handles the result.
Readable == {p \in Paths : zookeeper[p] # "new"}

Init ==
    /\ zookeeper = [p \in Paths |-> "new"]
    /\ mgr = EmptyTable
    /\ tab = [w \in Workers |-> EmptyTable]
    /\ down = [w \in Workers |-> <<>>]
    /\ asked = [w \in Workers |-> <<>>]
    /\ intact = Workers
    /\ restarts = 0

-----------------------------------------------------------------------------
(* Zookeeper *)

\* A node registers under its path, or a session ends, with all its nodes.
NodeComes(p) ==
    /\ zookeeper[p] = "new"
    /\ zookeeper' = [zookeeper EXCEPT ![p] = "there"]
    /\ UNCHANGED <<mgr, tab, down, asked, intact, restarts>>

NodesGo(S) ==
    /\ S # {} /\ \A p \in S : zookeeper[p] = "there"
    /\ zookeeper' = [p \in Paths |-> IF p \in S THEN "gone" ELSE zookeeper[p]]
    /\ UNCHANGED <<mgr, tab, down, asked, intact, restarts>>

-----------------------------------------------------------------------------
(* The manager *)

\* on_zk_register, at the start and after a session has expired: the nodes
\* that were read, in any order, replace all others.
OnZkRegister ==
    /\ Bounded
    /\ \E paths \in UNION {SetToSeqs(S) : S \in SUBSET Readable} :
          /\ mgr' = Load(mgr, paths)
          /\ Broadcast(Msg("reg", Accepted(mgr, paths), 0))
    /\ UNCHANGED <<zookeeper, tab, asked, intact, restarts>>

\* on_zk_get_data, on_zk_data_change.
OnZkData(p) ==
    /\ Bounded
    /\ p \in Readable
    /\ check_zk_node_host(mgr, p)
    /\ mgr' = add_zk_node(mgr, p)
    /\ Broadcast(Msg("add", <<p>>, 0))
    /\ UNCHANGED <<zookeeper, tab, asked, intact, restarts>>

\* Mutant: workers are not told.
OnZkDeleted_Silent(p) ==
    /\ Bounded
    /\ zookeeper[p] = "gone" /\ p \in mgr.zk
    /\ mgr' = del_zk_node(mgr, p)
    /\ UNCHANGED <<zookeeper, tab, down, asked, intact, restarts>>

\* on_zk_node_deleted, and on_zk_child_change for each path that is gone.
OnZkDeleted(p) ==
    /\ Bounded
    /\ zookeeper[p] = "gone" /\ p \in mgr.zk
    /\ mgr' = del_zk_node(mgr, p)
    /\ Broadcast(Msg("del", <<p>>, 0))
    /\ UNCHANGED <<zookeeper, tab, asked, intact, restarts>>

\* on_req_sync_zk_nodes: the answer carries the version of the request, and
\* the nodes only if the manager has another version.
OnReqSync(w) ==
    /\ asked[w] # <<>>
    /\ LET v == Head(asked[w])
       IN  \E paths \in SetToSeqs(IF mgr.version # v THEN mgr.zk ELSE {}) :
              down' = [down EXCEPT ![w] = Append(@, Msg("sync", paths, v))]
    /\ asked' = [asked EXCEPT ![w] = Tail(@)]
    /\ UNCHANGED <<zookeeper, mgr, tab, intact, restarts>>

-----------------------------------------------------------------------------
(* Workers *)

\* The timer of SysCmd; it waits much longer than an answer takes.
SendSync(w) ==
    /\ tab[w].version < MaxVersion
    /\ asked[w] = <<>> /\ \A i \in 1..Len(down[w]) : down[w][i].kind # "sync"
    /\ asked' = [asked EXCEPT ![w] = Append(@, tab[w].version)]
    /\ UNCHANGED <<zookeeper, mgr, tab, down, intact, restarts>>

\* What a message makes of a worker's table: on_req_reg_zk_node,
\* on_req_add_zk_node, on_req_del_zk_node, on_rsp_sync_zk_nodes.
Apply(t, m) ==
    CASE m.kind = "reg"  -> Load(t, m.paths)
      [] m.kind = "add"  -> add_zk_node(t, m.paths[1])
      [] m.kind = "del"  -> del_zk_node(t, m.paths[1])
      [] m.kind = "sync" -> IF m.version # t.version THEN Load(t, m.paths) ELSE t

Loads(t, m) == m.kind = "sync" /\ m.version # t.version

Deliver(w) ==
    /\ down[w] # <<>>
    /\ tab' = [tab EXCEPT ![w] = Apply(@, Head(down[w]))]
    /\ down' = [down EXCEPT ![w] = Tail(@)]
    /\ intact' = IF Loads(tab[w], Head(down[w])) THEN intact \ {w} ELSE intact
    /\ UNCHANGED <<zookeeper, mgr, asked, restarts>>

\* A worker dies and is forked again: with an empty table and new channels.
Restart(w) ==
    /\ restarts < MaxRestarts
    /\ restarts' = restarts + 1
    /\ tab' = [tab EXCEPT ![w] = EmptyTable]
    /\ down' = [down EXCEPT ![w] = <<>>]
    /\ asked' = [asked EXCEPT ![w] = <<>>]
    /\ intact' = IF mgr = EmptyTable THEN intact \cup {w} ELSE intact \ {w}
    /\ UNCHANGED <<zookeeper, mgr>>

-----------------------------------------------------------------------------
Next ==
    \/ \E p \in Paths : NodeComes(p) \/ OnZkData(p) \/ OnZkDeleted(p)
    \/ \E S \in SUBSET Paths : NodesGo(S)
    \/ OnZkRegister
    \/ \E w \in Workers : OnReqSync(w) \/ SendSync(w) \/ Deliver(w) \/ Restart(w)

Spec == Init /\ [][Next]_vars

\* Channels deliver, the manager answers, and the worker's timer fires.
Fairness ==
    \A w \in Workers : WF_vars(Deliver(w)) /\ WF_vars(OnReqSync(w)) /\ SF_vars(SendSync(w))

FairSpec == Spec /\ Fairness

-----------------------------------------------------------------------------
(* Properties *)

\* Every variable has its type.
TypeOK ==
    /\ zookeeper \in [Paths -> {"new", "there", "gone"}]
    /\ IsTable(mgr)
    /\ \A w \in Workers :
          /\ IsTable(tab[w])
          /\ \A i \in 1..Len(down[w]) :
                /\ down[w][i].kind \in {"reg", "add", "del", "sync"}
                /\ Range(down[w][i].paths) \subseteq Paths
                /\ down[w][i].version \in Nat
          /\ Range(asked[w]) \subseteq Nat
    /\ intact \subseteq Workers
    /\ restarts \in 0..MaxRestarts

\* The maps of the manager's and of every worker's Nodes agree (Consistent),
\* also in the middle of a broadcast, after a restart and after a sync; their
\* rings lead to registered workers and give each the points that only it has
\* (RingRight), in whatever order nodes with a common point come and go
\* (add_node, del_node).
TablesConsistent ==
    /\ TypeOK
    /\ Consistent(mgr) /\ RingRight(mgr)
    /\ \A w \in Workers : Consistent(tab[w]) /\ RingRight(tab[w])

\* The table t after the broadcasts in the messages ms.
Following(t, ms) ==
    LET after[i \in 0..Len(ms)] ==
            IF i = 0 THEN t
            ELSE CHOOSE u \in {IF ms[i].kind = "sync" THEN s ELSE Apply(s, ms[i]) :
                                  s \in {after[i - 1]}} : TRUE
    IN  after[Len(ms)]

\* A worker that has seen every change since the manager knew any node, and
\* has not had to load an answer, is only behind: once the messages under way
\* to it are applied it has the manager's table, to the version.
BroadcastsSuffice == \A w \in intact : Following(tab[w], down[w]) = mgr

\* A path that is replaced by a later registration of the same host does not
\* come back, as long as the later one is there ("the old can not replace the
\* new", check_zk_node_host), in the manager and in every worker.
NoOldForNew(t, u) ==
    \A p \in t.zk, q \in u.zk : host[p] = host[q] => active_time[p] <= active_time[q]

OldNeverReplacesNew ==
    [][/\ NoOldForNew(mgr, mgr') \/ OnZkRegister
       /\ \A w \in Workers :
             \/ down[w] = <<>> \/ down'[w] # Tail(down[w])
             \/ Head(down[w]).kind \in {"reg", "sync"}
             \/ NoOldForNew(tab[w], tab'[w])]_vars

\* Whatever is added, replaced, removed or loaded again, a key is sent to
\* another worker only if its worker went or the other one is new
\* (get_node_in_hash; nodes.h: "ketama algorithm for node's distribution").
KeysStay ==
    [][KeysMoveOnly(mgr, mgr') /\ \A w \in Workers : KeysMoveOnly(tab[w], tab'[w])]_vars

-----------------------------------------------------------------------------
(* What a comment says, and the code does not do *)

\* nodes.proto: "sync zk nodes data betwwen manager and worker."  A worker
\* comes to know a node that the manager knows, unless the manager drops it.
SyncReachesWorker ==
    \A w \in Workers, p \in Paths :
        p \in mgr.zk ~> p \in tab[w].zk \/ p \notin mgr.zk
=============================================================================
