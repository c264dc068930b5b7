----------------------------- MODULE NodeTable -----------------------------
(***************************************************************************)
(* The table of the cluster's nodes (nodes.cpp) as a value and the         *)
(* operations on it.  A zookeeper path stands for the zk_node stored there: *)
(* a node writes its data once, when it registers, and a node that         *)
(* registers again gets a new path and a later active_time.                *)
(***************************************************************************)
EXTENDS Integers, FiniteSets, SequencesExt

CONSTANTS
    Paths,        \* zookeeper paths of nodes
    Hosts,        \* "host:port" of nodes
    Keys,         \* points of the ring, and hashes of what is looked up there
    host,         \* path -> host
    node_type,    \* path -> type of the node
    worker_cnt,   \* path -> number of workers
    active_time,  \* path -> when it registered
    vnodes        \* node id -> its points on the ring (gen_vnodes)

\* m_nodes has an entry for every worker of a node (format_nodes_id).
NodesOf(p) == {<<host[p], i>> : i \in 1..worker_cnt[p]}

NodeIds == UNION {NodesOf(p) : p \in Paths}

\* Points that two nodes have: md5 sums of different ids that collide.
Collisions == {x \in Keys : \E n, o \in NodeIds : n # o /\ x \in vnodes[n] \cap vnodes[o]}

\* Every node has a point of its own, so that add_node does not fail.
ASSUME DataAssumption ==
    /\ Keys \subseteq Nat
    /\ IsFiniteSet(Paths) /\ DOMAIN node_type = Paths
    /\ host \in [Paths -> Hosts]
    /\ worker_cnt \in [Paths -> Nat \ {0}]
    /\ active_time \in [Paths -> Nat]
    /\ \A p, q \in Paths : host[p] = host[q] /\ active_time[p] = active_time[q] => p = q
    /\ vnodes \in [NodeIds -> SUBSET Keys]
    /\ \A n \in NodeIds : vnodes[n] \ Collisions # {}

\* m_zk_nodes, m_host_zk_paths, m_nodes, m_vnodes and m_version.
EmptyTable == [zk |-> {}, hosts |-> <<>>, nodes |-> {}, ring |-> <<>>, version |-> 0]

With(f, x, y) == [z \in DOMAIN f \cup {x} |-> IF z = x THEN y ELSE f[z]]
Without(f, x) == [z \in DOMAIN f \ {x} |-> f[z]]

-----------------------------------------------------------------------------
(* The ring: m_vnodes, by type and point *)

PointsOf(type, N) == {type} \X UNION {vnodes[n] : n \in N}

\* The first of the workers N of a node that has the point k.
FirstAt(N, k) ==
    CHOOSE n \in N : k \in vnodes[n] /\ \A m \in N : k \in vnodes[m] => n[2] <= m[2]

\* add_node for each worker of a node: a point that is taken stays with the
\* node that has it.
add_nodes(t, type, N) ==
    LET new == N \ t.nodes
    IN  [t EXCEPT !.nodes = @ \cup new, !.version = @ + Cardinality(new),
                  !.ring = [x \in DOMAIN @ \cup PointsOf(type, new) |->
                               IF x \in DOMAIN @ THEN @[x] ELSE FirstAt(new, x[2])]]

\* Mutant: the points of the node stay on the ring.
del_nodes_Dangles(t, type, N) ==
    [t EXCEPT !.nodes = @ \ N, !.version = @ + Cardinality(t.nodes \cap N)]

\* del_node for each worker of a node: its points leave the ring, whoever has
\* them.
del_nodes(t, type, N) ==
    [t EXCEPT !.nodes = @ \ N, !.version = @ + Cardinality(t.nodes \cap N),
              !.ring = Restrict(@, DOMAIN @ \ PointsOf(type, t.nodes \cap N))]

\* Mutant: the point is chosen by the number of points.
get_node_in_hash_Modulo(t, type, key) ==
    LET points == {x \in DOMAIN t.ring : x[1] = type}
    IN  {x \in points : Cardinality({y \in points : y[2] < x[2]}) = key % Cardinality(points)}

\* get_node_in_hash: the entry that the ring has for a key, the first point
\* from the key on, or else the first one; none if the type has no node.
get_node_in_hash(t, type, key) ==
    LET points == {x[2] : x \in {y \in DOMAIN t.ring : y[1] = type}}
        later == {x \in points : x >= key}
    IN  IF points = {} THEN {}
        ELSE {<<type, Min(IF later = {} THEN points ELSE later)>>}

-----------------------------------------------------------------------------
(* Nodes of zookeeper *)

del_zk_node(t, p) ==
    IF p \notin t.zk THEN t
    ELSE [del_nodes(t, node_type[p], NodesOf(p))
             EXCEPT !.zk = @ \ {p}, !.hosts = Without(@, host[p])]

\* The other path that has p's host, if m_host_zk_paths and m_zk_nodes know one.
Rivals(t, p) ==
    IF host[p] \in DOMAIN t.hosts THEN ({t.hosts[host[p]]} \cap t.zk) \ {p} ELSE {}

\* Mutant: whoever comes last replaces the other.
check_zk_node_host_AnyTime(t, p) == TRUE

\* check_zk_node_host: the old can not replace the new.
check_zk_node_host(t, p) == \A q \in Rivals(t, p) : active_time[p] > active_time[q]

\* ... and the new replaces the old.
RemoveRivals(t, p) ==
    IF Rivals(t, p) = {} THEN t ELSE del_zk_node(t, CHOOSE q \in Rivals(t, p) : TRUE)

\* add_zk_node for a path that passed the check.
Insert(t, p) ==
    [IF p \in t.zk THEN t ELSE add_nodes(t, node_type[p], NodesOf(p))
        EXCEPT !.zk = @ \cup {p}, !.hosts = With(@, host[p], p)]

add_zk_node(t, p) ==
    IF check_zk_node_host(t, p) THEN Insert(RemoveRivals(t, p), p) ELSE t

\* clear leaves m_version alone.
clear(t) == [EmptyTable EXCEPT !.version = t.version]

\* add_zk_node, and whether it succeeded: the paths that were accepted so far.
Add(s, p) ==
    IF check_zk_node_host(s.table, p)
    THEN [table |-> add_zk_node(s.table, p), accepted |-> Append(s.accepted, p)]
    ELSE s

\* clear, then add_zk_node for each path: what there is after 0, 1, ... of them.
\* (TLC evaluates the member of a set once, and an argument wherever it occurs.)
Loading(t, paths) ==
    LET after[i \in 0..Len(paths)] ==
            IF i = 0 THEN [table |-> clear(t), accepted |-> <<>>]
            ELSE CHOOSE u \in {Add(s, paths[i]) : s \in {after[i - 1]}} : TRUE
    IN  after

Load(t, paths) == Loading(t, paths)[Len(paths)].table

\* The paths whose add_zk_node succeeds in Load.
Accepted(t, paths) == Loading(t, paths)[Len(paths)].accepted

\* Mutant: nodes of other types are no children either.
get_zk_diff_nodes_AnyType(t, type, children) ==
    [adds |-> children \ t.zk, dels |-> t.zk \ children]

\* get_zk_diff_nodes: what of the children of a type's parent is unknown, and
\* what is known but no child any more.
get_zk_diff_nodes(t, type, children) ==
    LET known == {p \in t.zk : node_type[p] = type}
    IN  [adds |-> children \ known, dels |-> known \ children]

-----------------------------------------------------------------------------
IsTable(t) ==
    /\ t.zk \subseteq Paths /\ t.nodes \subseteq NodeIds /\ t.version \in Nat
    /\ DOMAIN t.hosts \subseteq Hosts /\ Range(t.hosts) \subseteq Paths
    /\ DOMAIN t.ring \subseteq Range(node_type) \X Keys /\ Range(t.ring) \subseteq NodeIds

\* The three maps describe the same nodes, with one path for every host: a
\* message is routed to exactly the workers of registered nodes, whatever was
\* replaced, removed or loaded again.
Consistent(t) ==
    /\ t.nodes = UNION {NodesOf(p) : p \in t.zk}
    /\ \A p, q \in t.zk : host[p] = host[q] => p = q
    /\ t.hosts = [h \in {host[p] : p \in t.zk} |-> CHOOSE p \in t.zk : host[p] = h]

\* The ring leads to registered workers only, and every worker has all of its
\* points that it shares with no other.
RingRight(t) ==
    /\ \A x \in DOMAIN t.ring : t.ring[x] \in t.nodes /\ x[2] \in vnodes[t.ring[x]]
    /\ \A p \in t.zk : \A n \in NodesOf(p) :
          \A x \in vnodes[n] \ Collisions :
              <<node_type[p], x>> \in DOMAIN t.ring /\ t.ring[<<node_type[p], x>>] = n

\* The nodes of a type that keys may lead to.
OnRing(t, type) == {t.ring[x] : x \in {y \in DOMAIN t.ring : y[1] = type}}

\* Between t and u a key may move only from a node that u lacks or to one that
\* t lacks, unless it is found by a point that two nodes share.
KeysMoveOnly(t, u) == t.ring = u.ring \/
    \A type \in Range(node_type), key \in Keys :
        \A x \in get_node_in_hash(t, type, key), y \in get_node_in_hash(u, type, key) :
            \/ t.ring[x] = u.ring[y]
            \/ t.ring[x] \notin OnRing(u, type)
            \/ u.ring[y] \notin OnRing(t, type)
            \/ {x[2], y[2]} \cap Collisions # {}
=============================================================================
