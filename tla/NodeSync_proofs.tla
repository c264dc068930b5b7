--------------------------- MODULE NodeSync_proofs ---------------------------
(***************************************************************************)
(* TLAPS proofs about NodeTable and NodeSync, for every set of paths,      *)
(* hosts, types and points of the ring and any number of workers: the      *)
(* tables of nodes stay consistent, the old does not replace the new, keys *)
(* keep their nodes, and broadcasts are all that a worker needs.           *)
(***************************************************************************)
EXTENDS NodeSync, SequenceTheorems, FiniteSetTheorems,
        WellFoundedInduction, TLAPS

-----------------------------------------------------------------------------
(* Sequences, and least numbers *)

\* The elements of a sequence, by index.
LEMMA RangeFacts ==
    ASSUME NEW S, NEW s \in Seq(S)
    PROVE  /\ DOMAIN s = 1..Len(s)
           /\ Len(s) \in Nat
           /\ Range(s) = {s[j] : j \in 1..Len(s)}
           /\ Range(s) \subseteq S
  BY LenProperties, ElementOfSeq DEF Range

\* An enumeration of a finite set has all of its elements, each once.
LEMMA SetToSeqsFacts ==
    ASSUME NEW S, IsFiniteSet(S), NEW s \in SetToSeqs(S)
    PROVE  /\ s \in Seq(S)
           /\ Range(s) = S
           /\ IsInjective(s)
           /\ Len(s) = Cardinality(S)
  <1> DEFINE n == Cardinality(S)
  <1>1. n \in Nat
    BY FS_CardinalityType
  <1>2. s \in [1..n -> S] /\ \A i, j \in 1..n : i # j => s[i] # s[j]
    BY DEF SetToSeqs
  <1>3. s \in Seq(S) /\ Len(s) = n
    BY <1>1, <1>2
  <1>4. IsFiniteSet(1..n) /\ Cardinality(1..n) = n
    BY <1>1, FS_Interval
  <1>5. s \in Surjection(1..n, S)
    <2>1. s \in Injection(1..n, S)
      BY <1>2 DEF Injection, IsInjective
    <2> QED
      BY <1>4, <2>1, FS_Injection
  <1> QED
    BY <1>2, <1>3, <1>5 DEF Range, IsInjective, Surjection

\* A non-empty set of numbers has a least one.  With it, what a recursive
\* function computes is proved as usual: a least place where it fails is
\* neither the first one nor one after a place where it holds.
LEMMA LeastNatural ==
    ASSUME NEW T, T \subseteq Nat, T # {}
    PROVE  \E x \in T : \A y \in T : x <= y
  <1> DEFINE R == {ss \in Nat \X Nat : ss[1] < ss[2]}
  <1>1. IsWellFoundedOn(R, Nat)
    BY NatLessThanWellFounded DEF OpToRel
  <1>2. \A x, y \in Nat : x < y => <<x, y>> \in R
    OBVIOUS
  <1> HIDE DEF R
  <1>3. PICK x \in T : \A y \in T : ~(<<y, x>> \in R)
    BY <1>1, WFMin
  <1>4. ASSUME NEW y \in T PROVE x <= y
    <2>1. x \in Nat /\ y \in Nat /\ ~(y < x)
      BY <1>2, <1>3
    <2> QED
      BY <2>1
  <1> QED
    BY <1>4

-----------------------------------------------------------------------------
(* Tables *)

\* Every entry of the ring is a point of a worker of a registered node of the
\* entry's type, and a worker has all points that it shares with no other.
RingInv(t) ==
    /\ \A x \in DOMAIN t.ring :
          \E p \in t.zk : /\ x[1] = node_type[p] /\ t.ring[x] \in NodesOf(p)
                          /\ x[2] \in vnodes[t.ring[x]]
    /\ \A p \in t.zk : \A n \in NodesOf(p) :
          \A x \in vnodes[n] \ Collisions :
              <<node_type[p], x>> \in DOMAIN t.ring /\ t.ring[<<node_type[p], x>>] = n

\* t is a table, and its maps and its ring agree.
TableInv(t) ==
    /\ t = [zk |-> t.zk, hosts |-> t.hosts, nodes |-> t.nodes,
            ring |-> t.ring, version |-> t.version]
    /\ IsTable(t)
    /\ Consistent(t)
    /\ RingInv(t)

\* The workers of a node.
LEMMA NodeFacts ==
    ASSUME NEW p \in Paths
    PROVE  /\ host[p] \in Hosts /\ NodesOf(p) \subseteq NodeIds
           /\ \A n \in NodesOf(p) : n[1] = host[p] /\ n[2] \in Nat
           /\ \A n, m \in NodesOf(p) : n[2] = m[2] => n = m
           /\ IsFiniteSet(NodesOf(p))
           /\ \A q \in Paths : host[q] # host[p] => NodesOf(p) \cap NodesOf(q) = {}
           /\ node_type[p] \in Range(node_type)
           /\ \A n \in NodesOf(p) : vnodes[n] \subseteq Keys
  <1>1. host[p] \in Hosts /\ worker_cnt[p] \in Nat
    BY DataAssumption
  <1>2. NodesOf(p) \subseteq NodeIds
    BY DEF NodeIds
  <1>3. \A n \in NodesOf(p) : n[1] = host[p] /\ n[2] \in Nat
    BY <1>1 DEF NodesOf
  <1>4. \A n, m \in NodesOf(p) : n[2] = m[2] => n = m
    BY DEF NodesOf
  <1>5. IsFiniteSet(NodesOf(p))
    <2> DEFINE f == [i \in 1..worker_cnt[p] |-> <<host[p], i>>]
    <2>1. IsFiniteSet(1..worker_cnt[p])
      BY <1>1, FS_Interval
    <2>2. f \in Surjection(1..worker_cnt[p], NodesOf(p))
      BY DEF NodesOf, Surjection
    <2> QED
      BY <2>1, <2>2, FS_Surjection
  <1>6. \A q \in Paths : host[q] # host[p] => NodesOf(p) \cap NodesOf(q) = {}
    BY DEF NodesOf
  <1>7. node_type[p] \in Range(node_type)
    BY DataAssumption DEF Range
  <1>8. \A n \in NodesOf(p) : vnodes[n] \subseteq Keys
    BY <1>2, DataAssumption
  <1> QED
    BY <1>1, <1>2, <1>3, <1>4, <1>5, <1>6, <1>7, <1>8

\* A point that is no collision belongs to one worker.
LEMMA OwnPoint ==
    ASSUME NEW n \in NodeIds, NEW m \in NodeIds, NEW x \in vnodes[n] \ Collisions, x \in vnodes[m]
    PROVE  n = m
  BY DataAssumption DEF Collisions

\* The map of hosts, by path.
LEMMA HostsFacts ==
    ASSUME NEW t
    PROVE  Consistent(t) <=>
             /\ t.nodes = UNION {NodesOf(p) : p \in t.zk}
             /\ \A p, q \in t.zk : host[p] = host[q] => p = q
             /\ t.hosts = [h \in DOMAIN t.hosts |-> t.hosts[h]]
             /\ DOMAIN t.hosts = {host[p] : p \in t.zk}
             /\ \A p \in t.zk : t.hosts[host[p]] = p
  <1>1. ASSUME Consistent(t)
        PROVE  /\ t.hosts = [h \in DOMAIN t.hosts |-> t.hosts[h]]
               /\ DOMAIN t.hosts = {host[p] : p \in t.zk}
               /\ \A p \in t.zk : t.hosts[host[p]] = p
    BY <1>1 DEF Consistent
  <1>2. ASSUME \A p, q \in t.zk : host[p] = host[q] => p = q,
               t.hosts = [h \in DOMAIN t.hosts |-> t.hosts[h]],
               DOMAIN t.hosts = {host[p] : p \in t.zk},
               \A p \in t.zk : t.hosts[host[p]] = p
        PROVE  t.hosts = [h \in {host[p] : p \in t.zk} |-> CHOOSE p \in t.zk : host[p] = h]
    <2>1. ASSUME NEW h \in DOMAIN t.hosts
          PROVE  t.hosts[h] = CHOOSE p \in t.zk : host[p] = h
      <3>1. PICK p \in t.zk : h = host[p]
        BY <1>2
      <3>2. p = CHOOSE q \in t.zk : host[q] = h
        BY <1>2, <3>1
      <3> QED
        BY <1>2, <3>1, <3>2
    <2> QED
      BY <1>2, <2>1
  <1> QED
    BY <1>1, <1>2 DEF Consistent

-----------------------------------------------------------------------------
(* Operations on a table *)

\* The table that nothing was entered into.
LEMMA EmptyTableInv ==
    /\ TableInv(EmptyTable)
    /\ \A t : TableInv(t) => TableInv(clear(t))
  <1>1. ASSUME NEW u, NEW v \in Nat,
               u = [zk |-> {}, hosts |-> <<>>, nodes |-> {}, ring |-> <<>>, version |-> v]
        PROVE  TableInv(u)
    <2>1. /\ u.zk = {} /\ u.hosts = <<>> /\ u.nodes = {} /\ u.ring = <<>> /\ u.version = v
      BY <1>1
    <2>2. DOMAIN <<>> = {} /\ Range(<<>>) = {}
      BY DEF Range
    <2>3. IsTable(u)
      BY <2>1, <2>2 DEF IsTable
    <2>4. Consistent(u)
      <3>1. u.hosts = [h \in DOMAIN u.hosts |-> u.hosts[h]]
        BY <2>1
      <3> QED
        BY <2>1, <2>2, <3>1, HostsFacts
    <2>5. RingInv(u)
      BY <2>1, <2>2 DEF RingInv
    <2> QED
      BY <1>1, <2>1, <2>3, <2>4, <2>5 DEF TableInv
  <1>2. TableInv(EmptyTable)
    BY <1>1 DEF EmptyTable
  <1>3. ASSUME NEW t, TableInv(t)
        PROVE  TableInv(clear(t))
    <2>1. t.version \in Nat
      BY <1>3 DEF TableInv, IsTable
    <2> DEFINE none == <<>>
    <2> HIDE DEF none
    <2>2. [[zk |-> {}, hosts |-> none, nodes |-> {}, ring |-> none, version |-> 0]
              EXCEPT !.version = t.version] =
          [zk |-> {}, hosts |-> none, nodes |-> {}, ring |-> none, version |-> t.version]
      OBVIOUS
    <2> QED
      BY <1>1, <2>1, <2>2 DEF clear, EmptyTable, none
  <1> QED
    BY <1>2, <1>3

\* del_zk_node removes one path, with its host, its workers and their points.
LEMMA DelFacts ==
    ASSUME NEW t, TableInv(t), NEW p \in t.zk
    PROVE  LET u == del_zk_node(t, p)
           IN  /\ u.zk = t.zk \ {p} /\ TableInv(u)
  <1> DEFINE N == NodesOf(p)
             type == node_type[p]
             zk == t.zk \ {p}
             hosts == Without(t.hosts, host[p])
             nodes == t.nodes \ N
             ring == Restrict(t.ring, DOMAIN t.ring \ PointsOf(type, t.nodes \cap N))
             version == t.version + Cardinality(t.nodes \cap N)
             u == del_zk_node(t, p)
  <1>1. u = [zk |-> zk, hosts |-> hosts, nodes |-> nodes, ring |-> ring, version |-> version]
    BY DEF del_zk_node, del_nodes, TableInv
  <1>2. /\ t.zk \subseteq Paths /\ p \in Paths /\ t.version \in Nat
        /\ DOMAIN t.hosts \subseteq Hosts /\ Range(t.hosts) \subseteq Paths
        /\ DOMAIN t.ring \subseteq Range(node_type) \X Keys /\ Range(t.ring) \subseteq NodeIds
        /\ t.nodes \subseteq NodeIds
    BY DEF TableInv, IsTable
  <1>3. /\ t.nodes = UNION {NodesOf(q) : q \in t.zk}
        /\ \A q, r \in t.zk : host[q] = host[r] => q = r
        /\ DOMAIN t.hosts = {host[q] : q \in t.zk}
        /\ \A q \in t.zk : t.hosts[host[q]] = q
    BY HostsFacts DEF TableInv
  <1>4. \A q \in zk : host[q] # host[p] /\ NodesOf(q) \cap N = {}
    BY <1>2, <1>3, NodeFacts
  <1>5. t.nodes \cap N = N /\ IsFiniteSet(N)
    BY <1>2, <1>3, NodeFacts
  <1>6. version \in Nat
    <2>1. Cardinality(N) \in Nat
      BY <1>5, FS_CardinalityType
    <2> QED
      BY <1>2, <1>5, <2>1
  <1>7. /\ DOMAIN hosts = DOMAIN t.hosts \ {host[p]}
        /\ \A h \in DOMAIN hosts : hosts[h] = t.hosts[h]
        /\ hosts = [h \in DOMAIN hosts |-> hosts[h]]
    BY DEF Without
  <1>8. /\ DOMAIN ring = DOMAIN t.ring \ PointsOf(type, N)
        /\ \A x \in DOMAIN ring : ring[x] = t.ring[x]
    BY <1>5 DEF Restrict
  <1> HIDE DEF hosts, ring, version, u
  <1>9. nodes = UNION {NodesOf(q) : q \in zk}
    BY <1>3, <1>4
  <1>10. DOMAIN hosts = {host[q] : q \in zk} /\ \A q \in zk : hosts[host[q]] = q
    BY <1>3, <1>4, <1>7
  <1>11. IsTable(u)
    <2>1. Range(hosts) \subseteq Paths /\ DOMAIN hosts \subseteq Hosts
      BY <1>2, <1>7 DEF Range
    <2>2. Range(ring) \subseteq NodeIds /\ DOMAIN ring \subseteq Range(node_type) \X Keys
      BY <1>2, <1>8 DEF Range
    <2> QED
      BY <1>1, <1>2, <1>6, <2>1, <2>2 DEF IsTable
  <1>12. Consistent(u)
    BY <1>1, <1>3, <1>7, <1>9, <1>10, HostsFacts
  <1>13. RingInv(u)
    <2>1. ASSUME NEW x \in DOMAIN ring
          PROVE  \E q \in zk : /\ x[1] = node_type[q] /\ ring[x] \in NodesOf(q)
                               /\ x[2] \in vnodes[ring[x]]
      <3>1. PICK q \in t.zk : /\ x[1] = node_type[q] /\ t.ring[x] \in NodesOf(q)
                              /\ x[2] \in vnodes[t.ring[x]]
        BY <1>8 DEF TableInv, RingInv
      <3>2. q # p
        <4>1. SUFFICES ASSUME q = p PROVE FALSE
          OBVIOUS
        <4>2. x = <<x[1], x[2]>>
          BY <1>2, <1>8
        <4>3. x \in PointsOf(type, N)
          BY <3>1, <4>1, <4>2 DEF PointsOf
        <4> QED
          BY <1>8, <4>3
      <3> QED
        BY <1>8, <3>1, <3>2
    <2>2. ASSUME NEW q \in zk, NEW n \in NodesOf(q), NEW x \in vnodes[n] \ Collisions
          PROVE  <<node_type[q], x>> \in DOMAIN ring /\ ring[<<node_type[q], x>>] = n
      <3>1. /\ <<node_type[q], x>> \in DOMAIN t.ring
            /\ t.ring[<<node_type[q], x>>] = n
        BY DEF TableInv, RingInv
      <3>2. n \in NodeIds /\ n \notin N /\ N \subseteq NodeIds
        BY <1>2, <1>4, NodeFacts
      <3>3. \A m \in N : x \notin vnodes[m]
        BY <3>2, OwnPoint
      <3>4. <<node_type[q], x>> \notin PointsOf(type, N)
        BY <3>3 DEF PointsOf
      <3> QED
        BY <1>8, <3>1, <3>4
    <2> QED
      BY <1>1, <2>1, <2>2 DEF RingInv
  <1> QED
    BY <1>1, <1>11, <1>12, <1>13 DEF TableInv, u

\* A point of some of the workers has a first one among them.
LEMMA FirstAtFacts ==
    ASSUME NEW p \in Paths, NEW k, NEW n \in NodesOf(p), k \in vnodes[n]
    PROVE  FirstAt(NodesOf(p), k) \in NodesOf(p) /\ k \in vnodes[FirstAt(NodesOf(p), k)]
  <1> DEFINE N == NodesOf(p)
             T == {m[2] : m \in {m \in N : k \in vnodes[m]}}
  <1>1. T \subseteq Nat /\ T # {}
    BY NodeFacts
  <1>2. PICK i \in T : \A j \in T : i <= j
    BY <1>1, LeastNatural
  <1>3. PICK m \in N : k \in vnodes[m] /\ i = m[2]
    OBVIOUS
  <1>4. \A o \in N : k \in vnodes[o] => m[2] <= o[2]
    BY <1>2, <1>3
  <1> QED
    BY <1>3, <1>4 DEF FirstAt

\* add_zk_node for a path whose host has no other: one path more, with its
\* host, its workers and their points, where those are free.
LEMMA InsertFacts ==
    ASSUME NEW t, TableInv(t), NEW p \in Paths, p \notin t.zk,
           \A q \in t.zk : host[q] # host[p]
    PROVE  LET u == Insert(t, p)
           IN  /\ u.zk = t.zk \cup {p} /\ TableInv(u)
  <1> DEFINE N == NodesOf(p)
             type == node_type[p]
             zk == t.zk \cup {p}
             hosts == With(t.hosts, host[p], p)
             nodes == t.nodes \cup N
             ring == [x \in DOMAIN t.ring \cup PointsOf(type, N) |->
                         IF x \in DOMAIN t.ring THEN t.ring[x] ELSE FirstAt(N, x[2])]
             version == t.version + Cardinality(N)
             u == Insert(t, p)
  <1>1. /\ t.zk \subseteq Paths /\ p \in Paths /\ t.version \in Nat
        /\ DOMAIN t.hosts \subseteq Hosts /\ Range(t.hosts) \subseteq Paths
        /\ DOMAIN t.ring \subseteq Range(node_type) \X Keys /\ Range(t.ring) \subseteq NodeIds
        /\ t.nodes \subseteq NodeIds
    BY DEF TableInv, IsTable
  <1>2. /\ t.nodes = UNION {NodesOf(q) : q \in t.zk}
        /\ \A q, r \in t.zk : host[q] = host[r] => q = r
        /\ DOMAIN t.hosts = {host[q] : q \in t.zk}
        /\ \A q \in t.zk : t.hosts[host[q]] = q
    BY HostsFacts DEF TableInv
  <1>3. N \cap t.nodes = {} /\ N \ t.nodes = N /\ IsFiniteSet(N)
    BY <1>1, <1>2, NodeFacts
  <1>4. u = [zk |-> zk, hosts |-> hosts, nodes |-> nodes, ring |-> ring, version |-> version]
    <2>1. add_nodes(t, type, N) = [t EXCEPT !.nodes = nodes, !.version = version, !.ring = ring]
      BY <1>3 DEF add_nodes
    <2> HIDE DEF ring, hosts, version
    <2>2. u = [[t EXCEPT !.nodes = nodes, !.version = version, !.ring = ring]
                  EXCEPT !.zk = @ \cup {p}, !.hosts = With(@, host[p], p)]
      BY <2>1 DEF Insert
    <2>3. t = [zk |-> t.zk, hosts |-> t.hosts, nodes |-> t.nodes,
               ring |-> t.ring, version |-> t.version]
      BY DEF TableInv
    <2> QED
      BY <2>2, <2>3 DEF hosts
  <1>5. version \in Nat
    BY <1>1, <1>3, FS_CardinalityType
  <1>6. /\ DOMAIN hosts = DOMAIN t.hosts \cup {host[p]}
        /\ \A h \in DOMAIN hosts : hosts[h] = IF h = host[p] THEN p ELSE t.hosts[h]
        /\ hosts = [h \in DOMAIN hosts |-> hosts[h]]
    BY DEF With
  <1>7. /\ DOMAIN ring = DOMAIN t.ring \cup PointsOf(type, N)
        /\ \A x \in DOMAIN ring :
              ring[x] = IF x \in DOMAIN t.ring THEN t.ring[x] ELSE FirstAt(N, x[2])
    OBVIOUS
  <1>8. ASSUME NEW x \in PointsOf(type, N)
        PROVE  /\ x \in Range(node_type) \X Keys /\ x[1] = type /\ x = <<x[1], x[2]>>
               /\ FirstAt(N, x[2]) \in N /\ x[2] \in vnodes[FirstAt(N, x[2])]
    <2>1. PICK n \in N : x[2] \in vnodes[n] /\ x[1] = type /\ x = <<x[1], x[2]>>
      BY DEF PointsOf
    <2> QED
      BY <2>1, FirstAtFacts, NodeFacts
  <1> HIDE DEF hosts, ring, version, u
  <1>9. nodes = UNION {NodesOf(q) : q \in zk}
    BY <1>2
  <1>10. DOMAIN hosts = {host[q] : q \in zk} /\ \A q \in zk : hosts[host[q]] = q
    BY <1>2, <1>6
  <1>11. IsTable(u)
    <2>1. Range(hosts) \subseteq Paths /\ DOMAIN hosts \subseteq Hosts
      <3>1. \A h \in DOMAIN hosts : hosts[h] \in Paths /\ h \in Hosts
        BY <1>1, <1>6, NodeFacts DEF Range
      <3> QED
        BY <3>1 DEF Range
    <2>2. Range(ring) \subseteq NodeIds /\ DOMAIN ring \subseteq Range(node_type) \X Keys
      <3>1. N \subseteq NodeIds
        BY NodeFacts
      <3>2. \A x \in DOMAIN ring : ring[x] \in NodeIds /\ x \in Range(node_type) \X Keys
        BY <1>1, <1>7, <1>8, <3>1 DEF Range
      <3> QED
        BY <3>2 DEF Range
    <2>3. zk \subseteq Paths /\ nodes \subseteq NodeIds
      BY <1>1, NodeFacts
    <2> QED
      BY <1>4, <1>5, <2>1, <2>2, <2>3 DEF IsTable
  <1>12. Consistent(u)
    <2>1. \A q, r \in zk : host[q] = host[r] => q = r
      BY <1>2
    <2> QED
      BY <1>4, <1>6, <1>9, <1>10, <2>1, HostsFacts
  <1>13. RingInv(u)
    <2>1. ASSUME NEW x \in DOMAIN ring
          PROVE  \E q \in zk : /\ x[1] = node_type[q] /\ ring[x] \in NodesOf(q)
                               /\ x[2] \in vnodes[ring[x]]
      <3>1. CASE x \in DOMAIN t.ring
        <4>1. PICK q \in t.zk : /\ x[1] = node_type[q] /\ t.ring[x] \in NodesOf(q)
                                /\ x[2] \in vnodes[t.ring[x]]
          BY <3>1 DEF TableInv, RingInv
        <4> QED
          BY <1>7, <3>1, <4>1
      <3>2. CASE x \notin DOMAIN t.ring
        BY <1>7, <1>8, <3>2
      <3> QED
        BY <3>1, <3>2
    <2>2. ASSUME NEW q \in t.zk, NEW n \in NodesOf(q), NEW x \in vnodes[n] \ Collisions
          PROVE  <<node_type[q], x>> \in DOMAIN ring /\ ring[<<node_type[q], x>>] = n
      <3>1. /\ <<node_type[q], x>> \in DOMAIN t.ring
            /\ t.ring[<<node_type[q], x>>] = n
        BY DEF TableInv, RingInv
      <3> QED
        BY <1>7, <3>1
    <2>3. ASSUME NEW n \in N, NEW x \in vnodes[n] \ Collisions
          PROVE  <<type, x>> \in DOMAIN ring /\ ring[<<type, x>>] = n
      <3> DEFINE y == <<type, x>>
      <3>1. y \in PointsOf(type, N) /\ y[2] = x
        BY DEF PointsOf
      <3>2. n \in NodeIds /\ N \subseteq NodeIds
        BY NodeFacts
      <3>3. y \notin DOMAIN t.ring
        <4>1. SUFFICES ASSUME y \in DOMAIN t.ring PROVE FALSE
          OBVIOUS
        <4>2. PICK q \in t.zk : t.ring[y] \in NodesOf(q) /\ y[2] \in vnodes[t.ring[y]]
          BY <4>1 DEF TableInv, RingInv
        <4>3. t.ring[y] \in NodeIds /\ t.ring[y] \in t.nodes
          BY <1>1, <1>2, <4>2
        <4>4. n = t.ring[y]
          BY <3>1, <3>2, <4>2, <4>3, OwnPoint
        <4> QED
          BY <1>3, <4>3, <4>4
      <3>4. FirstAt(N, x) \in N /\ x \in vnodes[FirstAt(N, x)]
        BY FirstAtFacts
      <3>5. FirstAt(N, x) = n
        BY <3>2, <3>4, OwnPoint
      <3> QED
        BY <1>7, <3>1, <3>3, <3>5
    <2> QED
      BY <1>4, <2>1, <2>2, <2>3 DEF RingInv
  <1> QED
    BY <1>4, <1>11, <1>12, <1>13 DEF TableInv, u

\* The path that has p's host, if it is another one.
LEMMA RivalsFacts ==
    ASSUME NEW t, TableInv(t), NEW p \in Paths
    PROVE  Rivals(t, p) = {q \in t.zk : host[q] = host[p] /\ q # p}
  <1>1. /\ \A q, r \in t.zk : host[q] = host[r] => q = r
        /\ DOMAIN t.hosts = {host[q] : q \in t.zk}
        /\ \A q \in t.zk : t.hosts[host[q]] = q
    BY HostsFacts DEF TableInv
  <1>2. CASE host[p] \in DOMAIN t.hosts
    <2>1. PICK q \in t.zk : host[q] = host[p]
      BY <1>1, <1>2
    <2>2. Rivals(t, p) = {q} \ {p}
      BY <1>1, <1>2, <2>1 DEF Rivals
    <2> QED
      BY <1>1, <2>1, <2>2
  <1>3. CASE host[p] \notin DOMAIN t.hosts
    BY <1>1, <1>3 DEF Rivals
  <1> QED
    BY <1>2, <1>3

\* No path is replaced by an older one of its host where only paths are removed.
LEMMA FewerPaths ==
    ASSUME NEW t, TableInv(t), NEW u, u.zk \subseteq t.zk
    PROVE  NoOldForNew(t, u)
  <1>1. t.zk \subseteq Paths /\ \A p, q \in t.zk : host[p] = host[q] => p = q
    BY DEF TableInv, IsTable, Consistent
  <1>2. \A p \in t.zk : active_time[p] \in Nat
    BY <1>1, DataAssumption
  <1> QED
    BY <1>1, <1>2 DEF NoOldForNew

\* add_zk_node: the newer of two paths of a host stays.
LEMMA AddFacts ==
    ASSUME NEW t, TableInv(t), NEW p \in Paths
    PROVE  LET u == add_zk_node(t, p)
           IN  /\ TableInv(u) /\ NoOldForNew(t, u)
  <1> DEFINE u == add_zk_node(t, p)
  <1>1. t.zk \subseteq Paths /\ \A q, r \in t.zk : host[q] = host[r] => q = r
    BY DEF TableInv, IsTable, Consistent
  <1>2. Rivals(t, p) = {q \in t.zk : host[q] = host[p] /\ q # p}
    BY RivalsFacts
  <1>3. CASE ~ check_zk_node_host(t, p)
    <2>1. u = t
      BY <1>3 DEF add_zk_node
    <2> QED
      BY <2>1, FewerPaths
  <1>4. CASE check_zk_node_host(t, p) /\ p \in t.zk
    <2>1. Rivals(t, p) = {}
      BY <1>1, <1>2, <1>4
    <2>2. u = Insert(t, p)
      BY <1>4, <2>1 DEF add_zk_node, RemoveRivals
    <2>3. With(t.hosts, host[p], p) = t.hosts
      <3>1. /\ t.hosts = [h \in DOMAIN t.hosts |-> t.hosts[h]]
            /\ host[p] \in DOMAIN t.hosts /\ t.hosts[host[p]] = p
        BY <1>4, HostsFacts DEF TableInv
      <3> QED
        BY <3>1 DEF With
    <2>4. t.zk \cup {p} = t.zk
      BY <1>4
    <2>5. t = [zk |-> t.zk, hosts |-> t.hosts, nodes |-> t.nodes,
               ring |-> t.ring, version |-> t.version]
      BY DEF TableInv
    <2>6. u = t
      BY <1>4, <2>2, <2>3, <2>4, <2>5 DEF Insert
    <2> QED
      BY <2>6, FewerPaths
  <1>5. CASE check_zk_node_host(t, p) /\ p \notin t.zk
    <2> DEFINE v == RemoveRivals(t, p)
    <2>1. /\ v.zk \subseteq t.zk /\ TableInv(v) /\ \A q \in v.zk : host[q] # host[p]
          /\ \A q \in t.zk \ v.zk : active_time[p] > active_time[q]
      <3>1. CASE Rivals(t, p) = {}
        BY <1>2, <1>5, <3>1 DEF RemoveRivals
      <3>2. CASE Rivals(t, p) # {}
        <4>1. PICK q \in Rivals(t, p) : v = del_zk_node(t, q)
          BY <3>2 DEF RemoveRivals
        <4>2. q \in t.zk /\ host[q] = host[p] /\ active_time[p] > active_time[q]
          BY <1>2, <1>5, <4>1 DEF check_zk_node_host
        <4>3. v.zk = t.zk \ {q} /\ TableInv(v)
          BY <4>1, <4>2, DelFacts
        <4> QED
          BY <1>1, <4>2, <4>3
      <3> QED
        BY <3>1, <3>2
    <2>2. u = Insert(v, p)
      BY <1>5 DEF add_zk_node
    <2> HIDE DEF v, u
    <2>3. u.zk = v.zk \cup {p} /\ TableInv(u)
      BY <1>5, <2>1, <2>2, InsertFacts
    <2>4. NoOldForNew(t, u)
      <3>1. SUFFICES ASSUME NEW q \in t.zk, NEW r \in u.zk, host[q] = host[r]
                     PROVE  active_time[q] <= active_time[r]
        BY DEF NoOldForNew
      <3>2. active_time[q] \in Nat /\ active_time[r] \in Nat
        <4>1. u.zk \subseteq Paths
          BY <2>3 DEF TableInv, IsTable
        <4> QED
          BY <1>1, <4>1, DataAssumption
      <3>3. CASE r \in v.zk
        BY <1>1, <2>1, <3>1, <3>2, <3>3
      <3>4. CASE r = p
        BY <2>1, <3>1, <3>2, <3>4
      <3> QED
        BY <2>3, <3>3, <3>4
    <2> QED
      BY <2>3, <2>4 DEF u
  <1> QED
    BY <1>3, <1>4, <1>5

\* del_zk_node, of a path that may be unknown.
LEMMA RemoveFacts ==
    ASSUME NEW t, TableInv(t), NEW p
    PROVE  LET u == del_zk_node(t, p)
           IN  /\ TableInv(u) /\ NoOldForNew(t, u)
  <1>1. CASE p \notin t.zk
    BY <1>1, FewerPaths DEF del_zk_node
  <1>2. CASE p \in t.zk
    BY <1>2, DelFacts, FewerPaths
  <1> QED
    BY <1>1, <1>2

-----------------------------------------------------------------------------
(* The ring *)

\* The least of some natural numbers.
LEMMA MinFacts ==
    ASSUME NEW S, S \subseteq Nat, S # {}
    PROVE  Min(S) \in S /\ \A x \in S : Min(S) <= x
  BY LeastNatural DEF Min

\* A point of its own that a table's ring has for a node of a type leads to that
\* node in every table where the node has any point of the type.
LEMMA OwnPointStays ==
    ASSUME NEW t, TableInv(t), NEW u, TableInv(u), NEW type,
           NEW x \in DOMAIN t.ring, x[1] = type, x[2] \notin Collisions,
           t.ring[x] \in OnRing(u, type)
    PROVE  x \in DOMAIN u.ring /\ u.ring[x] = t.ring[x]
  <1>1. x[2] \in vnodes[t.ring[x]]
    BY DEF TableInv, RingInv
  <1>2. PICK y \in DOMAIN u.ring : y[1] = type /\ u.ring[y] = t.ring[x]
    BY DEF OnRing
  <1>3. PICK p \in u.zk : y[1] = node_type[p] /\ u.ring[y] \in NodesOf(p)
    BY DEF TableInv, RingInv
  <1>4. x = <<type, x[2]>>
    BY DEF TableInv, IsTable
  <1> QED
    BY <1>1, <1>2, <1>3, <1>4 DEF TableInv, RingInv

\* get_node_in_hash finds the same point in two rings when each has the point
\* that is found in the other; so a key does not move between nodes of both.
LEMMA KeysMove ==
    ASSUME NEW t, TableInv(t), NEW u, TableInv(u)
    PROVE  KeysMoveOnly(t, u)
  <1>1. SUFFICES ASSUME NEW type, NEW key \in Keys,
                        NEW x \in get_node_in_hash(t, type, key),
                        NEW y \in get_node_in_hash(u, type, key),
                        t.ring[x] \in OnRing(u, type), u.ring[y] \in OnRing(t, type),
                        x[2] \notin Collisions, y[2] \notin Collisions
                 PROVE  t.ring[x] = u.ring[y]
    BY DEF KeysMoveOnly
  <1> DEFINE Points(s) == {z[2] : z \in {z \in DOMAIN s.ring : z[1] = type}}
             Later(s) == {k \in Points(s) : k >= key}
             At(s) == Min(IF Later(s) = {} THEN Points(s) ELSE Later(s))
  <1>2. key \in Nat
    BY DataAssumption
  <1>3. ASSUME NEW s, TableInv(s), NEW z \in get_node_in_hash(s, type, key)
        PROVE  /\ z = <<type, At(s)>> /\ z \in DOMAIN s.ring
               /\ Points(s) \subseteq Nat /\ At(s) \in Points(s)
               /\ IF Later(s) = {} THEN \A k \in Points(s) : At(s) <= k
                  ELSE At(s) >= key /\ \A k \in Later(s) : At(s) <= k
    <2>1. \A a \in DOMAIN s.ring : a = <<a[1], a[2]>> /\ a[2] \in Nat
      BY <1>3, DataAssumption DEF TableInv, IsTable
    <2>2. Points(s) \subseteq Nat /\ Points(s) # {} /\ z = <<type, At(s)>>
      BY <2>1, <1>3 DEF get_node_in_hash
    <2>3. ASSUME At(s) \in Points(s)
          PROVE  z \in DOMAIN s.ring
      BY <2>1, <2>2, <2>3
    <2>4. CASE Later(s) = {}
      <3>1. At(s) = Min(Points(s))
        BY <2>4
      <3>2. At(s) \in Points(s) /\ \A k \in Points(s) : At(s) <= k
        BY <2>2, <3>1, MinFacts
      <3> QED
        BY <2>2, <2>3, <2>4, <3>2
    <2>5. CASE Later(s) # {}
      <3>1. At(s) = Min(Later(s))
        BY <2>5
      <3>2. At(s) \in Later(s) /\ \A k \in Later(s) : At(s) <= k
        BY <2>2, <2>5, <3>1, MinFacts
      <3> QED
        BY <2>2, <2>3, <2>5, <3>2
    <2> QED
      BY <2>4, <2>5
  <1>4. x = <<type, At(t)>> /\ x \in DOMAIN t.ring /\ y = <<type, At(u)>> /\ y \in DOMAIN u.ring
    BY <1>3
  <1>5. x \in DOMAIN u.ring /\ u.ring[x] = t.ring[x] /\ y \in DOMAIN t.ring
    <2> HIDE DEF At
    <2>1. x[1] = type /\ y[1] = type
      BY <1>4
    <2> QED
      BY <1>1, <1>4, <2>1, OwnPointStays
  <1>6. At(t) \in Points(u) /\ At(u) \in Points(t)
    <2> HIDE DEF At
    <2>1. x[1] = type /\ y[1] = type /\ x[2] = At(t) /\ y[2] = At(u)
      BY <1>4
    <2> QED
      BY <1>5, <2>1
  <1>7. At(t) = At(u)
    <2> HIDE DEF Points, At
    <2>1. /\ At(t) \in Nat /\ At(u) \in Nat
      BY <1>3, <1>6
    <2>2. CASE Later(t) = {}
      BY <1>2, <1>3, <1>6, <2>1, <2>2
    <2>3. CASE Later(t) # {}
      BY <1>2, <1>3, <1>6, <2>1, <2>3
    <2> QED
      BY <2>2, <2>3
  <1> QED
    BY <1>4, <1>5, <1>7

-----------------------------------------------------------------------------
(* Loading a table, and following the broadcasts: the recursive functions  *)
(* exist, and have the values that their definitions say.                  *)

\* The table and the accepted paths after each of the paths.
LEMMA LoadingFacts ==
    ASSUME NEW t, NEW paths, Len(paths) \in Nat
    PROVE  /\ Loading(t, paths)[0] = [table |-> clear(t), accepted |-> <<>>]
           /\ \A i \in 1..Len(paths) :
                 Loading(t, paths)[i] = Add(Loading(t, paths)[i - 1], paths[i])
  <1> DEFINE First == [table |-> clear(t), accepted |-> <<>>]
             Step(s, i) == Add(s, paths[i])
             Is(f, n) == f = [j \in 0..n |-> IF j = 0 THEN First
                                 ELSE CHOOSE u \in {Step(s, j) : s \in {f[j - 1]}} : TRUE]
             T == {n \in Nat : ~ \E f : Is(f, n)}
  <1>1. Loading(t, paths) = CHOOSE f : Is(f, Len(paths))
    BY DEF Loading
  <1> HIDE DEF First, Step
  <1>2. T = {}
    <2>1. SUFFICES ASSUME T # {} PROVE FALSE
      OBVIOUS
    <2>2. PICK n \in T : \A m \in T : n <= m
      BY <2>1, LeastNatural
    <2>3. n \in Nat /\ n # 0
      <3>1. Is([j \in 0..0 |-> First], 0)
        OBVIOUS
      <3> QED
        BY <2>2, <3>1
    <2>4. n - 1 \in Nat /\ n - 1 \notin T
      <3> HIDE DEF T
      <3> QED
        BY <2>2, <2>3
    <2>5. PICK f : Is(f, n - 1)
      BY <2>4
    <2> DEFINE g == [j \in 0..n |-> IF j = n THEN Step(f[n - 1], n) ELSE f[j]]
    <2>6. \A j \in 0..(n - 1) : g[j] = IF j = 0 THEN First ELSE Step(f[j - 1], j)
      BY <2>3, <2>5
    <2>7. g[n] = Step(f[n - 1], n) /\ \A j \in 0..(n - 1) : g[j] = f[j]
      BY <2>3
    <2>8. g = [j \in 0..n |-> g[j]]
      OBVIOUS
    <2> HIDE DEF g
    <2>9. ASSUME NEW j \in 0..n
          PROVE  g[j] = IF j = 0 THEN First ELSE Step(g[j - 1], j)
      <3>1. CASE j = n
        <4>1. g[n - 1] = f[n - 1]
          BY <2>3, <2>7
        <4> QED
          BY <2>3, <2>7, <3>1, <4>1
      <3>2. CASE j = 0
        BY <2>3, <2>6, <3>2
      <3>3. CASE j # n /\ j # 0
        <4>1. j \in 0..(n - 1) /\ j - 1 \in 0..(n - 1)
          BY <2>3, <3>3
        <4>2. g[j - 1] = f[j - 1]
          BY <2>7, <4>1
        <4> QED
          BY <2>6, <3>3, <4>1, <4>2
      <3> QED
        BY <3>1, <3>2, <3>3
    <2>10. Is(g, n)
      BY <2>8, <2>9
    <2> QED
      BY <2>2, <2>10
  <1>3. \E f : Is(f, Len(paths))
    BY <1>2
  <1>4. Is(Loading(t, paths), Len(paths))
    BY <1>1, <1>3
  <1>5. /\ Loading(t, paths)[0] = First
        /\ \A i \in 1..Len(paths) : Loading(t, paths)[i] = Step(Loading(t, paths)[i - 1], i)
    BY <1>4
  <1> QED
    BY <1>5 DEF First, Step

\* A function with the values of Loading ends as Loading does.
LEMMA LoadingIs ==
    ASSUME NEW t, NEW paths, Len(paths) \in Nat, NEW f,
           f[0] = [table |-> clear(t), accepted |-> <<>>],
           \A i \in 1..Len(paths) : f[i] = Add(f[i - 1], paths[i])
    PROVE  Loading(t, paths)[Len(paths)] = f[Len(paths)]
  <1> DEFINE L == Loading(t, paths)
             T == {i \in 0..Len(paths) : L[i] # f[i]}
  <1>1. /\ L[0] = f[0]
        /\ \A i \in 1..Len(paths) : L[i] = Add(L[i - 1], paths[i])
    BY LoadingFacts
  <1> HIDE DEF L
  <1>2. T = {}
    <2>1. SUFFICES ASSUME T # {} PROVE FALSE
      OBVIOUS
    <2>2. T \subseteq Nat
      OBVIOUS
    <2>3. PICK i \in T : \A j \in T : i <= j
      BY <2>1, <2>2, LeastNatural
    <2>4. i \in 1..Len(paths) /\ i - 1 \in 0..Len(paths) /\ i - 1 \notin T
      BY <1>1, <2>3
    <2> QED
      BY <1>1, <2>3, <2>4
  <1> QED
    BY <1>2 DEF L

\* One more path is one more add_zk_node.
LEMMA LoadAppend ==
    ASSUME NEW t, NEW S, NEW paths \in Seq(S), NEW p \in S
    PROVE  Load(t, Append(paths, p)) = Add([table |-> Load(t, paths), accepted |-> <<>>], p).table
  <1> DEFINE n == Len(paths)
             more == Append(paths, p)
             L == Loading(t, paths)
             f == [j \in 0..(n + 1) |-> IF j = n + 1 THEN Add(L[n], p) ELSE L[j]]
  <1>1. /\ n \in Nat /\ Len(more) = n + 1 /\ more[n + 1] = p
        /\ \A j \in 1..n : more[j] = paths[j]
    BY AppendProperties, LenProperties
  <1>2. /\ L[0] = [table |-> clear(t), accepted |-> <<>>]
        /\ \A i \in 1..n : L[i] = Add(L[i - 1], paths[i])
    BY <1>1, LoadingFacts
  <1>3. f[n + 1] = Add(L[n], p) /\ \A j \in 0..n : f[j] = L[j]
    BY <1>1
  <1> HIDE DEF f, L, more, n
  <1>4. f[0] = [table |-> clear(t), accepted |-> <<>>]
    BY <1>1, <1>2, <1>3
  <1>5. Loading(t, more)[Len(more)] = f[n + 1]
    <2>1. ASSUME NEW i \in 1..Len(more)
          PROVE  f[i] = Add(f[i - 1], more[i])
      <3>1. CASE i = n + 1
        <4>1. i - 1 = n /\ f[n] = L[n]
          BY <1>1, <1>3, <3>1
        <4> QED
          BY <1>1, <1>3, <3>1, <4>1
      <3>2. CASE i # n + 1
        <4>1. i \in 1..n /\ i \in 0..n /\ i - 1 \in 0..n
          BY <1>1, <3>2
        <4>2. f[i] = L[i] /\ f[i - 1] = L[i - 1]
          BY <1>3, <4>1
        <4> QED
          BY <1>1, <1>2, <4>1, <4>2
      <3> QED
        BY <3>1, <3>2
    <2>2. Len(more) \in Nat
      BY <1>1
    <2>3. Loading(t, more)[Len(more)] = f[Len(more)]
      BY <1>4, <2>1, <2>2, LoadingIs
    <2> QED
      BY <1>1, <2>3
  <1>6. Load(t, more) = Add(L[n], p).table
    BY <1>3, <1>5 DEF Load
  <1>7. Load(t, paths) = L[n].table
    BY DEF Load, L, n
  <1>8. Add(L[n], p).table = Add([table |-> L[n].table, accepted |-> <<>>], p).table
    BY DEF Add
  <1> QED
    BY <1>6, <1>7, <1>8 DEF more

\* What a load leaves is a table; the accepted paths are some of the paths, and
\* a load of them alone leaves the same table.
LEMMA LoadFacts ==
    ASSUME NEW t, TableInv(t), NEW paths \in Seq(Paths)
    PROVE  /\ TableInv(Load(t, paths))
           /\ Accepted(t, paths) \in Seq(Paths)
           /\ Load(t, Accepted(t, paths)) = Load(t, paths)
  <1> DEFINE n == Len(paths)
             L == Loading(t, paths)
             Good(i) == /\ TableInv(L[i].table) /\ L[i].accepted \in Seq(Paths)
                        /\ Load(t, L[i].accepted) = L[i].table
             T == {i \in 0..n : ~ Good(i)}
  <1>1. n \in Nat /\ \A i \in 1..n : paths[i] \in Paths
    BY LenProperties, ElementOfSeq
  <1>2. /\ L[0] = [table |-> clear(t), accepted |-> <<>>]
        /\ \A i \in 1..n : L[i] = Add(L[i - 1], paths[i])
    BY <1>1, LoadingFacts
  <1>3. Good(0)
    <2>1. Load(t, <<>>) = clear(t)
      <3>1. Len(<<>>) = 0
        OBVIOUS
      <3>2. Loading(t, <<>>)[0] = [table |-> clear(t), accepted |-> <<>>]
        BY <3>1, LoadingFacts
      <3> QED
        BY <3>1, <3>2 DEF Load
    <2>2. TableInv(clear(t))
      BY EmptyTableInv
    <2>3. <<>> \in Seq(Paths)
      OBVIOUS
    <2> QED
      BY <1>2, <2>1, <2>2, <2>3
  <1> HIDE DEF L, n
  <1>4. ASSUME NEW i \in 1..n, Good(i - 1)
        PROVE  Good(i)
    <2> DEFINE s == L[i - 1]
               p == paths[i]
    <2>1. p \in Paths /\ L[i] = Add(s, p)
      BY <1>1, <1>2
    <2>2. CASE ~ check_zk_node_host(s.table, p)
      <3>1. L[i] = s
        BY <2>1, <2>2 DEF Add
      <3> QED
        BY <1>4, <3>1
    <2>3. CASE check_zk_node_host(s.table, p)
      <3> HIDE DEF s, p
      <3>1. L[i] = [table |-> add_zk_node(s.table, p), accepted |-> Append(s.accepted, p)]
        BY <2>1, <2>3 DEF Add
      <3>2. TableInv(s.table) /\ s.accepted \in Seq(Paths) /\ Load(t, s.accepted) = s.table
        BY <1>4 DEF s
      <3>3. TableInv(add_zk_node(s.table, p))
        BY <2>1, <3>2, AddFacts
      <3>4. Append(s.accepted, p) \in Seq(Paths)
        BY <2>1, <3>2, AppendProperties
      <3>5. Load(t, Append(s.accepted, p)) = Add([table |-> s.table, accepted |-> <<>>], p).table
        BY <2>1, <3>2, LoadAppend
      <3>6. Load(t, Append(s.accepted, p)) = add_zk_node(s.table, p)
        BY <2>3, <3>5 DEF Add
      <3> QED
        BY <3>1, <3>3, <3>4, <3>6
    <2> QED
      BY <2>2, <2>3
  <1> HIDE DEF Good
  <1>5. T = {}
    <2>1. SUFFICES ASSUME T # {} PROVE FALSE
      OBVIOUS
    <2>2. T \subseteq Nat
      OBVIOUS
    <2>3. PICK i \in T : \A j \in T : i <= j
      BY <2>1, <2>2, LeastNatural
    <2>4. i \in 1..n /\ i - 1 \in 0..n /\ i - 1 \notin T
      BY <1>1, <1>3, <2>3
    <2> QED
      BY <1>4, <2>3, <2>4
  <1>6. Good(n)
    BY <1>1, <1>5
  <1> QED
    BY <1>6 DEF Good, L, n, Load, Accepted

\* What a message makes of the table of a worker that only follows broadcasts.
Follow(t, m) == IF m.kind = "sync" THEN t ELSE Apply(t, m)

\* Following applies the broadcasts one by one.
LEMMA FollowingFacts ==
    ASSUME NEW t, NEW ms, Len(ms) \in Nat
    PROVE  \E f : /\ f[0] = t
                  /\ \A i \in 1..Len(ms) : f[i] = Follow(f[i - 1], ms[i])
                  /\ Following(t, ms) = f[Len(ms)]
  <1> DEFINE Step(s, i) == IF ms[i].kind = "sync" THEN s ELSE Apply(s, ms[i])
             Is(f, n) == f = [j \in 0..n |-> IF j = 0 THEN t
                                 ELSE CHOOSE u \in {Step(s, j) : s \in {f[j - 1]}} : TRUE]
             T == {n \in Nat : ~ \E f : Is(f, n)}
             F == CHOOSE f : Is(f, Len(ms))
  <1>1. Following(t, ms) = F[Len(ms)]
    BY DEF Following
  <1> HIDE DEF Step
  <1>2. T = {}
    <2>1. SUFFICES ASSUME T # {} PROVE FALSE
      OBVIOUS
    <2>2. PICK n \in T : \A m \in T : n <= m
      BY <2>1, LeastNatural
    <2>3. n \in Nat /\ n # 0
      <3>1. Is([j \in 0..0 |-> t], 0)
        OBVIOUS
      <3> QED
        BY <2>2, <3>1
    <2>4. n - 1 \in Nat /\ n - 1 \notin T
      <3> HIDE DEF T
      <3> QED
        BY <2>2, <2>3
    <2>5. PICK f : Is(f, n - 1)
      BY <2>4
    <2> DEFINE g == [j \in 0..n |-> IF j = n THEN Step(f[n - 1], n) ELSE f[j]]
    <2>6. \A j \in 0..(n - 1) : g[j] = IF j = 0 THEN t ELSE Step(f[j - 1], j)
      BY <2>3, <2>5
    <2>7. g[n] = Step(f[n - 1], n) /\ \A j \in 0..(n - 1) : g[j] = f[j]
      BY <2>3
    <2>8. g = [j \in 0..n |-> g[j]]
      OBVIOUS
    <2> HIDE DEF g
    <2>9. ASSUME NEW j \in 0..n
          PROVE  g[j] = IF j = 0 THEN t ELSE Step(g[j - 1], j)
      <3>1. CASE j = n
        <4>1. g[n - 1] = f[n - 1]
          BY <2>3, <2>7
        <4> QED
          BY <2>3, <2>7, <3>1, <4>1
      <3>2. CASE j = 0
        BY <2>3, <2>6, <3>2
      <3>3. CASE j # n /\ j # 0
        <4>1. j \in 0..(n - 1) /\ j - 1 \in 0..(n - 1)
          BY <2>3, <3>3
        <4>2. g[j - 1] = f[j - 1]
          BY <2>7, <4>1
        <4> QED
          BY <2>6, <3>3, <4>1, <4>2
      <3> QED
        BY <3>1, <3>2, <3>3
    <2>10. Is(g, n)
      BY <2>8, <2>9
    <2> QED
      BY <2>2, <2>10
  <1>3. \E f : Is(f, Len(ms))
    BY <1>2
  <1>4. Is(F, Len(ms))
    BY <1>3
  <1> HIDE DEF F
  <1>5. F[0] = t /\ \A i \in 1..Len(ms) : F[i] = Step(F[i - 1], i)
    BY <1>4
  <1>6. \A i \in 1..Len(ms) : F[i] = Follow(F[i - 1], ms[i])
    BY <1>5 DEF Step, Follow
  <1> QED
    BY <1>1, <1>5, <1>6

\* Whatever applies the broadcasts one by one ends as Following does.
LEMMA FollowingIs ==
    ASSUME NEW t, NEW ms, Len(ms) \in Nat, NEW f, f[0] = t,
           \A i \in 1..Len(ms) : f[i] = Follow(f[i - 1], ms[i])
    PROVE  Following(t, ms) = f[Len(ms)]
  <1>1. PICK g : /\ g[0] = t
                 /\ \A i \in 1..Len(ms) : g[i] = Follow(g[i - 1], ms[i])
                 /\ Following(t, ms) = g[Len(ms)]
    BY FollowingFacts
  <1> DEFINE T == {i \in 0..Len(ms) : g[i] # f[i]}
  <1>2. T = {}
    <2>1. SUFFICES ASSUME T # {} PROVE FALSE
      OBVIOUS
    <2>2. T \subseteq Nat
      OBVIOUS
    <2>3. PICK i \in T : \A j \in T : i <= j
      BY <2>1, <2>2, LeastNatural
    <2>4. i \in 1..Len(ms) /\ i - 1 \in 0..Len(ms) /\ i - 1 \notin T
      BY <1>1, <2>3
    <2> QED
      BY <1>1, <2>3, <2>4
  <1> QED
    BY <1>1, <1>2

\* Nothing is under way.
LEMMA FollowingNone ==
    ASSUME NEW t
    PROVE  Following(t, <<>>) = t
  <1>1. Len(<<>>) = 0
    OBVIOUS
  <1> QED
    BY <1>1, FollowingFacts

\* One message more at the end, or taken from the front.
LEMMA FollowingSteps ==
    ASSUME NEW t, NEW S, NEW ms \in Seq(S)
    PROVE  /\ \A m \in S : Following(t, Append(ms, m)) = Follow(Following(t, ms), m)
           /\ ms # <<>> => Following(t, ms) = Following(Follow(t, Head(ms)), Tail(ms))
  <1>1. ASSUME NEW m \in S
        PROVE  Following(t, Append(ms, m)) = Follow(Following(t, ms), m)
    <2> DEFINE n == Len(ms)
               more == Append(ms, m)
    <2>1. /\ n \in Nat /\ Len(more) = n + 1 /\ more[n + 1] = m
          /\ \A j \in 1..n : more[j] = ms[j]
      BY AppendProperties, LenProperties
    <2>2. PICK f : /\ f[0] = t
                   /\ \A i \in 1..n : f[i] = Follow(f[i - 1], ms[i])
                   /\ Following(t, ms) = f[n]
      BY <2>1, FollowingFacts
    <2> DEFINE g == [j \in 0..(n + 1) |-> IF j = n + 1 THEN Follow(f[n], m) ELSE f[j]]
    <2>3. g[n + 1] = Follow(f[n], m) /\ \A j \in 0..n : g[j] = f[j]
      BY <2>1
    <2> HIDE DEF g, more, n
    <2>4. g[0] = t
      BY <2>1, <2>2, <2>3
    <2>5. ASSUME NEW i \in 1..Len(more)
          PROVE  g[i] = Follow(g[i - 1], more[i])
      <3>1. CASE i = n + 1
        <4>1. i - 1 = n /\ g[n] = f[n]
          BY <2>1, <2>3, <3>1
        <4> QED
          BY <2>1, <2>3, <3>1, <4>1
      <3>2. CASE i # n + 1
        <4>1. i \in 1..n /\ i \in 0..n /\ i - 1 \in 0..n
          BY <2>1, <3>2
        <4>2. g[i] = f[i] /\ g[i - 1] = f[i - 1]
          BY <2>3, <4>1
        <4> QED
          BY <2>1, <2>2, <4>1, <4>2
      <3> QED
        BY <3>1, <3>2
    <2>6. Len(more) \in Nat
      BY <2>1
    <2>7. Following(t, more) = g[Len(more)]
      BY <2>4, <2>5, <2>6, FollowingIs
    <2> QED
      BY <2>1, <2>2, <2>3, <2>7 DEF more
  <1>2. ASSUME ms # <<>>
        PROVE  Following(t, ms) = Following(Follow(t, Head(ms)), Tail(ms))
    <2> DEFINE n == Len(ms)
               rest == Tail(ms)
               u == Follow(t, Head(ms))
    <2>1. /\ n \in Nat /\ n # 0 /\ Len(rest) = n - 1 /\ Head(ms) = ms[1]
          /\ \A j \in 1..Len(rest) : rest[j] = ms[j + 1]
      BY <1>2, HeadTailProperties, LenProperties, EmptySeq
    <2> HIDE DEF rest, u
    <2>2. PICK f : /\ f[0] = u
                   /\ \A i \in 1..Len(rest) : f[i] = Follow(f[i - 1], rest[i])
                   /\ Following(u, rest) = f[Len(rest)]
      <3>1. Len(rest) \in Nat
        BY <2>1
      <3> QED
        BY <3>1, FollowingFacts
    <2> DEFINE g == [j \in 0..n |-> IF j = 0 THEN t ELSE f[j - 1]]
    <2>3. g[0] = t /\ \A j \in 1..n : g[j] = f[j - 1]
      BY <2>1
    <2> HIDE DEF g, n
    <2>4. ASSUME NEW i \in 1..n
          PROVE  g[i] = Follow(g[i - 1], ms[i])
      <3>1. CASE i = 1
        <4>1. g[1] = f[0] /\ g[i - 1] = t
          BY <2>3, <3>1
        <4> QED
          BY <2>1, <2>2, <3>1, <4>1 DEF u
      <3>2. CASE i # 1
        <4>1. i - 1 \in 1..Len(rest) /\ i - 1 \in 1..n /\ (i - 1) + 1 = i
          BY <2>1, <3>2
        <4>2. g[i] = f[i - 1] /\ g[i - 1] = f[(i - 1) - 1] /\ rest[i - 1] = ms[i]
          BY <2>1, <2>3, <4>1
        <4> QED
          BY <2>2, <4>1, <4>2
      <3> QED
        BY <3>1, <3>2
    <2>5. Following(t, ms) = g[n]
      BY <2>1, <2>3, <2>4, FollowingIs DEF n
    <2>6. g[n] = f[Len(rest)]
      BY <2>1, <2>3
    <2> QED
      BY <2>2, <2>5, <2>6 DEF u, rest
  <1> QED
    BY <1>1, <1>2

-----------------------------------------------------------------------------
(* The inductive invariant *)

\* Messages of the manager: to add or to remove a node carries one path.
Messages ==
    {m \in [kind : {"reg", "add", "del", "sync"}, paths : Seq(Paths), version : Nat] :
        m.kind \in {"add", "del"} => Len(m.paths) = 1}

\* All tables are well-formed, and so is what is under way.
IndInv ==
    /\ zookeeper \in [Paths -> {"new", "there", "gone"}]
    /\ TableInv(mgr)
    /\ tab = [w \in Workers |-> tab[w]]
    /\ \A w \in Workers : TableInv(tab[w])
    /\ down \in [Workers -> Seq(Messages)]
    /\ asked \in [Workers -> Seq(Nat)]
    /\ intact \subseteq Workers
    /\ restarts \in 0..MaxRestarts

\* Apply keeps a table well-formed; a path to add does not replace a newer one.
LEMMA ApplyFacts ==
    ASSUME NEW t, TableInv(t), NEW m \in Messages
    PROVE  /\ TableInv(Apply(t, m))
           /\ m.kind \in {"add", "del"} => NoOldForNew(t, Apply(t, m))
  <1>1. /\ m.kind \in {"reg", "add", "del", "sync"} /\ m.paths \in Seq(Paths)
        /\ m.kind \in {"add", "del"} => Len(m.paths) = 1
    BY DEF Messages
  <1>2. CASE m.kind \in {"reg", "sync"}
    <2>1. Apply(t, m) = Load(t, m.paths) \/ Apply(t, m) = t
      BY <1>2 DEF Apply
    <2> QED
      BY <1>1, <1>2, <2>1, LoadFacts
  <1>3. CASE m.kind = "add"
    <2>1. m.paths[1] \in Paths
      BY <1>1, <1>3, ElementOfSeq
    <2>2. Apply(t, m) = add_zk_node(t, m.paths[1])
      BY <1>3 DEF Apply
    <2> QED
      BY <2>1, <2>2, AddFacts
  <1>4. CASE m.kind = "del"
    <2>1. Apply(t, m) = del_zk_node(t, m.paths[1])
      BY <1>4 DEF Apply
    <2> QED
      BY <2>1, RemoveFacts
  <1> QED
    BY <1>1, <1>2, <1>3, <1>4

\* The broadcasts of the manager, and what they make of its own table.
LEMMA MgrFacts ==
    ASSUME IndInv
    PROVE  /\ OnZkRegister =>
                \E m \in Messages : m.kind = "reg" /\ Broadcast(m) /\ mgr' = Apply(mgr, m)
           /\ \A p \in Paths :
                 /\ OnZkData(p) =>
                      \E m \in Messages : m.kind = "add" /\ Broadcast(m) /\ mgr' = Apply(mgr, m)
                 /\ OnZkDeleted(p) =>
                      \E m \in Messages : m.kind = "del" /\ Broadcast(m) /\ mgr' = Apply(mgr, m)
  <1>1. ASSUME OnZkRegister
        PROVE  \E m \in Messages : m.kind = "reg" /\ Broadcast(m) /\ mgr' = Apply(mgr, m)
    <2>0. PICK S \in SUBSET Readable : \E paths \in SetToSeqs(S) :
             mgr' = Load(mgr, paths) /\ Broadcast(Msg("reg", Accepted(mgr, paths), 0))
      BY <1>1 DEF OnZkRegister
    <2>1. PICK paths \in SetToSeqs(S) :
             mgr' = Load(mgr, paths) /\ Broadcast(Msg("reg", Accepted(mgr, paths), 0))
      BY <2>0
    <2>2. S \subseteq Paths
      BY DEF Readable
    <2>3. IsFiniteSet(S)
      BY <2>2, DataAssumption, FS_Subset
    <2>4. paths \in Seq(Paths)
      BY <2>2, <2>3, SetToSeqsFacts, SeqMonotonic
    <2> DEFINE m == Msg("reg", Accepted(mgr, paths), 0)
    <2>5. /\ Accepted(mgr, paths) \in Seq(Paths)
          /\ Load(mgr, Accepted(mgr, paths)) = Load(mgr, paths)
      BY <2>4, LoadFacts DEF IndInv
    <2>6. m \in Messages /\ m.kind = "reg" /\ m.paths = Accepted(mgr, paths)
      BY <2>5 DEF Msg, Messages
    <2>7. mgr' = Apply(mgr, m)
      BY <2>1, <2>5, <2>6 DEF Apply
    <2> QED
      BY <2>1, <2>6, <2>7
  <1>2. ASSUME NEW p \in Paths, OnZkData(p)
        PROVE  \E m \in Messages : m.kind = "add" /\ Broadcast(m) /\ mgr' = Apply(mgr, m)
    <2> DEFINE m == Msg("add", <<p>>, 0)
    <2>1. m \in Messages /\ m.kind = "add" /\ m.paths[1] = p
      BY DEF Msg, Messages
    <2>2. Apply(mgr, m) = add_zk_node(mgr, p)
      BY <2>1 DEF Apply
    <2> QED
      BY <1>2, <2>1, <2>2 DEF OnZkData
  <1>3. ASSUME NEW p \in Paths, OnZkDeleted(p)
        PROVE  \E m \in Messages : m.kind = "del" /\ Broadcast(m) /\ mgr' = Apply(mgr, m)
    <2> DEFINE m == Msg("del", <<p>>, 0)
    <2>1. m \in Messages /\ m.kind = "del" /\ m.paths[1] = p
      BY DEF Msg, Messages
    <2>2. Apply(mgr, m) = del_zk_node(mgr, p)
      BY <2>1 DEF Apply
    <2> QED
      BY <1>3, <2>1, <2>2 DEF OnZkDeleted
  <1> QED
    BY <1>1, <1>2, <1>3

\* A broadcast puts one message at the end of every channel.
LEMMA BroadcastFacts ==
    ASSUME IndInv, NEW m \in Messages, Broadcast(m)
    PROVE  /\ down' \in [Workers -> Seq(Messages)]
           /\ \A w \in Workers : down'[w] = Append(down[w], m)
  <1>1. \A w \in Workers : Append(down[w], m) \in Seq(Messages)
    BY AppendProperties DEF IndInv
  <1> QED
    BY <1>1 DEF Broadcast

\* A request is answered with the nodes of the manager, or with none.
LEMMA AnswerFacts ==
    ASSUME IndInv, NEW w \in Workers, OnReqSync(w)
    PROVE  \E m \in Messages :
              m.kind = "sync" /\ down' = [down EXCEPT ![w] = Append(@, m)]
  <1> DEFINE v == Head(asked[w])
             S == IF mgr.version # v THEN mgr.zk ELSE {}
  <1>1. v \in Nat
    BY HeadTailProperties DEF IndInv, OnReqSync
  <1>2. PICK paths \in SetToSeqs(S) :
           down' = [down EXCEPT ![w] = Append(@, Msg("sync", paths, v))]
    BY DEF OnReqSync
  <1>3. S \subseteq Paths
    BY DEF IndInv, TableInv, IsTable
  <1>4. IsFiniteSet(S)
    BY <1>3, DataAssumption, FS_Subset
  <1>5. paths \in Seq(Paths)
    BY <1>3, <1>4, SetToSeqsFacts, SeqMonotonic
  <1> HIDE DEF v, S
  <1>6. Msg("sync", paths, v) \in Messages /\ Msg("sync", paths, v).kind = "sync"
    BY <1>1, <1>5 DEF Msg, Messages
  <1> QED
    BY <1>2, <1>6

\* Init establishes the inductive invariant.
LEMMA InitInv == Init => IndInv
  <1>1. SUFFICES ASSUME Init PROVE IndInv
    OBVIOUS
  <1>2. TableInv(EmptyTable)
    BY EmptyTableInv
  <1>3. restarts \in 0..MaxRestarts
    BY <1>1, BoundsAssumption DEF Init
  <1>4. <<>> \in Seq(Messages) /\ <<>> \in Seq(Nat)
    OBVIOUS
  <1> QED
    BY <1>1, <1>2, <1>3, <1>4 DEF Init, IndInv

\* Every step keeps it.
LEMMA StepInv == IndInv /\ [Next]_vars => IndInv'
  <1>1. SUFFICES ASSUME IndInv, [Next]_vars PROVE IndInv'
    OBVIOUS
  <1>2. ASSUME NEW m \in Messages, Broadcast(m), mgr' = Apply(mgr, m),
               UNCHANGED <<zookeeper, tab, asked, intact, restarts>>
        PROVE  IndInv'
    <2>1. down' \in [Workers -> Seq(Messages)]
      BY <1>1, <1>2, BroadcastFacts
    <2>2. TableInv(mgr')
      BY <1>1, <1>2, ApplyFacts DEF IndInv
    <2> QED
      BY <1>1, <1>2, <2>1, <2>2 DEF IndInv
  <1>3. ASSUME NEW p \in Paths, NodeComes(p)
        PROVE  IndInv'
    BY <1>1, <1>3 DEF NodeComes, IndInv
  <1>4. ASSUME NEW p \in Paths, OnZkData(p)
        PROVE  IndInv'
    <2>1. PICK m \in Messages : Broadcast(m) /\ mgr' = Apply(mgr, m)
      BY <1>1, <1>4, MgrFacts
    <2> QED
      BY <1>2, <1>4, <2>1 DEF OnZkData
  <1>5. ASSUME NEW p \in Paths, OnZkDeleted(p)
        PROVE  IndInv'
    <2>1. PICK m \in Messages : Broadcast(m) /\ mgr' = Apply(mgr, m)
      BY <1>1, <1>5, MgrFacts
    <2> QED
      BY <1>2, <1>5, <2>1 DEF OnZkDeleted
  <1>6. ASSUME NEW S \in SUBSET Paths, NodesGo(S)
        PROVE  IndInv'
    BY <1>1, <1>6 DEF NodesGo, IndInv
  <1>7. ASSUME OnZkRegister
        PROVE  IndInv'
    <2>1. PICK m \in Messages : Broadcast(m) /\ mgr' = Apply(mgr, m)
      BY <1>1, <1>7, MgrFacts
    <2> QED
      BY <1>2, <1>7, <2>1 DEF OnZkRegister
  <1>8. ASSUME NEW w \in Workers, OnReqSync(w)
        PROVE  IndInv'
    <2>1. PICK m \in Messages : down' = [down EXCEPT ![w] = Append(@, m)]
      BY <1>1, <1>8, AnswerFacts
    <2>2. Append(down[w], m) \in Seq(Messages)
      BY <1>1, AppendProperties DEF IndInv
    <2>3. Tail(asked[w]) \in Seq(Nat)
      BY <1>1, <1>8, HeadTailProperties DEF IndInv, OnReqSync
    <2> QED
      BY <1>1, <1>8, <2>1, <2>2, <2>3 DEF OnReqSync, IndInv
  <1>9. ASSUME NEW w \in Workers, SendSync(w)
        PROVE  IndInv'
    <2>1. Append(asked[w], tab[w].version) \in Seq(Nat)
      BY <1>1, AppendProperties DEF IndInv, TableInv, IsTable
    <2> QED
      BY <1>1, <1>9, <2>1 DEF SendSync, IndInv
  <1>10. ASSUME NEW w \in Workers, Deliver(w)
         PROVE  IndInv'
    <2>1. Head(down[w]) \in Messages /\ Tail(down[w]) \in Seq(Messages)
      BY <1>1, <1>10, HeadTailProperties DEF IndInv, Deliver
    <2>2. TableInv(Apply(tab[w], Head(down[w])))
      BY <1>1, <2>1, ApplyFacts DEF IndInv
    <2>3. /\ tab' = [v \in Workers |-> tab'[v]]
          /\ \A v \in Workers : TableInv(tab'[v])
      BY <1>1, <1>10, <2>2 DEF Deliver, IndInv
    <2> QED
      BY <1>1, <1>10, <2>1, <2>3 DEF Deliver, IndInv
  <1>11. ASSUME NEW w \in Workers, Restart(w)
         PROVE  IndInv'
    <2>1. TableInv(EmptyTable)
      BY EmptyTableInv
    <2>2. /\ tab' = [v \in Workers |-> tab'[v]]
          /\ \A v \in Workers : TableInv(tab'[v])
      BY <1>1, <1>11, <2>1 DEF Restart, IndInv
    <2>3. restarts' \in 0..MaxRestarts
      BY <1>1, <1>11, BoundsAssumption DEF Restart, IndInv
    <2>4. <<>> \in Seq(Messages) /\ <<>> \in Seq(Nat)
      OBVIOUS
    <2> QED
      BY <1>1, <1>11, <2>2, <2>3, <2>4 DEF Restart, IndInv
  <1>12. ASSUME UNCHANGED vars
         PROVE  IndInv'
    BY <1>1, <1>12 DEF vars, IndInv
  <1> QED
    BY <1>1, <1>3, <1>4, <1>5, <1>6, <1>7, <1>8, <1>9, <1>10, <1>11, <1>12 DEF Next

\* The inductive invariant holds in every reachable state.
LEMMA Invariance == Spec => []IndInv
  BY InitInv, StepInv, PTL DEF Spec

-----------------------------------------------------------------------------
(* What the tables promise *)

\* A ring that satisfies RingInv is right.
LEMMA RingInvIsRight ==
    ASSUME NEW t, TableInv(t)
    PROVE  IsTable(t) /\ Consistent(t) /\ RingRight(t)
  <1>1. \A x \in DOMAIN t.ring : t.ring[x] \in t.nodes /\ x[2] \in vnodes[t.ring[x]]
    BY DEF TableInv, Consistent, RingInv
  <1> QED
    BY <1>1 DEF TableInv, RingInv, RingRight

\* TablesConsistent: in the manager and in every worker, the maps of paths, of
\* hosts and of workers agree and the ring leads to registered workers and gives
\* each the points that only it has, whatever is registered, replaced, removed,
\* loaded or lost with a restart, in whatever order (nodes.cpp, sys_cmd.cpp).
THEOREM TablesStayConsistent == Spec => []TablesConsistent
  <1>1. IndInv => TablesConsistent
    <2>1. SUFFICES ASSUME IndInv PROVE TablesConsistent
      OBVIOUS
    <2>2. IsTable(mgr) /\ Consistent(mgr) /\ RingRight(mgr)
      BY <2>1, RingInvIsRight DEF IndInv
    <2>3. \A w \in Workers : IsTable(tab[w]) /\ Consistent(tab[w]) /\ RingRight(tab[w])
      BY <2>1, RingInvIsRight DEF IndInv
    <2>4. ASSUME NEW w \in Workers, NEW i \in 1..Len(down[w])
          PROVE  /\ down[w][i].kind \in {"reg", "add", "del", "sync"}
                 /\ Range(down[w][i].paths) \subseteq Paths
                 /\ down[w][i].version \in Nat
      <3>1. down[w][i] \in Messages
        BY <2>1, ElementOfSeq DEF IndInv
      <3> DEFINE m == down[w][i]
      <3> HIDE DEF m
      <3>2. m \in Messages
        BY <3>1 DEF m
      <3>3. /\ m.kind \in {"reg", "add", "del", "sync"} /\ m.paths \in Seq(Paths)
            /\ m.version \in Nat
        BY <3>2 DEF Messages
      <3>4. Range(m.paths) \subseteq Paths
        BY <3>3, RangeFacts
      <3> QED
        BY <3>3, <3>4 DEF m
    <2>5. \A w \in Workers : Range(asked[w]) \subseteq Nat
      BY <2>1, RangeFacts DEF IndInv
    <2>6. TypeOK
      BY <2>1, <2>2, <2>3, <2>4, <2>5 DEF TypeOK, IndInv
    <2> QED
      BY <2>2, <2>3, <2>6 DEF TablesConsistent
  <1> QED
    BY <1>1, Invariance, PTL

\* KeysStay: no step of the manager, of zookeeper or of a worker sends a key to
\* another worker, unless the worker that had it went or the other one is new,
\* or it is found by a point that two nodes share (get_node_in_hash).
THEOREM KeysKeepTheirNodes == Spec => KeysStay
  <1>1. IndInv /\ IndInv' =>
           KeysMoveOnly(mgr, mgr') /\ \A w \in Workers : KeysMoveOnly(tab[w], tab'[w])
    BY KeysMove DEF IndInv
  <1> QED
    BY <1>1, Invariance, PTL DEF KeysStay

\* OldNeverReplacesNew: a path that was replaced by a later registration of its
\* host does not come back while the later one is there, in the manager and in
\* every worker (check_zk_node_host).
THEOREM OldStaysReplaced == Spec => OldNeverReplacesNew
  <1> DEFINE Told(w) == \/ down[w] = <<>> \/ down'[w] # Tail(down[w])
                        \/ Head(down[w]).kind \in {"reg", "sync"}
                        \/ NoOldForNew(tab[w], tab'[w])
             A == /\ NoOldForNew(mgr, mgr') \/ OnZkRegister
                  /\ \A w \in Workers : Told(w)
  <1>1. ASSUME IndInv, Next
        PROVE  A
    <2>1. NoOldForNew(mgr, mgr') \/ OnZkRegister
      <3>1. CASE mgr' = mgr
        BY <1>1, <3>1, FewerPaths DEF IndInv
      <3>2. ASSUME NEW p \in Paths, OnZkData(p) \/ OnZkDeleted(p)
            PROVE  NoOldForNew(mgr, mgr')
        <4>1. PICK m \in Messages : m.kind \in {"add", "del"} /\ mgr' = Apply(mgr, m)
          BY <1>1, <3>2, MgrFacts
        <4> QED
          BY <1>1, <4>1, ApplyFacts DEF IndInv
      <3> QED
        BY <1>1, <3>1, <3>2
        DEF Next, NodeComes, NodesGo, OnReqSync, SendSync, Deliver, Restart
    <2>2. ASSUME NEW w \in Workers
          PROVE  Told(w)
      <3>1. CASE tab'[w] = tab[w]
        BY <1>1, <3>1, FewerPaths DEF IndInv
      <3>2. CASE Deliver(w)
        <4>1. Head(down[w]) \in Messages
          BY <1>1, <3>2, HeadTailProperties DEF IndInv, Deliver
        <4>2. tab'[w] = Apply(tab[w], Head(down[w]))
          BY <1>1, <3>2 DEF IndInv, Deliver
        <4>3. Head(down[w]).kind \in {"reg", "add", "del", "sync"}
          BY <4>1 DEF Messages
        <4> QED
          BY <1>1, <4>1, <4>2, <4>3, ApplyFacts DEF IndInv
      <3>3. CASE Restart(w)
        <4>1. tab'[w] = EmptyTable /\ EmptyTable.zk = {}
          BY <1>1, <3>3 DEF IndInv, Restart, EmptyTable
        <4> QED
          BY <4>1 DEF NoOldForNew
      <3>4. ASSUME NEW v \in Workers, v # w, Deliver(v) \/ Restart(v)
            PROVE  tab'[w] = tab[w]
        BY <1>1, <3>4 DEF IndInv, Deliver, Restart
      <3> QED
        BY <1>1, <3>1, <3>2, <3>3, <3>4
        DEF Next, NodeComes, NodesGo, OnZkRegister, OnZkData, OnZkDeleted, OnReqSync, SendSync
    <2> QED
      BY <2>1, <2>2
  <1>2. ASSUME IndInv, [Next]_vars
        PROVE  [A]_vars
    BY <1>1, <1>2
  <1> QED
    BY <1>2, Invariance, PTL DEF Spec, OldNeverReplacesNew

\* BroadcastsSuffice: a worker that saw every change since the manager knew any
\* node and loaded no answer has the manager's table, to the version, once the
\* messages under way to it are applied: add_zk_node, del_zk_node and a load of
\* the accepted paths do the same to both tables (send_to_children).
THEOREM BroadcastsAreEnough == Spec => []BroadcastsSuffice
  <1>1. Init => BroadcastsSuffice
    <2>1. Following(EmptyTable, <<>>) = EmptyTable
      BY FollowingNone
    <2> QED
      BY <2>1 DEF Init, BroadcastsSuffice
  <1>2. IndInv /\ BroadcastsSuffice /\ [Next]_vars => BroadcastsSuffice'
    <2>1. SUFFICES ASSUME IndInv, BroadcastsSuffice, [Next]_vars,
                          NEW w \in intact'
                   PROVE  Following(tab'[w], down'[w]) = mgr'
      BY DEF BroadcastsSuffice
    <2>2. w \in Workers /\ down[w] \in Seq(Messages)
      BY <2>1, StepInv DEF IndInv
    <2>3. ASSUME w \in intact
          PROVE  Following(tab[w], down[w]) = mgr
      BY <2>1, <2>3 DEF BroadcastsSuffice
    <2>4. ASSUME NEW m \in Messages, m.kind # "sync", Broadcast(m), mgr' = Apply(mgr, m),
                 tab' = tab, intact' = intact
          PROVE  Following(tab'[w], down'[w]) = mgr'
      <3>1. down'[w] = Append(down[w], m)
        BY <2>1, <2>2, <2>4, BroadcastFacts
      <3>2. Following(tab[w], Append(down[w], m)) = Follow(mgr, m)
        BY <2>1, <2>2, <2>3, <2>4, FollowingSteps
      <3> QED
        BY <2>4, <3>1, <3>2 DEF Follow
    <2>5. ASSUME mgr' = mgr, tab'[w] = tab[w], down'[w] = down[w], w \in intact
          PROVE  Following(tab'[w], down'[w]) = mgr'
      BY <2>3, <2>5
    <2>6. CASE OnZkRegister
      <3>1. PICK m \in Messages : m.kind = "reg" /\ Broadcast(m) /\ mgr' = Apply(mgr, m)
        BY <2>1, <2>6, MgrFacts
      <3> QED
        BY <2>4, <2>6, <3>1 DEF OnZkRegister
    <2>7. ASSUME NEW p \in Paths, OnZkData(p) \/ OnZkDeleted(p)
          PROVE  Following(tab'[w], down'[w]) = mgr'
      <3>1. PICK m \in Messages : m.kind # "sync" /\ Broadcast(m) /\ mgr' = Apply(mgr, m)
        BY <2>1, <2>7, MgrFacts
      <3> QED
        BY <2>4, <2>7, <3>1 DEF OnZkData, OnZkDeleted
    <2>8. CASE OnReqSync(w)
      <3>1. PICK m \in Messages :
               m.kind = "sync" /\ down' = [down EXCEPT ![w] = Append(@, m)]
        BY <2>1, <2>2, <2>8, AnswerFacts
      <3>2. down'[w] = Append(down[w], m)
        BY <2>1, <2>2, <3>1 DEF IndInv
      <3>3. mgr' = mgr /\ tab' = tab /\ w \in intact
        BY <2>1, <2>8 DEF OnReqSync
      <3>4. Following(tab[w], Append(down[w], m)) = Follow(mgr, m)
        BY <2>2, <2>3, <3>3, FollowingSteps
      <3> QED
        BY <3>1, <3>2, <3>3, <3>4 DEF Follow
    <2>9. CASE Deliver(w)
      <3> DEFINE m == Head(down[w])
      <3>1. /\ down[w] # <<>> /\ tab'[w] = Apply(tab[w], m) /\ down'[w] = Tail(down[w])
            /\ mgr' = mgr /\ w \in intact /\ ~ Loads(tab[w], m)
        BY <2>1, <2>2, <2>9 DEF Deliver, IndInv
      <3>2. Follow(tab[w], m) = Apply(tab[w], m)
        <4>1. CASE m.kind = "sync"
          BY <3>1, <4>1 DEF Follow, Apply, Loads
        <4>2. CASE m.kind # "sync"
          BY <4>2 DEF Follow
        <4> QED
          BY <4>1, <4>2
      <3>3. Following(tab[w], down[w]) = Following(Follow(tab[w], m), Tail(down[w]))
        BY <2>2, <3>1, FollowingSteps
      <3> QED
        BY <2>3, <3>1, <3>2, <3>3
    <2>10. CASE Restart(w)
      <3>1. tab'[w] = EmptyTable /\ down'[w] = <<>> /\ mgr' = mgr /\ mgr = EmptyTable
        BY <2>1, <2>2, <2>10 DEF Restart, IndInv
      <3>2. Following(EmptyTable, <<>>) = EmptyTable
        BY FollowingNone
      <3> QED
        BY <3>1, <3>2
    <2>11. ASSUME NEW v \in Workers, v # w,
                  OnReqSync(v) \/ Deliver(v) \/ Restart(v)
           PROVE  Following(tab'[w], down'[w]) = mgr'
      <3>1. /\ mgr' = mgr /\ tab'[w] = tab[w] /\ down'[w] = down[w] /\ w \in intact
        BY <2>1, <2>2, <2>11 DEF OnReqSync, Deliver, Restart, IndInv
      <3> QED
        BY <2>5, <3>1
    <2>12. ASSUME UNCHANGED <<mgr, tab, down, intact>>
           PROVE  Following(tab'[w], down'[w]) = mgr'
      BY <2>1, <2>5, <2>12
    <2> QED
      BY <2>1, <2>6, <2>7, <2>8, <2>9, <2>10, <2>11, <2>12
      DEF Next, vars, NodeComes, NodesGo, SendSync
  <1> QED
    BY <1>1, <1>2, Invariance, PTL DEF Spec
=============================================================================
