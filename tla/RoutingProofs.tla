--------------------------- MODULE RoutingProofs ---------------------------
(***************************************************************************)
(* Theorems about Routing, for any area, any databases that recv_loop may  *)
(* make meanwhile and any failures of the kernel: dijkstra finds shortest  *)
(* distances, the predecessors are those of the distances, every walk back *)
(* ends, and no route with a gateway outlives its update.                  *)
(*                                                                         *)
(* Shortest says something of the end of dijkstra only, so the invariant   *)
(* says what holds at each turn of its loop: which nodes are in the heap   *)
(* (Frontier), that edges from visited nodes lead nowhere nearer (Relaxed) *)
(* and what the predecessors are (Tree).  Edges may cost nothing, so that  *)
(* distances do not order the predecessors: the walks end because nodes    *)
(* are visited one after the other (Ranked).                               *)
(***************************************************************************)
EXTENDS Routing, FiniteSetTheorems, SequenceTheorems, WellFoundedInduction,
        TLAPS

\* The nodes the database describes: the others are made of zeros.
Known == DOMAIN prevs

Places == Routers \cup Networks \cup Addresses

\* What every node has in every phase.
Masks == \A id \in DOMAIN nodes : nodes[id].net => id \in Networks

\* The graph while dijkstra works on it.
GraphShape ==
    /\ DOMAIN nodes \subseteq Places /\ Known \subseteq DOMAIN nodes
    /\ Known \subseteq Routers \cup Networks
    /\ \A id \in Known : nodes[id].id = id /\ nodes[id].net = (id \in Networks)
    /\ \A id \in DOMAIN nodes \ Known : nodes[id] = NoNode
    /\ Root \in Known /\ nodes[Root].dist = 0
    /\ \A e \in edges : e.src \in Routers \cup Addresses /\ e.dst \in Places

\* The heap holds, perhaps with what is out of date, every node that was
\* reached and not visited; none is nearer than a visited one.
Frontier ==
    /\ \A n \in heap : /\ n.id \in Known /\ n.net = nodes[n.id].net
                       /\ nodes[n.id].dist <= n.dist /\ n.dist < Infinity
    /\ \A id \in Known \ vis : nodes[id].dist < Infinity => nodes[id] \in heap
    /\ \A v \in vis : /\ v \in Known /\ nodes[v].dist < Infinity
                      /\ \A n \in heap : nodes[v].dist <= n.dist

\* No edge from a visited node leads nearer.
Relaxed ==
    \A e \in edges :
        e.src \in vis /\ e.dst \in Known =>
            nodes[e.dst].dist <= nodes[e.src].dist + e.metric

\* A reached node other than the root has a predecessor by an edge that
\* makes up the difference.
Tree ==
    /\ prevs[Root] = Zero
    /\ \A id \in Known :
          IF prevs[id] = Zero
          THEN id = Root \/ nodes[id].dist = Infinity
          ELSE \E e \in edges : /\ e.src = prevs[id] /\ e.dst = id
                                /\ nodes[id].dist = nodes[prevs[id]].dist + e.metric

\* Predecessors are visited routers, each before those it leads to.
Ranks == [vis \cap Routers -> 0 .. Cardinality(vis) - 1]
Ranked ==
    /\ IsFiniteSet(vis) /\ vis \subseteq Known
    /\ Known \subseteq Routers \cup Networks \cup {Zero}
    /\ \A id \in Known : prevs[id] = Zero \/ prevs[id] \in vis \cap Routers
    /\ \A v \in vis \cap Routers : prevs[v] = Zero => v = Root
    /\ \E rank \in Ranks :
          \A v \in vis \cap Routers : prevs[v] # Zero => rank[prevs[v]] < rank[v]

\* The kernel's routes with a gateway are in our list of them.
Removable ==
    /\ Gateways(kernel) \subseteq kernel_routes
    /\ IF Idle THEN kernel_routes \subseteq routes ELSE kernel_routes = {}

\* The inductive invariant.
Search == GraphShape /\ Frontier /\ Relaxed /\ Tree
Inv ==
    /\ TypeOK /\ Masks /\ Removable
    /\ pc = "dijkstra" => Search
    /\ pc \in {"dijkstra", "install"} => Ranked

-----------------------------------------------------------------------------
(* In the place of induction: a set of naturals that has an element has a  *)
(* least one, and a function can be defined step by step from its first    *)
(* value.                                                                  *)

LEMMA LeastElement ==
  ASSUME NEW T, T \subseteq Nat, T # {}
  PROVE  \E x \in T : \A y \in T : x <= y
  <1> DEFINE R == OpToRel(<, Nat)
  <1>1. IsWellFoundedOn(R, Nat)
    BY NatLessThanWellFounded
  <1>2. \A x, y \in Nat : y < x => <<y, x>> \in R
    BY DEF OpToRel
  <1> HIDE DEF R
  <1>3. PICK x \in T : \A y \in T : ~(<<y, x>> \in R)
    BY <1>1, WFMin
  <1>4. \A y \in T : ~(y < x)
    BY <1>2, <1>3
  <1>5. \A y \in T : x \in Nat /\ y \in Nat
    OBVIOUS
  <1>6. \A y \in T : x <= y
    BY <1>4, <1>5
  <1> QED BY <1>6

\* step[k] leads from the value for k - 1 to that for k; f follows the steps.
Steps(n, S) == [1 .. n -> [S -> S]]
Follows(f, n, S, a, step) ==
    /\ f \in [0 .. n -> S]
    /\ f[0] = a /\ \A k \in 1 .. n : f[k] = step[k][f[k - 1]]

LEMMA StepwiseFunction ==
  ASSUME NEW n \in Nat, NEW S, NEW a \in S, NEW step \in Steps(n, S)
  PROVE  \E f : Follows(f, n, S, a, step)
  <1> DEFINE Is(f, m) == Follows(f, m, S, a, step)
             T == {m \in 0 .. n : ~\E f : Is(f, m)}
  <1>1. SUFFICES T = {}
    <2>1. n \in 0 .. n
      OBVIOUS
    <2> QED BY <1>1, <2>1
  <1>2. SUFFICES ASSUME T # {} PROVE FALSE
    BY <1>2
  <1>3. T \subseteq Nat
    OBVIOUS
  <1>4. PICK m \in T : \A l \in T : m <= l
    BY <1>2, <1>3, LeastElement
  <1>5. m # 0
    <2>1. Is([i \in 0 .. 0 |-> a], 0)
      BY DEF Follows
    <2>2. ASSUME m = 0 PROVE FALSE
      <3>1. \E f : Is(f, m)
        BY <2>1, <2>2
      <3> QED BY <3>1
    <2> QED BY <2>2
  <1>6. m - 1 \in 0 .. n /\ m \in 1 .. n /\ m - 1 \notin T
    BY <1>4, <1>5
  <1>7. PICK f : Is(f, m - 1)
    BY <1>6
  <1> DEFINE g == [i \in 0 .. m |-> IF i = m THEN step[m][f[m - 1]] ELSE f[i]]
  <1> USE DEF Follows, Steps
  <1>8. f[m - 1] \in S /\ step[m][f[m - 1]] \in S
    <2>1. m - 1 \in 0 .. m - 1
      BY <1>6
    <2>2. f[m - 1] \in S
      BY <1>7, <2>1
    <2> QED BY <1>6, <2>2
  <1>9. Is(g, m)
    <2>1. g \in [0 .. m -> S]
      <3>1. ASSUME NEW i \in 0 .. m, i # m PROVE f[i] \in S
        <4>1. i \in 0 .. m - 1
          BY <1>6, <3>1
        <4> QED BY <1>7, <4>1
      <3> QED BY <1>8, <3>1
    <2>2. g[0] = a
      BY <1>5, <1>6, <1>7
    <2>3. ASSUME NEW k \in 1 .. m PROVE g[k] = step[k][g[k - 1]]
      <3>1. k - 1 \in 0 .. m /\ k - 1 # m /\ g[k - 1] = f[k - 1]
        BY <1>6
      <3>2. CASE k = m
        BY <3>1, <3>2
      <3>3. CASE k # m
        <4>1. k \in 1 .. m - 1 /\ k \in 0 .. m
          BY <1>6, <3>3
        <4> QED BY <1>7, <3>1, <3>3, <4>1
      <3> QED BY <3>2, <3>3
    <2> HIDE DEF g
    <2> QED BY <2>1, <2>2, <2>3
  <1> HIDE DEF Is, Follows, Steps
  <1> QED BY <1>9

\* Induction along a function.
LEMMA StepwiseInduction ==
  ASSUME NEW n \in Nat, NEW S, NEW f, f[0] \in S,
         \A k \in 1 .. n : f[k - 1] \in S => f[k] \in S
  PROVE  \A k \in 0 .. n : f[k] \in S
  <1> DEFINE T == {k \in 0 .. n : f[k] \notin S}
  <1>1. SUFFICES ASSUME T # {} PROVE FALSE
    OBVIOUS
  <1>2. T \subseteq Nat
    OBVIOUS
  <1>3. PICK m \in T : \A l \in T : m <= l
    BY <1>1, <1>2, LeastElement
  <1>4. m \in 1 .. n /\ m - 1 \in 0 .. n /\ m - 1 \notin T
    BY <1>3
  <1> QED BY <1>4

-----------------------------------------------------------------------------
(* Constants, databases and graphs.                                        *)

LEMMA Constants ==
  /\ Root \in Routers /\ Root # Zero /\ Root \in Ids /\ Zero \in Ids
  /\ Zero \notin Places /\ Zero \notin Routers /\ Zero \notin Networks
  /\ \A x \in Routers : x \notin Networks
  /\ \A x \in Addresses : x \notin Routers /\ x \notin Networks
  /\ Infinity \in Nat /\ Infinity > 0
  /\ Attached \subseteq Networks /\ Wired \subseteq Addresses /\ OurDR \subseteq Attached
  /\ Places \subseteq Ids /\ Routers \subseteq Ids /\ Networks \subseteq Ids
  /\ Addresses \subseteq Ids
  BY RoutingAssumption DEF Places, Ids, Addresses

LEMMA Finiteness == IsFiniteSet(Ids)
  <1>1. IsFiniteSet(Routers) /\ IsFiniteSet(Networks)
    BY RoutingAssumption
  <1>2. IsFiniteSet(Addresses)
    BY <1>1, FS_Product DEF Addresses
  <1>3. IsFiniteSet({Zero})
    BY FS_Singleton
  <1>4. IsFiniteSet(Routers \cup Networks)
    BY <1>1, FS_Union
  <1>5. IsFiniteSet((Routers \cup Networks) \cup Addresses)
    BY <1>2, <1>4, FS_Union
  <1> QED BY <1>3, <1>5, FS_Union DEF Ids

\* What LSAs look like, ours and those of others.
LinkRecords ==
    [type : {"p2p"}, id : Routers, metric : Nat] \cup
    [type : {"transit"}, id : Addresses, metric : Nat] \cup
    [type : {"stub"}, id : Networks, metric : Nat]
RouterRecords == [id : Routers, links : SUBSET LinkRecords]
NetworkRecords == [dr : Addresses, attached : SUBSET (Routers \cup Addresses)]
OwnRecords == [dr : {Root} \X Attached, attached : SUBSET Wired]

LEMMA DatabaseTypes ==
  ASSUME TypeOK
  PROVE  /\ Database.routers \subseteq RouterRecords
         /\ Database.networks \in Seq(NetworkRecords)
         /\ \E l \in Database.routers : l.id = Root
         /\ db.summaries \in Seq(SummaryLSAs)
  <1>1. /\ db \in [routers : SUBSET RouterLSAs, networks : Seq(NetworkLSAs),
                   summaries : Seq(SummaryLSAs)]
        /\ \E l \in db.routers : l.id = Root
        /\ RouterLSAs \subseteq RouterRecords
        /\ NetworkLSAs \subseteq [dr : Addresses, attached : SUBSET Routers]
    BY RoutingAssumption DEF TypeOK, RouterRecords, LinkRecords
  <1>2. NetworkLSAs \subseteq NetworkRecords
    <2>1. [dr : Addresses, attached : SUBSET Routers] \subseteq NetworkRecords
      BY DEF NetworkRecords
    <2> QED BY <1>1, <2>1
  <1>3. mine \in Seq(OwnRecords)
    BY DEF TypeOK, OwnRecords
  <1>4. OwnRecords \subseteq NetworkRecords
    <2>1. \A n \in Attached : <<Root, n>> \in Addresses
      BY Constants DEF Addresses
    <2>2. {Root} \X Attached \subseteq Addresses
      BY <2>1
    <2> QED BY <2>2, Constants DEF OwnRecords, NetworkRecords
  <1>5. db.networks \in Seq(NetworkRecords) /\ mine \in Seq(NetworkRecords)
    <2>1. db.networks \in Seq(NetworkLSAs)
      BY <1>1
    <2> QED BY <2>1, <1>2, <1>3, <1>4
  <1>6. /\ Database.routers = db.routers
        /\ Database.networks = db.networks \o mine
    BY <1>1 DEF Database
  <1>7. Database.networks \in Seq(NetworkRecords)
    BY <1>5, <1>6
  <1> QED BY <1>1, <1>6, <1>7

LEMMA LeastIs ==
  ASSUME NEW T, T \subseteq Nat, T # {}
  PROVE  Least(T) \in T /\ \A y \in T : Least(T) <= y
  <1>1. \E x \in T : \A y \in T : x <= y
    BY LeastElement
  <1> QED BY <1>1 DEF Least

LEMMA FirstAttachedType ==
  ASSUME NEW networks \in Seq(NetworkRecords), NEW dr
  PROVE  FirstAttached(networks, dr) \subseteq Routers \cup Addresses
  <1>1. CASE Matches(networks, dr) = {}
    BY <1>1 DEF FirstAttached
  <1>2. CASE Matches(networks, dr) # {}
    <2>1. Matches(networks, dr) \subseteq Nat /\ DOMAIN networks = 1 .. Len(networks)
      BY DEF Matches
    <2>2. Least(Matches(networks, dr)) \in DOMAIN networks
      BY <1>2, <2>1, LeastIs DEF Matches
    <2>3. networks[Least(Matches(networks, dr))] \in NetworkRecords
      BY <2>2
    <2> QED BY <1>2, <2>3 DEF FirstAttached, NetworkRecords
  <1> QED BY <1>1, <1>2

GraphEdges == [src : Routers \cup Addresses, dst : Places, metric : Nat]

LEMMA EdgesType ==
  ASSUME TypeOK
  PROVE  Edges(Database) \subseteq GraphEdges
  <1> DEFINE d == Database
  <1>1. d.routers \subseteq RouterRecords /\ d.networks \in Seq(NetworkRecords)
    BY DatabaseTypes
  <1> HIDE DEF d
  <1>2. ASSUME NEW l \in d.routers, NEW k \in l.links
        PROVE  LinkEdges(d.networks, l, k) \subseteq GraphEdges
    <2>1. l.id \in Routers /\ k \in LinkRecords /\ k.metric \in Nat
      BY <1>1, <1>2 DEF RouterRecords, LinkRecords
    <2>2. CASE k.type = "transit"
      <3>1. FirstAttached(d.networks, k.id) \subseteq Places
        BY <1>1, FirstAttachedType DEF Places
      <3> QED BY <2>1, <2>2, <3>1 DEF LinkEdges, Edge, GraphEdges
    <2>3. CASE k.type # "transit"
      <3>1. k.id \in Places
        BY <2>1, <2>3 DEF LinkRecords, Places
      <3> QED BY <2>1, <2>3, <3>1 DEF LinkEdges, Edge, GraphEdges
    <2> QED BY <2>2, <2>3
  <1>3. ASSUME NEW l \in ToSet(d.networks)
        PROVE  NetworkEdges(l) \subseteq GraphEdges
    <2>1. l \in NetworkRecords
      BY <1>1, <1>3 DEF ToSet
    <2>2. NetworkOf(l.dr) \in Places
      BY <2>1 DEF NetworkRecords, NetworkOf, Addresses, Places
    <2>3. l.attached \subseteq Routers \cup Addresses
      BY <2>1 DEF NetworkRecords
    <2> QED BY <2>2, <2>3 DEF NetworkEdges, Edge, GraphEdges
  <1>4. ASSUME NEW e \in Edges(d)
        PROVE  e \in GraphEdges
    <2>1. CASE e \in UNION {NetworkEdges(l) : l \in ToSet(d.networks)}
      BY <1>3, <2>1
    <2>2. CASE e \in UNION {UNION {LinkEdges(d.networks, l, k) : k \in l.links} : l \in d.routers}
      <3>1. PICK l \in d.routers : e \in UNION {LinkEdges(d.networks, l, k) : k \in l.links}
        BY <2>2, Zenon
      <3>2. PICK k \in l.links : e \in LinkEdges(d.networks, l, k)
        BY <3>1, Zenon
      <3> QED BY <1>2, <3>2
    <2> QED BY <1>4, <2>1, <2>2, Zenon DEF Edges
  <1> QED BY <1>4 DEF d

LEMMA NodeIdsType ==
  ASSUME TypeOK
  PROVE  NodeIds(Database) \subseteq Routers \cup Networks /\ Root \in NodeIds(Database)
  <1> DEFINE d == Database
  <1>1. /\ d.routers \subseteq RouterRecords /\ d.networks \in Seq(NetworkRecords)
        /\ \E l \in d.routers : l.id = Root
    BY DatabaseTypes
  <1> HIDE DEF d
  <1>2. \A l \in d.routers : l.id \in Routers
    BY <1>1 DEF RouterRecords
  <1>3. ASSUME NEW l \in d.routers, NEW k \in l.links, k.type = "stub"
        PROVE  k.id \in Networks
    <2>1. k \in LinkRecords
      BY <1>1, <1>3 DEF RouterRecords
    <2> QED BY <2>1, <1>3 DEF LinkRecords
  <1>4. ASSUME NEW l \in ToSet(d.networks)
        PROVE  NetworkOf(l.dr) \in Networks
    <2>1. l \in NetworkRecords
      BY <1>1, <1>4 DEF ToSet
    <2> QED BY <2>1 DEF NetworkRecords, NetworkOf, Addresses
  <1>5. NodeIds(d) \subseteq Routers \cup Networks
    <2>1. {NetworkOf(l.dr) : l \in ToSet(d.networks)} \subseteq Networks
      BY <1>4
    <2>2. ASSUME NEW id \in UNION {{k.id : k \in {j \in l.links : j.type = "stub"}} :
                                     l \in d.routers}
          PROVE  id \in Networks
      <3>1. PICK l \in d.routers : id \in {k.id : k \in {j \in l.links : j.type = "stub"}}
        BY <2>2, Zenon
      <3>2. PICK k \in l.links : k.type = "stub" /\ id = k.id
        BY <3>1
      <3> QED BY <1>3, <3>2
    <2>3. {l.id : l \in d.routers} \subseteq Routers
      BY <1>2
    <2> QED BY <2>1, <2>2, <2>3, Zenon DEF NodeIds
  <1>6. Root \in NodeIds(d)
    BY <1>1 DEF NodeIds
  <1> QED BY <1>5, <1>6 DEF d

-----------------------------------------------------------------------------
(* The environment, and the ends of an update.                             *)

THEOREM InvInit == Init => Inv
  <1> SUFFICES ASSUME Init PROVE Inv
    OBVIOUS
  <1> USE DEF Init
  <1>1. TypeOK
    BY DEF TypeOK
  <1>2. Masks
    BY DEF Masks
  <1>3. Removable
    BY DEF Removable, Gateways, Idle
  <1> QED BY <1>1, <1>2, <1>3 DEF Inv

LEMMA OwnAppended ==
  ASSUME NEW s \in Seq(OwnRecords), NEW i \in 1 .. Len(s), NEW l \in OwnRecords
  PROVE  /\ Append(s, l) \in Seq(OwnRecords)
         /\ Append(RemoveAt(s, i), l) \in Seq(OwnRecords)
  <1>1. /\ Len(s) \in Nat /\ i \in Nat
        /\ i - 1 \in 0 .. Len(s) /\ i + 1 \in 1 .. Len(s) + 1
    OBVIOUS
  <1>2. /\ SubSeq(s, 1, i - 1) \in Seq(OwnRecords)
        /\ SubSeq(s, i + 1, Len(s)) \in Seq(OwnRecords)
    BY <1>1, SubSeqProperties
  <1>3. RemoveAt(s, i) \in Seq(OwnRecords)
    BY <1>2, ConcatProperties DEF RemoveAt
  <1> QED BY <1>3, AppendProperties

\* What another thread or the kernel does meanwhile leaves the table alone.
LEMMA EnvironmentStep ==
  ASSUME Inv, Environment
  PROVE  Inv'
  <1>1. /\ TypeOK /\ Masks /\ Removable
        /\ pc = "dijkstra" => Search
        /\ pc \in {"dijkstra", "install"} => Ranked
    BY DEF Inv
  <1>2. UNCHANGED table /\ Alive
    BY DEF Environment, ReceiveLSU, HearNeighbor, MakeNetworkLSA, Flush
  <1>3. /\ Masks' = Masks /\ Ranked' = Ranked
    BY <1>2 DEF table, Masks, Ranked, Ranks, Known
  <1>4. Search' = Search
    BY <1>2 DEF table, Search, GraphShape, Frontier, Relaxed, Tree, Known
  <1>5. TypeOK' /\ Removable'
    <2>1. CASE ReceiveLSU
      BY <1>1, <1>2, <2>1 DEF ReceiveLSU, table, TypeOK, Removable, Idle
    <2>2. CASE \E a \in Wired : HearNeighbor(a)
      BY <1>1, <1>2, <2>2 DEF HearNeighbor, table, TypeOK, Removable, Idle
    <2>3. CASE \E n \in OurDR :
                 \E full \in SUBSET {a \in nbrs : a[2] = n} : MakeNetworkLSA(n, full)
      <3>1. PICK n \in OurDR, full \in SUBSET nbrs : MakeNetworkLSA(n, full)
        BY <2>3
      <3>2. mine \in Seq(OwnRecords) /\ nbrs \subseteq Wired
        BY <1>1 DEF TypeOK, OwnRecords
      <3> DEFINE l == [dr |-> <<Root, n>>, attached |-> full]
                 old == Matches(mine, <<Root, n>>)
      <3>3. l \in OwnRecords
        BY <3>2, Constants DEF OwnRecords
      <3>4. Append(mine, l) \in Seq(OwnRecords)
        BY <3>2, <3>3, AppendProperties
      <3>5. ASSUME old # {}
            PROVE  Append(RemoveAt(mine, Least(old)), l) \in Seq(OwnRecords)
        <4>1. old \subseteq 1 .. Len(mine) /\ old \subseteq Nat
          BY <3>2 DEF Matches
        <4>2. Least(old) \in 1 .. Len(mine)
          BY <3>5, <4>1, LeastIs
        <4> QED BY <3>2, <3>3, <4>2, OwnAppended
      <3>6. mine' = Append(IF old = {} THEN mine ELSE RemoveAt(mine, Least(old)), l)
        BY <3>1 DEF MakeNetworkLSA
      <3>7. mine' \in Seq(OwnRecords)
        BY <3>4, <3>5, <3>6
      <3>8. UNCHANGED <<db, nbrs, kernel>>
        BY <3>1 DEF MakeNetworkLSA
      <3> QED BY <1>1, <1>2, <3>7, <3>8 DEF table, TypeOK, Removable, Idle, OwnRecords
    <2>4. CASE \E n \in Attached : Flush(n)
      BY <1>1, <1>2, <2>4 DEF Flush, table, TypeOK, Removable, Idle, Gateways
    <2> QED BY <2>1, <2>2, <2>3, <2>4 DEF Environment
  <1> QED BY <1>1, <1>2, <1>3, <1>4, <1>5 DEF Inv, table

\* Once the routes of our list are removed, the kernel has none with a gateway.
LEMMA ResetStep ==
  ASSUME Removable, TypeOK, Reset
  PROVE  Gateways(kernel') = {} /\ kernel_routes' = {} /\ kernel' \subseteq RouteRecords
  BY DEF Removable, TypeOK, Reset, Gateways

LEMMA StartStep ==
  ASSUME Inv, Start
  PROVE  Inv'
  <1> USE DEF Inv, Start
  <1>1. TypeOK'
    BY ResetStep DEF TypeOK
  <1>2. Masks'
    BY DEF Masks
  <1>3. Removable'
    BY ResetStep DEF Removable, Idle
  <1> QED BY <1>1, <1>2, <1>3

LEMMA DestroyStep ==
  ASSUME Inv, Destroy
  PROVE  Inv'
  <1> USE DEF Inv, Destroy
  <1>1. TypeOK'
    BY ResetStep DEF TypeOK
  <1>2. Masks'
    BY DEF Masks
  <1>3. Removable'
    BY ResetStep DEF Removable, Idle
  <1> QED BY <1>1, <1>2, <1>3

LEMMA NoInterfaceStep ==
  ASSUME Inv, NoInterface
  PROVE  Inv'
  <1> USE DEF Inv, NoInterface
  <1>1. TypeOK'
    BY DEF TypeOK
  <1>2. Masks'
    BY DEF Masks
  <1>3. Removable'
    BY DEF Removable, Idle
  <1> QED BY <1>1, <1>2, <1>3

LEMMA InstallStep ==
  ASSUME Inv, Install
  PROVE  Inv'
  <1> USE DEF Inv, Install
  <1>1. ASSUME NEW dst \in Routable
        PROVE  Entry(dst) \in RouteRecords
    <2>1. dst \in DOMAIN nodes /\ dst \in Networks /\ nodes[dst] \in NodeRecords
      BY <1>1 DEF Routable, Masks, TypeOK
    <2>2. nodes[dst].dist \in 0 .. Infinity
      BY <2>1 DEF NodeRecords
    <2> DEFINE n == CHOOSE n \in Outgoing(dst) : TRUE
    <2>3. n \in Outgoing(dst)
      BY <1>1
    <2>4. n \in Attached
      BY <2>3 DEF Outgoing
    <2>5. (IF IsDirect(dst) THEN Zero ELSE <<FirstHop(dst), n>>) \in Wired \cup {Zero}
      BY <2>3 DEF Outgoing, TypeOK
    <2> HIDE DEF n
    <2> QED BY <2>1, <2>2, <2>4, <2>5 DEF Entry, RouteRecords, n
  <1>2. PICK written \in SUBSET (routes' \ kernel) :
           kernel' = kernel \cup written /\ kernel_routes' = written
    BY DEF Listed
  <1>3. routes' \subseteq RouteRecords
    BY <1>1
  <1>4. TypeOK'
    BY <1>2, <1>3 DEF TypeOK
  <1>5. Masks'
    BY DEF Masks
  <1>6. Removable'
    <2>1. Gateways(kernel) = {}
      BY DEF Removable, Idle
    <2> QED BY <1>2, <2>1 DEF Removable, Idle, Gateways
  <1> QED BY <1>4, <1>5, <1>6

-----------------------------------------------------------------------------
(* dijkstra.                                                               *)

LEMMA BuildStep ==
  ASSUME Inv, Build
  PROVE  Inv'
  <1> DEFINE ids == NodeIds(Database)
  <1>1. TypeOK /\ Removable /\ pc = "build"
    BY DEF Inv, Build
  <1>2. /\ ids \subseteq Routers \cup Networks /\ Root \in ids
        /\ edges' \subseteq GraphEdges
    BY <1>1, NodeIdsType, EdgesType DEF Build
  <1> DEFINE fresh == [id \in ids |-> NewNode(id)]
  <1>3. /\ nodes' = [fresh EXCEPT ![Root].dist = 0]
        /\ prevs' = [id \in ids |-> Zero] /\ vis' = {} /\ heap' = {nodes'[Root]}
        /\ pc' = "dijkstra" /\ UNCHANGED <<db, mine, nbrs, routes, kernel, kernel_routes>>
    BY DEF Build
  <1> HIDE DEF ids
  <1>4. ASSUME NEW id \in ids
        PROVE  /\ nodes'[id].id = id /\ nodes'[id].net = (id \in Networks)
               /\ nodes'[id].dist = IF id = Root THEN 0 ELSE Infinity
               /\ nodes'[id] \in NodeRecords
    <2>1. /\ id \in Ids /\ (id \in Networks) \in BOOLEAN
          /\ 0 \in 0 .. Infinity /\ Infinity \in 0 .. Infinity
      BY <1>2, Constants
    <2>2. CASE id = Root
      <3>1. nodes'[id] = [[id |-> id, net |-> id \in Networks, dist |-> Infinity]
                            EXCEPT !.dist = 0]
        BY <1>2, <1>3, <2>2 DEF NewNode
      <3> QED BY <2>1, <2>2, <3>1 DEF NodeRecords
    <2>3. CASE id # Root
      <3>1. nodes'[id] = [id |-> id, net |-> id \in Networks, dist |-> Infinity]
        BY <1>2, <1>3, <2>3 DEF NewNode
      <3> QED BY <2>1, <2>3, <3>1 DEF NodeRecords
    <2> QED BY <2>2, <2>3
  <1>5. DOMAIN nodes' = ids /\ DOMAIN prevs' = ids
    BY <1>3
  <1> HIDE DEF fresh
  <1>6. TypeOK'
    <2>1. GraphEdges \subseteq EdgeRecords
      BY Constants DEF GraphEdges, EdgeRecords
    <2>2. heap' \subseteq NodeRecords /\ vis' \subseteq Ids
      BY <1>2, <1>3, <1>4, Constants
    <2>3. /\ DOMAIN nodes' \subseteq Ids /\ DOMAIN prevs' \subseteq Ids
          /\ \A id \in DOMAIN prevs' : prevs'[id] \in Ids
      BY <1>2, <1>3, <1>5, Constants
    <2> QED BY <1>1, <1>2, <1>3, <1>4, <1>5, <2>1, <2>2, <2>3 DEF TypeOK
  <1>7. Masks'
    BY <1>4, <1>5 DEF Masks
  <1>8. Removable'
    BY <1>1, <1>3 DEF Removable, Idle
  <1>9. Search'
    <2>1. GraphShape'
      BY <1>2, <1>4, <1>5 DEF GraphShape, Known, Places, GraphEdges
    <2>2. Frontier'
      <3>1. nodes'[Root].dist = 0 /\ nodes'[Root].id = Root /\ Infinity > 0
        BY <1>2, <1>4, Constants
      <3>2. \A id \in ids : nodes'[id].dist < Infinity => nodes'[id] \in heap'
        BY <1>3, <1>4, Constants
      <3> QED BY <1>2, <1>3, <1>5, <3>1, <3>2 DEF Frontier, Known
    <2>3. Relaxed'
      BY <1>3 DEF Relaxed
    <2>4. Tree'
      BY <1>2, <1>3, <1>4, <1>5 DEF Tree, Known
    <2> QED BY <2>1, <2>2, <2>3, <2>4 DEF Search
  <1>10. Ranked'
    <2>1. IsFiniteSet({}) /\ Cardinality({}) = 0
      BY FS_EmptySet
    <2>2. [v \in {} |-> 0] \in Ranks'
      BY <1>3 DEF Ranks
    <2> QED BY <1>2, <1>3, <1>5, <2>1, <2>2 DEF Ranked, Known
  <1> QED BY <1>3, <1>6, <1>7, <1>8, <1>9, <1>10 DEF Inv

LEMMA SkipStep ==
  ASSUME Inv, NEW n \in heap, Skip(n)
  PROVE  Inv'
  <1> USE DEF Inv, Skip
  <1>1. TypeOK' /\ Masks' /\ Removable'
    BY DEF TypeOK, Masks, Removable, Idle
  <1>2. GraphShape' /\ Relaxed' /\ Tree'
    BY DEF Search, GraphShape, Relaxed, Tree, Known
  <1>3. Ranked'
    BY DEF Ranked, Ranks, Known
  <1>4. Frontier'
    <2>1. GraphShape /\ Frontier
      BY DEF Search
    <2>2. ASSUME NEW id \in Known \ vis, nodes[id].dist < Infinity
          PROVE  nodes[id] \in heap'
      <3>1. nodes[id] \in heap /\ nodes[id].id = id
        BY <2>1, <2>2 DEF GraphShape, Frontier
      <3> QED BY <3>1
    <2> QED BY <2>1, <2>2 DEF Frontier, Known
  <1> QED BY <1>1, <1>2, <1>3, <1>4 DEF Search

\* The best of the edges from n to id.
LEMMA ThroughIs ==
  ASSUME edges \subseteq EdgeRecords, NEW n, n.dist \in Nat, NEW id,
         \E e \in EdgesOf(n.id) : e.dst = id
  PROVE  /\ Through(n, id) \in Nat /\ n.dist <= Through(n, id)
         /\ \E e \in edges : /\ e.src = n.id /\ e.dst = id
                             /\ Through(n, id) = n.dist + e.metric
         /\ \A e \in edges : e.src = n.id /\ e.dst = id =>
                                Through(n, id) <= n.dist + e.metric
  <1> DEFINE T == {n.dist + e.metric : e \in {f \in EdgesOf(n.id) : f.dst = id}}
  <1>1. \A e \in edges : e.metric \in Nat
    BY DEF EdgeRecords
  <1>2. T \subseteq Nat /\ T # {}
    BY <1>1 DEF EdgesOf
  <1>3. Least(T) \in T /\ \A y \in T : Least(T) <= y
    BY <1>2, LeastIs
  <1>4. Through(n, id) = Least(T)
    BY DEF Through
  <1>5. PICK e \in edges : e.src = n.id /\ e.dst = id /\ Least(T) = n.dist + e.metric
    BY <1>3 DEF EdgesOf
  <1>6. \A f \in edges : f.src = n.id /\ f.dst = id => n.dist + f.metric \in T
    BY DEF EdgesOf
  <1> HIDE DEF T
  <1> QED BY <1>1, <1>2, <1>3, <1>4, <1>5, <1>6

\* The nearest entry of the heap that is not out of date is the node itself,
\* and no visited node is farther.
LEMMA NearestNode ==
  ASSUME TypeOK, GraphShape, Frontier, NEW n \in heap, Nearest(n), n.id \notin vis
  PROVE  /\ n.id \in Known /\ n = nodes[n.id]
         /\ n.dist \in Nat /\ n.dist < Infinity
         /\ \A v \in vis : nodes[v].dist <= n.dist
  <1>1. /\ n \in NodeRecords /\ n.id \in Known /\ n.id \in DOMAIN nodes
        /\ nodes[n.id] \in NodeRecords
    BY DEF TypeOK, GraphShape, Frontier
  <1>2. n.dist \in Nat /\ nodes[n.id].dist \in Nat /\ Infinity \in Nat
    BY <1>1, Constants DEF NodeRecords
  <1>3. nodes[n.id].dist <= n.dist /\ n.dist < Infinity
    BY DEF Frontier
  <1>4. nodes[n.id] \in heap
    BY <1>1, <1>2, <1>3 DEF Frontier
  <1>5. n.dist = nodes[n.id].dist
    BY <1>2, <1>3, <1>4 DEF Nearest
  <1>6. nodes[n.id].id = n.id /\ nodes[n.id].net = n.net
    BY <1>1 DEF GraphShape, Frontier
  <1>7. n = nodes[n.id]
    BY <1>1, <1>5, <1>6 DEF NodeRecords
  <1> QED BY <1>1, <1>2, <1>3, <1>7 DEF Frontier

\* What Relax finds nearer was described and not visited; to everything else
\* the edges from n are no shorter.
LEMMA ImprovedNodes ==
  ASSUME TypeOK, GraphShape, Frontier, NEW n \in heap, Nearest(n), n.id \notin vis
  PROVE  /\ \A id \in Improved(n) :
               /\ id \in Known /\ id \notin vis /\ id # n.id /\ id # Root
               /\ Through(n, id) \in Nat /\ n.dist <= Through(n, id)
               /\ Through(n, id) < nodes[id].dist /\ Through(n, id) < Infinity
               /\ \E e \in edges : /\ e.src = n.id /\ e.dst = id
                                   /\ Through(n, id) = n.dist + e.metric
         /\ \A e \in edges :
               e.src = n.id /\ e.dst \in Known =>
                  IF e.dst \in Improved(n)
                  THEN Through(n, e.dst) <= n.dist + e.metric
                  ELSE nodes[e.dst].dist <= n.dist + e.metric
         /\ Improved(n) # {} => n.id \in Routers
  <1>1. /\ n.id \in Known /\ n = nodes[n.id] /\ n.dist \in Nat
        /\ \A v \in vis : nodes[v].dist <= n.dist
    BY NearestNode
  <1>2. edges \subseteq EdgeRecords /\ Infinity \in Nat
    BY Constants DEF TypeOK
  <1>3. \A id \in DOMAIN nodes : nodes[id].dist \in Nat /\ nodes[id].dist <= Infinity
    BY <1>2 DEF TypeOK, NodeRecords
  <1>4. \A id : Node(id).dist \in Nat
    BY <1>3 DEF Node, NoNode
  <1>5. ASSUME NEW id \in Improved(n)
        PROVE  /\ id \in Known /\ id \notin vis /\ id # n.id /\ id # Root
               /\ Through(n, id) \in Nat /\ n.dist <= Through(n, id)
               /\ Through(n, id) < nodes[id].dist /\ Through(n, id) < Infinity
               /\ \E e \in edges : /\ e.src = n.id /\ e.dst = id
                                   /\ Through(n, id) = n.dist + e.metric
    <2>1. (\E e \in EdgesOf(n.id) : e.dst = id) /\ Node(id).dist > Through(n, id)
      BY <1>5 DEF Improved
    <2>2. /\ Through(n, id) \in Nat /\ n.dist <= Through(n, id)
          /\ \E e \in edges : /\ e.src = n.id /\ e.dst = id
                              /\ Through(n, id) = n.dist + e.metric
      BY <1>1, <1>2, <2>1, ThroughIs
    <2>3. id \in Known /\ Node(id) = nodes[id] /\ id \in DOMAIN nodes
      <3>1. CASE id \in Known
        BY <3>1 DEF GraphShape, Node
      <3>2. CASE id \notin Known
        <4>1. Node(id) = NoNode
          BY <3>2 DEF Node, GraphShape
        <4> QED BY <2>1, <2>2, <4>1 DEF NoNode
      <3> QED BY <3>1, <3>2
    <2>4. Through(n, id) < nodes[id].dist
      BY <1>3, <2>1, <2>2, <2>3
    <2>5. Through(n, id) < Infinity
      BY <1>2, <1>3, <2>2, <2>3, <2>4
    <2>6. id \notin vis
      BY <1>1, <1>3, <2>2, <2>3, <2>4
    <2>7. id # n.id /\ id # Root
      BY <1>1, <2>2, <2>4 DEF GraphShape
    <2> QED BY <2>2, <2>3, <2>4, <2>5, <2>6, <2>7
  <1>6. ASSUME NEW e \in edges, e.src = n.id, e.dst \in Known
        PROVE  IF e.dst \in Improved(n)
               THEN Through(n, e.dst) <= n.dist + e.metric
               ELSE nodes[e.dst].dist <= n.dist + e.metric
    <2>1. e \in EdgesOf(n.id)
      BY <1>6 DEF EdgesOf
    <2>2. Through(n, e.dst) \in Nat /\ Through(n, e.dst) <= n.dist + e.metric
      BY <1>1, <1>2, <1>6, <2>1, ThroughIs
    <2>3. e.metric \in Nat
      BY <1>2 DEF EdgeRecords
    <2>4. Node(e.dst) = nodes[e.dst] /\ nodes[e.dst].dist \in Nat
      BY <1>3, <1>6 DEF GraphShape, Node
    <2>5. ASSUME e.dst \notin Improved(n)
          PROVE  nodes[e.dst].dist <= Through(n, e.dst)
      <3>1. ~(Node(e.dst).dist > Through(n, e.dst))
        BY <2>1, <2>5 DEF Improved
      <3> QED BY <2>2, <2>4, <3>1
    <2> QED BY <1>1, <2>2, <2>3, <2>4, <2>5
  <1>7. ASSUME NEW id \in Improved(n)
        PROVE  n.id \in Routers
    <2>1. PICK e \in edges : e.src = n.id
      BY <1>5, <1>7
    <2>2. n.id \in Routers \cup Addresses /\ n.id \in Routers \cup Networks
      BY <1>1, <2>1 DEF GraphShape
    <2> QED BY <2>2, Constants
  <1> QED BY <1>5, <1>6, <1>7

\* The nodes and predecessors that Relax makes.
LEMMA RelaxedGraph ==
  ASSUME TypeOK, Search, NEW n \in heap, Relax(n)
  PROVE  /\ Known' = Known /\ DOMAIN nodes \subseteq DOMAIN nodes'
         /\ DOMAIN nodes' \subseteq Places
         /\ \A id \in Known :
               IF id \in Improved(n)
               THEN /\ nodes'[id] \in NodeRecords /\ nodes'[id].id = id
                    /\ nodes'[id].net = (id \in Networks)
                    /\ nodes'[id].dist = Through(n, id) /\ prevs'[id] = n.id
               ELSE nodes'[id] = nodes[id] /\ prevs'[id] = prevs[id]
         /\ \A id \in DOMAIN nodes' \ Known : nodes'[id] = NoNode
         /\ \A id \in Improved(n) : nodes'[id] \in heap'
         /\ \A m \in heap' : \/ m \in heap /\ m # n
                             \/ \E id \in Improved(n) : m = nodes'[id]
         /\ \A m \in heap : m # n => m \in heap'
         /\ vis' = vis \cup {n.id} /\ edges' = edges
  <1>1. GraphShape /\ Frontier /\ Nearest(n) /\ n.id \notin vis
    BY DEF Search, Relax
  <1>2. \A id \in Improved(n) : id \in Known /\ Through(n, id) \in 0 .. Infinity
    BY <1>1, ImprovedNodes, Constants
  <1> DEFINE ends == {e.dst : e \in EdgesOf(n.id)}
  <1>3. /\ nodes' = [id \in DOMAIN nodes \cup ends |->
                        IF id \in Improved(n)
                        THEN [Node(id) EXCEPT !.dist = Through(n, id)]
                        ELSE Node(id)]
        /\ prevs' = [id \in DOMAIN prevs \cup Improved(n) |->
                        IF id \in Improved(n) THEN n.id ELSE prevs[id]]
        /\ heap' = (heap \ {n}) \cup {nodes'[id] : id \in Improved(n)}
        /\ vis' = vis \cup {n.id} /\ edges' = edges
    BY DEF Relax, NewPrev
  <1>4. ends \subseteq Places
    BY <1>1 DEF GraphShape, EdgesOf
  <1>5. Improved(n) \subseteq ends
    BY DEF Improved
  <1> HIDE DEF ends
  <1>6. Known' = Known
    BY <1>2, <1>3 DEF Known
  <1>7. DOMAIN nodes' = DOMAIN nodes \cup ends
    BY <1>3
  <1>8. ASSUME NEW id \in Known
        PROVE  IF id \in Improved(n)
               THEN /\ nodes'[id] \in NodeRecords /\ nodes'[id].id = id
                    /\ nodes'[id].net = (id \in Networks)
                    /\ nodes'[id].dist = Through(n, id) /\ prevs'[id] = n.id
               ELSE nodes'[id] = nodes[id] /\ prevs'[id] = prevs[id]
    <2>1. /\ id \in DOMAIN nodes /\ Node(id) = nodes[id] /\ nodes[id] \in NodeRecords
          /\ nodes[id].id = id /\ nodes[id].net = (id \in Networks)
      BY <1>1 DEF GraphShape, Node, TypeOK
    <2>2. CASE id \in Improved(n)
      <3>1. nodes'[id] = [nodes[id] EXCEPT !.dist = Through(n, id)]
        BY <1>3, <2>1, <2>2
      <3>2. prevs'[id] = n.id
        BY <1>3, <2>2
      <3> QED BY <1>2, <2>1, <2>2, <3>1, <3>2 DEF NodeRecords
    <2>3. CASE id \notin Improved(n)
      BY <1>3, <2>1, <2>3 DEF Known
    <2> QED BY <2>2, <2>3
  <1>9. ASSUME NEW id \in DOMAIN nodes' \ Known
        PROVE  nodes'[id] = NoNode
    <2>1. id \notin Improved(n) /\ Node(id) = NoNode
      BY <1>1, <1>2, <1>9 DEF GraphShape, Node
    <2> QED BY <1>3, <1>7, <2>1
  <1>10. DOMAIN nodes \subseteq DOMAIN nodes' /\ DOMAIN nodes' \subseteq Places
    BY <1>1, <1>4, <1>7 DEF GraphShape
  <1>11. /\ \A id \in Improved(n) : nodes'[id] \in heap'
         /\ \A m \in heap : m # n => m \in heap'
         /\ \A m \in heap' : \/ m \in heap /\ m # n
                             \/ \E id \in Improved(n) : m = nodes'[id]
    <2>1. heap' = (heap \ {n}) \cup {nodes'[id] : id \in Improved(n)}
      BY <1>3
    <2> QED BY <2>1
  <1> QED BY <1>3, <1>6, <1>8, <1>9, <1>10, <1>11

LEMMA RelaxType ==
  ASSUME Inv, NEW n \in heap, Relax(n)
  PROVE  TypeOK' /\ Masks' /\ Removable'
  <1>1. TypeOK /\ Masks /\ Removable /\ Search
    BY DEF Inv, Relax
  <1>2. GraphShape /\ Frontier /\ Nearest(n) /\ n.id \notin vis
    BY <1>1 DEF Search, Relax
  <1>3. /\ n.id \in Known /\ n.id \in Ids /\ Known \subseteq Ids
        /\ \A id \in Improved(n) : id \in Known /\ Through(n, id) \in 0 .. Infinity
    BY <1>1, <1>2, NearestNode, ImprovedNodes, Constants DEF TypeOK, Known
  <1>4. ASSUME NEW id \in DOMAIN nodes'
        PROVE  nodes'[id] \in NodeRecords /\ (nodes'[id].net => id \in Networks)
    <2>1. CASE id \in Improved(n)
      BY <1>1, <1>3, <2>1, RelaxedGraph
    <2>2. CASE id \in Known \ Improved(n)
      <3>1. nodes'[id] = nodes[id] /\ id \in DOMAIN nodes
        BY <1>1, <1>2, <2>2, RelaxedGraph DEF GraphShape
      <3> QED BY <1>1, <3>1 DEF TypeOK, Masks
    <2>3. CASE id \notin Known
      <3>1. nodes'[id] = NoNode
        BY <1>1, <1>4, <2>3, RelaxedGraph
      <3> QED BY <3>1, Constants DEF NoNode, NodeRecords
    <2> QED BY <1>3, <2>1, <2>2, <2>3
  <1>5. Masks'
    BY <1>4 DEF Masks
  <1>6. Removable'
    BY <1>1 DEF Relax, Removable, Idle
  <1>7. DOMAIN nodes' \subseteq Ids /\ Known' = Known /\ Known \subseteq DOMAIN nodes'
    BY <1>1, <1>2, RelaxedGraph, Constants DEF GraphShape
  <1>8. \A id \in DOMAIN prevs' : prevs'[id] \in Ids
    BY <1>1, <1>3, <1>7, RelaxedGraph DEF TypeOK, Known
  <1>9. heap' \subseteq NodeRecords
    BY <1>1, <1>3, <1>4, <1>7, RelaxedGraph DEF TypeOK
  <1>10. vis' \subseteq Ids /\ edges' = edges
    BY <1>1, <1>3, RelaxedGraph DEF TypeOK
  <1>11. DOMAIN prevs' \subseteq Ids
    BY <1>1, <1>7 DEF Known, TypeOK
  <1>12. UNCHANGED <<db, mine, nbrs, pc, routes, kernel, kernel_routes>>
    BY DEF Relax
  <1>13. nodes' \in [DOMAIN nodes' -> NodeRecords] /\ prevs' \in [DOMAIN prevs' -> Ids]
    <2>1. /\ nodes' = [id \in DOMAIN nodes' |-> nodes'[id]]
          /\ prevs' = [id \in DOMAIN prevs' |-> prevs'[id]]
      BY DEF Relax
    <2> QED BY <1>4, <1>8, <2>1
  <1>14. TypeOK'
    BY <1>1, <1>7, <1>9, <1>10, <1>11, <1>12, <1>13 DEF TypeOK
  <1> QED BY <1>5, <1>6, <1>14

LEMMA RelaxSearch ==
  ASSUME Inv, NEW n \in heap, Relax(n)
  PROVE  Search'
  <1>1. TypeOK /\ Search /\ Ranked
    BY DEF Inv, Relax
  <1>2. /\ GraphShape /\ Frontier /\ Relaxed /\ Tree
        /\ Nearest(n) /\ n.id \notin vis
    BY <1>1 DEF Search, Relax
  <1>3. /\ n.id \in Known /\ n = nodes[n.id] /\ n.dist \in Nat /\ n.dist < Infinity
        /\ \A v \in vis : nodes[v].dist <= n.dist
    BY <1>1, <1>2, NearestNode
  <1>4. \A id \in Improved(n) :
               /\ id \in Known /\ id \notin vis /\ id # n.id /\ id # Root
               /\ Through(n, id) \in Nat /\ n.dist <= Through(n, id)
               /\ Through(n, id) < nodes[id].dist /\ Through(n, id) < Infinity
               /\ \E e \in edges : /\ e.src = n.id /\ e.dst = id
                                   /\ Through(n, id) = n.dist + e.metric
    BY <1>1, <1>2, ImprovedNodes
  <1>5. \A id \in Known : /\ nodes[id].dist \in Nat /\ id \in DOMAIN nodes
                          /\ nodes[id].id = id /\ nodes[id].net = (id \in Networks)
    <2>1. \A id \in DOMAIN nodes : nodes[id].dist \in Nat
      BY <1>1, Constants DEF TypeOK, NodeRecords
    <2> QED BY <1>2, <2>1 DEF GraphShape
  <1>6. \A id \in Improved(n) :
           /\ nodes'[id].id = id /\ nodes'[id].net = (id \in Networks)
           /\ nodes'[id].dist = Through(n, id) /\ prevs'[id] = n.id
    BY <1>1, <1>4, RelaxedGraph
  <1>7. \A id \in Known \ Improved(n) : nodes'[id] = nodes[id] /\ prevs'[id] = prevs[id]
    BY <1>1, RelaxedGraph
  <1>8. Known' = Known /\ vis' = vis \cup {n.id} /\ edges' = edges
    BY <1>1, RelaxedGraph
  <1>9. \A id \in Known : nodes'[id].dist \in Nat /\ nodes'[id].dist <= nodes[id].dist
    BY <1>4, <1>5, <1>6, <1>7
  <1>10. \A v \in vis' : v \in Known /\ v \notin Improved(n) /\ nodes'[v] = nodes[v]
    BY <1>2, <1>3, <1>4, <1>7, <1>8 DEF Frontier
  <1>11. GraphShape'
    <2>1. DOMAIN nodes' \subseteq Places /\ Known' \subseteq DOMAIN nodes'
      BY <1>1, <1>2, RelaxedGraph DEF GraphShape
    <2>2. \A id \in Known : nodes'[id].id = id /\ nodes'[id].net = (id \in Networks)
      BY <1>5, <1>6, <1>7
    <2>3. \A id \in DOMAIN nodes' \ Known : nodes'[id] = NoNode
      BY <1>1, RelaxedGraph
    <2>4. Root \in Known /\ nodes'[Root].dist = 0
      BY <1>2, <1>4, <1>7 DEF GraphShape
    <2> QED BY <1>2, <1>8, <2>1, <2>2, <2>3, <2>4 DEF GraphShape
  <1>12. Frontier'
    <2>1. ASSUME NEW m \in heap'
          PROVE  /\ m.id \in Known /\ m.net = nodes'[m.id].net
                 /\ nodes'[m.id].dist <= m.dist /\ m.dist < Infinity
                 /\ n.dist <= m.dist /\ m.dist \in Nat
      <3>1. CASE m \in heap
        <4>1. m \in NodeRecords /\ m.dist \in Nat
          BY <1>1, <3>1, Constants DEF TypeOK, NodeRecords
        <4>2. /\ m.id \in Known /\ m.net = nodes[m.id].net
              /\ nodes[m.id].dist <= m.dist /\ m.dist < Infinity /\ n.dist <= m.dist
          BY <1>2, <3>1 DEF Frontier, Nearest
        <4>3. nodes'[m.id].net = nodes[m.id].net
          BY <1>5, <1>6, <1>7, <4>2
        <4> QED BY <1>5, <1>9, <4>1, <4>2, <4>3
      <3>2. CASE \E id \in Improved(n) : m = nodes'[id]
        <4>1. PICK id \in Improved(n) : m = nodes'[id]
          BY <3>2
        <4>2. m.id = id /\ m.dist = Through(n, id) /\ nodes'[m.id] = m
          BY <1>6, <4>1
        <4> QED BY <1>4, <4>2
      <3> QED BY <1>1, <3>1, <3>2, RelaxedGraph
    <2>2. ASSUME NEW id \in Known, id \notin vis', nodes'[id].dist < Infinity
          PROVE  nodes'[id] \in heap'
      <3>1. CASE id \in Improved(n)
        BY <1>1, <3>1, RelaxedGraph
      <3>2. CASE id \notin Improved(n)
        <4>1. nodes'[id] = nodes[id] /\ id \notin vis /\ id # n.id
          BY <1>7, <1>8, <2>2, <3>2
        <4>2. nodes[id] \in heap /\ nodes[id] # n
          BY <1>2, <1>5, <2>2, <4>1 DEF Frontier
        <4> QED BY <1>1, <4>1, <4>2, RelaxedGraph
      <3> QED BY <3>1, <3>2
    <2>3. ASSUME NEW v \in vis'
          PROVE  v \in Known /\ nodes'[v].dist < Infinity /\ nodes'[v].dist <= n.dist
      <3>1. v \in Known /\ nodes'[v] = nodes[v]
        BY <1>10
      <3>2. CASE v \in vis
        BY <1>2, <1>3, <3>1, <3>2 DEF Frontier
      <3>3. CASE v = n.id
        BY <1>3, <3>1, <3>3
      <3> QED BY <1>8, <3>2, <3>3
    <2>4. ASSUME NEW v \in vis', NEW m \in heap'
          PROVE  nodes'[v].dist <= m.dist
      BY <1>3, <1>9, <2>1, <2>3
    <2> QED BY <1>8, <2>1, <2>2, <2>3, <2>4 DEF Frontier
  <1>13. Relaxed'
    <2>1. ASSUME NEW e \in edges, e.src \in vis', e.dst \in Known
          PROVE  nodes'[e.dst].dist <= nodes'[e.src].dist + e.metric
      <3>1. e.metric \in Nat /\ e.src \in Known /\ nodes'[e.src] = nodes[e.src]
        BY <1>1, <1>10, <2>1 DEF TypeOK, EdgeRecords
      <3>2. CASE e.src \in vis
        BY <1>2, <1>5, <1>9, <2>1, <3>1, <3>2 DEF Relaxed
      <3>3. CASE e.src = n.id
        <4>1. IF e.dst \in Improved(n)
              THEN Through(n, e.dst) <= n.dist + e.metric
              ELSE nodes[e.dst].dist <= n.dist + e.metric
          BY <1>1, <1>2, <2>1, <3>3, ImprovedNodes
        <4>2. nodes'[e.src].dist = n.dist
          BY <1>3, <3>1, <3>3
        <4> QED BY <1>6, <1>7, <2>1, <4>1, <4>2
      <3> QED BY <1>8, <2>1, <3>2, <3>3
    <2> QED BY <1>8, <2>1 DEF Relaxed
  <1>14. Tree'
    <2>1. prevs'[Root] = Zero
      BY <1>2, <1>4, <1>7 DEF Tree, GraphShape
    <2>2. ASSUME NEW id \in Known
          PROVE  IF prevs'[id] = Zero
                 THEN id = Root \/ nodes'[id].dist = Infinity
                 ELSE \E e \in edges :
                         /\ e.src = prevs'[id] /\ e.dst = id
                         /\ nodes'[id].dist = nodes'[prevs'[id]].dist + e.metric
      <3>1. CASE id \in Improved(n)
        <4>1. n.id # Zero
          BY <1>2, <1>3, Constants DEF GraphShape
        <4>2. nodes'[n.id] = n
          BY <1>3, <1>4, <1>7
        <4> QED BY <1>4, <1>6, <3>1, <4>1, <4>2
      <3>2. CASE id \notin Improved(n)
        <4>1. nodes'[id] = nodes[id] /\ prevs'[id] = prevs[id]
          BY <1>7, <3>2
        <4>2. ASSUME prevs[id] # Zero
              PROVE  nodes'[prevs[id]] = nodes[prevs[id]]
          <5>1. prevs[id] \in vis
            BY <1>1, <4>2 DEF Ranked
          <5> QED BY <1>8, <1>10, <5>1
        <4> QED BY <1>2, <4>1, <4>2 DEF Tree
      <3> QED BY <3>1, <3>2
    <2> QED BY <1>8, <2>1, <2>2 DEF Tree
  <1> QED BY <1>11, <1>12, <1>13, <1>14 DEF Search

LEMMA RelaxRanked ==
  ASSUME Inv, NEW n \in heap, Relax(n)
  PROVE  Ranked'
  <1>1. TypeOK /\ Search /\ Ranked
    BY DEF Inv, Relax
  <1>2. GraphShape /\ Frontier /\ Tree /\ Nearest(n) /\ n.id \notin vis
    BY <1>1 DEF Search, Relax
  <1>3. n.id \in Known /\ n = nodes[n.id] /\ n.dist \in Nat /\ n.dist < Infinity
    BY <1>1, <1>2, NearestNode
  <1>4. /\ \A id \in Improved(n) : id \in Known /\ id \notin vis /\ id # n.id
        /\ Improved(n) # {} => n.id \in Routers
    BY <1>1, <1>2, ImprovedNodes
  <1>5. /\ \A id \in Improved(n) : prevs'[id] = n.id
        /\ \A id \in Known \ Improved(n) : prevs'[id] = prevs[id]
    BY <1>1, <1>4, RelaxedGraph
  <1>6. Known' = Known /\ vis' = vis \cup {n.id}
    BY <1>1, RelaxedGraph
  <1>7. /\ IsFiniteSet(vis') /\ Cardinality(vis) \in Nat
        /\ Cardinality(vis') = Cardinality(vis) + 1
    BY <1>1, <1>2, <1>6, FS_AddElement, FS_CardinalityType DEF Ranked
  <1>8. vis' \subseteq Known /\ Known \subseteq Routers \cup Networks \cup {Zero}
    BY <1>1, <1>3, <1>6 DEF Ranked
  <1>9. \A id \in Known : prevs'[id] = Zero \/ prevs'[id] \in vis' \cap Routers
    BY <1>1, <1>4, <1>5, <1>6 DEF Ranked
  <1>10. \A v \in vis' : v \in Known /\ prevs'[v] = prevs[v]
    BY <1>4, <1>5, <1>6, <1>8
  <1>11. ASSUME NEW v \in vis' \cap Routers, prevs'[v] = Zero
         PROVE  v = Root
    <2>1. CASE v \in vis
      BY <1>1, <1>10, <1>11, <2>1 DEF Ranked
    <2>2. CASE v = n.id
      BY <1>2, <1>3, <1>10, <1>11, <2>2, Constants DEF Tree
    <2> QED BY <1>6, <2>1, <2>2
  <1>12. PICK rank \in Ranks :
            \A v \in vis \cap Routers : prevs[v] # Zero => rank[prevs[v]] < rank[v]
    BY <1>1 DEF Ranked
  <1> DEFINE last == Cardinality(vis)
             next == [v \in vis' \cap Routers |-> IF v = n.id THEN last ELSE rank[v]]
  <1>13. \A v \in vis \cap Routers : rank[v] \in 0 .. last - 1
    BY <1>12 DEF Ranks
  <1>14. next \in Ranks'
    <2>1. ASSUME NEW v \in vis' \cap Routers
          PROVE  next[v] \in 0 .. Cardinality(vis') - 1
      BY <1>6, <1>7, <1>13
    <2> QED BY <2>1 DEF Ranks
  <1>15. ASSUME NEW v \in vis' \cap Routers, prevs'[v] # Zero
         PROVE  next[prevs'[v]] < next[v]
    <2>1. prevs[v] \in vis \cap Routers /\ prevs'[v] = prevs[v] /\ prevs[v] # n.id
      BY <1>1, <1>2, <1>10, <1>15 DEF Ranked
    <2>2. next[prevs'[v]] = rank[prevs[v]]
      BY <1>6, <2>1
    <2>3. CASE v = n.id
      BY <1>7, <1>13, <2>1, <2>2, <2>3
    <2>4. CASE v # n.id
      BY <1>6, <1>10, <1>12, <1>15, <2>2, <2>4
    <2> QED BY <2>3, <2>4
  <1> HIDE DEF next
  <1>16. \E r \in Ranks' : \A v \in vis' \cap Routers :
            prevs'[v] # Zero => r[prevs'[v]] < r[v]
    BY <1>14, <1>15
  <1> QED BY <1>6, <1>7, <1>8, <1>9, <1>11, <1>16 DEF Ranked

LEMMA RelaxStep ==
  ASSUME Inv, NEW n \in heap, Relax(n)
  PROVE  Inv'
  <1>1. pc' = "dijkstra"
    BY DEF Relax
  <1> QED BY <1>1, RelaxType, RelaxSearch, RelaxRanked DEF Inv

-----------------------------------------------------------------------------
(* Summary-LSAs.                                                           *)

\* Graphs that Summary-LSAs may lead to: they leave the routers alone, and
\* what they add comes after a visited one.
Graphs ==
    [nodes : UNION {[D -> NodeRecords] : D \in SUBSET Ids},
     prevs : UNION {[D -> Ids] : D \in SUBSET Ids},
     edges : SUBSET EdgeRecords]
SummaryGraphs ==
    {g \in Graphs :
        /\ \A id \in DOMAIN g.nodes : g.nodes[id].net => id \in Networks
        /\ \A r \in Routers : /\ r \in DOMAIN g.nodes <=> r \in DOMAIN nodes
                              /\ r \in DOMAIN nodes => g.nodes[r] = nodes[r]
        /\ Known \subseteq DOMAIN g.prevs
        /\ DOMAIN g.prevs \subseteq Routers \cup Networks \cup {Zero}
        /\ \A r \in vis \cap Routers : g.prevs[r] = prevs[r]
        /\ \A id \in DOMAIN g.prevs : g.prevs[id] \in (vis \cap Routers) \cup {Zero}}

SummaryRecords == [id : Networks \cup {Zero}, adv : Routers, metric : Nat]

LEMMA PartialFunction ==
  ASSUME NEW S, NEW V, NEW f,
         f \in UNION {[C -> V] : C \in SUBSET S}
  PROVE  DOMAIN f \subseteq S /\ f \in [DOMAIN f -> V]
  <1>1. PICK C \in SUBSET S : f \in [C -> V]
    OBVIOUS
  <1> QED BY <1>1

LEMMA IsPartialFunction ==
  ASSUME NEW D, NEW S, D \subseteq S, NEW V, NEW f, f \in [D -> V]
  PROVE  f \in UNION {[C -> V] : C \in SUBSET S}
  <1>1. [D -> V] \in {[C -> V] : C \in SUBSET S}
    OBVIOUS
  <1> QED BY <1>1

LEMMA GraphIs ==
  ASSUME Inv, pc = "dijkstra"
  PROVE  Graph \in SummaryGraphs
  <1>1. TypeOK /\ Masks /\ GraphShape /\ Ranked
    BY DEF Inv, Search
  <1>2. nodes \in [DOMAIN nodes -> NodeRecords] /\ prevs \in [DOMAIN prevs -> Ids]
    BY <1>1 DEF TypeOK
  <1> QED BY <1>1, <1>2, IsPartialFunction
          DEF Graph, Graphs, SummaryGraphs, TypeOK, Masks, Ranked, Known

\* The ABR of a Summary-LSA that counts is a visited router, or a node of
\* zeros.
LEMMA AddSummaryIs ==
  ASSUME Inv, pc = "dijkstra", heap = {}, NEW g \in SummaryGraphs, NEW s \in SummaryRecords
  PROVE  AddSummary(g, s) \in SummaryGraphs
  <1>1. TypeOK /\ Masks /\ GraphShape /\ Frontier /\ Ranked
    BY DEF Inv, Search
  <1>2. /\ DOMAIN g.nodes \subseteq Ids /\ g.nodes \in [DOMAIN g.nodes -> NodeRecords]
        /\ DOMAIN g.prevs \subseteq Ids /\ g.prevs \in [DOMAIN g.prevs -> Ids]
        /\ g.edges \subseteq EdgeRecords
    BY PartialFunction DEF SummaryGraphs, Graphs
  <1>3. /\ \A id \in DOMAIN g.nodes : g.nodes[id].net => id \in Networks
        /\ \A r \in Routers : /\ r \in DOMAIN g.nodes <=> r \in DOMAIN nodes
                              /\ r \in DOMAIN nodes => g.nodes[r] = nodes[r]
        /\ Known \subseteq DOMAIN g.prevs
        /\ DOMAIN g.prevs \subseteq Routers \cup Networks \cup {Zero}
        /\ \A r \in vis \cap Routers : g.prevs[r] = prevs[r]
        /\ \A id \in DOMAIN g.prevs : g.prevs[id] \in (vis \cap Routers) \cup {Zero}
    BY DEF SummaryGraphs
  <1>4. /\ s.id \in Networks \cup {Zero} /\ s.adv \in Routers /\ s.metric \in Nat
        /\ s.id \in Ids /\ s.id \notin Routers
    BY Constants DEF SummaryRecords
  <1>5. SUFFICES ASSUME s.adv \in DOMAIN g.nodes, g.nodes[s.adv].dist # Infinity,
                        ~(\/ s.adv = Root \/ s.adv \notin DOMAIN g.nodes
                          \/ g.nodes[s.adv].dist = Infinity)
                 PROVE  AddSummary(g, s) \in SummaryGraphs
    BY DEF AddSummary
  <1> DEFINE abr  == g.nodes[s.adv].id
             dist == IF abr \in DOMAIN g.nodes THEN g.nodes[abr].dist ELSE 0
             net  == [NewNode(s.id) EXCEPT !.dist = dist]
             ns   == [id \in DOMAIN g.nodes \cup {s.id, abr} |->
                         IF id = s.id THEN net
                         ELSE IF id \in DOMAIN g.nodes THEN g.nodes[id] ELSE NoNode]
             ps   == [id \in DOMAIN g.prevs \cup {s.id} |->
                         IF id = s.id THEN abr ELSE g.prevs[id]]
             es   == g.edges \cup {Edge(abr, s.id, s.metric)}
  <1>6. AddSummary(g, s) = [nodes |-> ns, prevs |-> ps, edges |-> es]
    BY <1>5, Zenon DEF AddSummary
  <1>7. s.adv \in DOMAIN nodes /\ g.nodes[s.adv] = nodes[s.adv]
    BY <1>3, <1>4, <1>5
  <1>8. abr \in (vis \cap Routers) \cup {Zero}
    <2>1. CASE s.adv \in Known
      <3>1. abr = s.adv /\ nodes[s.adv].dist \in 0 .. Infinity /\ nodes[s.adv].dist # Infinity
        BY <1>1, <1>5, <1>7, <2>1 DEF GraphShape, TypeOK, NodeRecords
      <3>2. nodes[s.adv].dist < Infinity
        BY <3>1, Constants
      <3> QED BY <1>1, <1>4, <2>1, <3>1, <3>2 DEF Frontier
    <2>2. CASE s.adv \notin Known
      <3>1. nodes[s.adv] = NoNode
        BY <1>1, <1>7, <2>2 DEF GraphShape
      <3> QED BY <1>7, <3>1 DEF NoNode
    <2> QED BY <2>1, <2>2
  <1>9. /\ abr \in Ids
        /\ abr \in Routers => abr \in DOMAIN nodes /\ abr \in DOMAIN g.nodes
    <2>1. \A v \in vis : v \in DOMAIN nodes
      BY <1>1 DEF Ranked, GraphShape
    <2> QED BY <1>3, <1>8, <2>1, Constants
  <1>10. dist \in 0 .. Infinity
    <2>1. CASE abr \in DOMAIN g.nodes
      BY <1>2, <2>1 DEF NodeRecords
    <2>2. CASE abr \notin DOMAIN g.nodes
      BY <2>2, Constants
    <2> QED BY <2>1, <2>2
  <1> HIDE DEF abr, dist
  <1>11. net \in NodeRecords /\ (net.net => s.id \in Networks)
    <2>1. net = [id |-> s.id, net |-> s.id \in Networks, dist |-> dist]
      BY DEF NewNode
    <2>2. (s.id \in Networks) \in BOOLEAN
      OBVIOUS
    <2> QED BY <1>4, <1>10, <2>1, <2>2 DEF NodeRecords
  <1>12. NoNode \in NodeRecords /\ ~NoNode.net
    BY Constants DEF NoNode, NodeRecords
  <1> HIDE DEF net
  <1>13. /\ ns \in [DOMAIN g.nodes \cup {s.id, abr} -> NodeRecords]
         /\ DOMAIN g.nodes \cup {s.id, abr} \subseteq Ids
    BY <1>2, <1>4, <1>9, <1>11, <1>12
  <1>14. \A id \in DOMAIN ns : ns[id].net => id \in Networks
    BY <1>3, <1>11, <1>12
  <1>15. \A r \in Routers : /\ r \in DOMAIN ns <=> r \in DOMAIN nodes
                            /\ r \in DOMAIN nodes => ns[r] = nodes[r]
    BY <1>3, <1>4, <1>8, <1>9
  <1>16. /\ ps \in [DOMAIN g.prevs \cup {s.id} -> Ids]
         /\ DOMAIN g.prevs \cup {s.id} \subseteq Ids
    BY <1>2, <1>4, <1>9
  <1>17. /\ Known \subseteq DOMAIN ps
         /\ DOMAIN ps \subseteq Routers \cup Networks \cup {Zero}
         /\ \A id \in DOMAIN ps : ps[id] \in (vis \cap Routers) \cup {Zero}
    BY <1>3, <1>4, <1>8
  <1>18. \A r \in vis \cap Routers : ps[r] = prevs[r]
    <2>1. \A r \in vis \cap Routers : r \in DOMAIN g.prevs /\ r # s.id
      BY <1>1, <1>3, <1>4 DEF Ranked
    <2> QED BY <1>3, <2>1
  <1>19. es \subseteq EdgeRecords
    BY <1>2, <1>4, <1>9 DEF Edge, EdgeRecords
  <1> HIDE DEF ns, ps, es
  <1>20. [nodes |-> ns, prevs |-> ps, edges |-> es] \in Graphs
    BY <1>13, <1>16, <1>19, IsPartialFunction DEF Graphs
  <1> QED BY <1>6, <1>14, <1>15, <1>17, <1>18, <1>20 DEF SummaryGraphs

LEMMA SummedIs ==
  ASSUME Inv, pc = "dijkstra", heap = {}
  PROVE  Summed[Len(db.summaries)] \in SummaryGraphs
  <1> DEFINE n == Len(db.summaries)
             next(g, k) == AddSummary(g, db.summaries[k])
             step == [k \in 1 .. n |-> [g \in SummaryGraphs |-> next(g, k)]]
  <1>1. n \in Nat /\ \A k \in 1 .. n : db.summaries[k] \in SummaryRecords
    <2>1. db.summaries \in Seq(SummaryLSAs) /\ SummaryLSAs \subseteq SummaryRecords
      BY DatabaseTypes, RoutingAssumption DEF Inv, SummaryRecords
    <2> QED BY <2>1
  <1>2. Graph \in SummaryGraphs
    BY GraphIs
  <1>3. \A k \in 1 .. n : \A g \in SummaryGraphs : next(g, k) \in SummaryGraphs
    BY <1>1, AddSummaryIs
  <1> DEFINE sum == Summed
             IsSum(f) == f = [k \in 0 .. n |-> IF k = 0 THEN Graph ELSE next(f[k - 1], k)]
  <1>4. sum = CHOOSE f : IsSum(f)
    BY Zenon DEF Summed
  <1> HIDE DEF n, next, sum
  <1>5. \E f : IsSum(f)
    <2>1. step \in Steps(n, SummaryGraphs)
      BY <1>3 DEF Steps
    <2>2. \A k \in 1 .. n : \A g \in SummaryGraphs : step[k][g] = next(g, k)
      OBVIOUS
    <2> HIDE DEF step
    <2>3. PICK f : Follows(f, n, SummaryGraphs, Graph, step)
      BY <1>1, <1>2, <2>1, StepwiseFunction
    <2> USE <2>3 DEF Follows
    <2>4. ASSUME NEW k \in 1 .. n
          PROVE  f[k] = next(f[k - 1], k)
      <3>1. f[k - 1] \in SummaryGraphs
        BY <1>1, <2>3
      <3> QED BY <2>2, <2>3, <3>1
    <2>5. \A k \in 0 .. n : f[k] = IF k = 0 THEN Graph ELSE next(f[k - 1], k)
      BY <1>1, <2>3, <2>4
    <2>6. IsSum(f)
      BY <2>3, <2>5
    <2> QED BY <2>6
  <1>6. IsSum(sum)
    BY <1>4, <1>5
  <1>7. sum[0] = Graph /\ \A k \in 1 .. n : sum[k] = next(sum[k - 1], k)
    BY <1>1, <1>6
  <1>8. \A k \in 0 .. n : sum[k] \in SummaryGraphs
    <2>1. \A k \in 1 .. n : sum[k - 1] \in SummaryGraphs => sum[k] \in SummaryGraphs
      BY <1>3, <1>7
    <2> QED BY <1>1, <1>2, <1>7, <2>1, StepwiseInduction
  <1> QED BY <1>1, <1>8 DEF n, sum

LEMMA AddSummariesStep ==
  ASSUME Inv, AddSummaries
  PROVE  Inv'
  <1>1. /\ TypeOK /\ Removable /\ Ranked /\ GraphShape
        /\ pc = "dijkstra" /\ heap = {}
    BY DEF Inv, AddSummaries, Search
  <1>2. PICK g \in SummaryGraphs : nodes' = g.nodes /\ prevs' = g.prevs /\ edges' = g.edges
    BY <1>1, SummedIs DEF AddSummaries
  <1>3. /\ DOMAIN g.nodes \subseteq Ids /\ g.nodes \in [DOMAIN g.nodes -> NodeRecords]
        /\ DOMAIN g.prevs \subseteq Ids /\ g.prevs \in [DOMAIN g.prevs -> Ids]
        /\ g.edges \subseteq EdgeRecords
    BY PartialFunction DEF SummaryGraphs, Graphs
  <1>4. /\ \A id \in DOMAIN g.nodes : g.nodes[id].net => id \in Networks
        /\ Known \subseteq DOMAIN g.prevs
        /\ DOMAIN g.prevs \subseteq Routers \cup Networks \cup {Zero}
        /\ \A r \in vis \cap Routers : g.prevs[r] = prevs[r]
        /\ \A id \in DOMAIN g.prevs : g.prevs[id] \in (vis \cap Routers) \cup {Zero}
    BY DEF SummaryGraphs
  <1>5. /\ pc' = "install" /\ vis' = vis
        /\ UNCHANGED <<db, mine, nbrs, heap, routes, kernel, kernel_routes>>
    BY DEF AddSummaries
  <1>6. TypeOK'
    BY <1>1, <1>2, <1>3, <1>5 DEF TypeOK
  <1>7. Masks'
    BY <1>2, <1>4 DEF Masks
  <1>8. Removable'
    BY <1>1, <1>5 DEF Removable, Idle
  <1>9. Ranked'
    <2>1. Known' = DOMAIN g.prevs /\ Ranks' = Ranks
      BY <1>2, <1>5 DEF Known, Ranks
    <2>2. \A v \in vis \cap Routers : prevs'[v] = prevs[v]
      BY <1>2, <1>4
    <2> QED BY <1>1, <1>2, <1>4, <1>5, <2>1, <2>2 DEF Ranked
  <1> QED BY <1>5, <1>6, <1>7, <1>8, <1>9 DEF Inv

-----------------------------------------------------------------------------
(* The invariant, and what follows from it at once.                        *)

THEOREM InvNext == Inv /\ [Next]_vars => Inv'
  <1> SUFFICES ASSUME Inv, [Next]_vars PROVE Inv'
    OBVIOUS
  <1>1. CASE UNCHANGED vars
    <2>1. Masks' = Masks /\ Ranked' = Ranked
      BY <1>1 DEF vars, Masks, Ranked, Ranks, Known
    <2>2. Search' = Search
      BY <1>1 DEF vars, Search, GraphShape, Frontier, Relaxed, Tree, Known
    <2>3. TypeOK' = TypeOK /\ Removable' = Removable /\ pc' = pc
      BY <1>1 DEF vars, TypeOK, Removable, Idle
    <2> QED BY <2>1, <2>2, <2>3 DEF Inv
  <1>2. CASE Environment
    BY <1>2, EnvironmentStep
  <1>3. CASE Update
    BY <1>3, StartStep, BuildStep, SkipStep, RelaxStep, AddSummariesStep, InstallStep,
       NoInterfaceStep, DestroyStep DEF Update
  <1> QED BY <1>1, <1>2, <1>3 DEF Next

THEOREM Invariant == Spec => []Inv
  BY InvInit, InvNext, PTL DEF Spec

\* The nodes, edges, predecessors and routes are what route.cpp's types say,
\* a route leaves by one of our interfaces, and a next hop is a neighbour.
THEOREM TypeCorrect == Spec => []TypeOK
  <1>1. Inv => TypeOK
    BY DEF Inv
  <1> QED BY <1>1, Invariant, PTL

\* No route with a gateway of an earlier update outlives an update, nor any
\* the program: the list of the routes to remove has all that the kernel took.
THEOREM NoGatewayOutlives == Spec => []NoStaleGateway
  <1>1. Inv => NoStaleGateway
    BY DEF Inv, Removable, NoStaleGateway, Gateways, Idle
  <1> QED BY <1>1, Invariant, PTL

\* The predecessors are those of the distances: one of the edges from each
\* makes up the difference.
THEOREM PredecessorsAddUp == Spec => []PathsAddUp
  <1>1. Inv => PathsAddUp
    BY DEF Inv, Search, Tree, Known, PathsAddUp, Computed, EdgesOf
  <1> QED BY <1>1, Invariant, PTL

-----------------------------------------------------------------------------
(* The walks back to the root.                                             *)

LEMMA BackIs ==
  ASSUME TypeOK, NEW dst \in Ids
  PROVE  /\ Cardinality(Known) \in Nat
         /\ Back(dst)[0] = dst
         /\ \A k \in 1 .. Cardinality(Known) + 1 : Back(dst)[k] = Prev(Back(dst)[k - 1])
  <1> DEFINE n == Cardinality(Known) + 1
             step == [k \in 1 .. n |-> [id \in Ids |-> Prev(id)]]
             IsWalk(f) == f = [k \in 0 .. n |-> IF k = 0 THEN dst ELSE Prev(f[k - 1])]
  <1>1. Cardinality(Known) \in Nat
    BY Finiteness, FS_Subset, FS_CardinalityType DEF TypeOK, Known
  <1>2. \A id \in Ids : Prev(id) \in Ids
    BY Constants DEF Prev, TypeOK
  <1>3. Back(dst) = CHOOSE f : IsWalk(f)
    BY Zenon DEF Back, Known
  <1>4. n \in Nat
    BY <1>1
  <1> HIDE DEF n
  <1>5. \E f : IsWalk(f)
    <2>1. step \in Steps(n, Ids)
      BY <1>2 DEF Steps
    <2>2. \A k \in 1 .. n : \A id \in Ids : step[k][id] = Prev(id)
      OBVIOUS
    <2> HIDE DEF step
    <2>3. PICK f : Follows(f, n, Ids, dst, step)
      BY <1>4, <2>1, StepwiseFunction
    <2> USE <2>3 DEF Follows
    <2>4. ASSUME NEW k \in 1 .. n
          PROVE  f[k] = Prev(f[k - 1])
      <3>1. f[k - 1] \in Ids
        BY <1>4, <2>3
      <3> QED BY <2>2, <2>3, <3>1
    <2>5. \A k \in 0 .. n : f[k] = IF k = 0 THEN dst ELSE Prev(f[k - 1])
      BY <1>4, <2>3, <2>4
    <2>6. IsWalk(f)
      BY <2>3, <2>5
    <2> QED BY <2>6
  <1>6. IsWalk(Back(dst))
    BY <1>3, <1>5
  <1>7. Back(dst)[0] = dst /\ \A k \in 1 .. n : Back(dst)[k] = Prev(Back(dst)[k - 1])
    <2> DEFINE w == Back(dst)
    <2> HIDE DEF w
    <2>1. IsWalk(w)
      BY <1>6 DEF w
    <2>2. w[0] = dst /\ \A k \in 1 .. n : w[k] = Prev(w[k - 1])
      BY <1>4, <2>1
    <2> QED BY <2>2 DEF w
  <1> QED BY <1>1, <1>7 DEF n

\* After its first step a walk is at visited routers or at its end, and it
\* comes to its end: ranks get lower.
LEMMA WalkIs ==
  ASSUME Inv, pc = "install", NEW dst \in Networks
  PROVE  /\ Ends(dst) # {} /\ End(dst) \in Ends(dst)
         /\ Back(dst)[End(dst)] = IF Prev(dst) = Zero THEN Zero ELSE Root
  <1> DEFINE n == Cardinality(Known) + 1
             w == Back(dst)
             seen == vis \cap Routers
  <1>1. TypeOK /\ Ranked
    BY DEF Inv
  <1>2. Cardinality(Known) \in Nat /\ w[0] = dst /\ \A k \in 1 .. n : w[k] = Prev(w[k - 1])
    BY <1>1, BackIs, Constants
  <1>3. \A id : Prev(id) \in seen \cup {Zero}
    BY <1>1 DEF Ranked, Prev, Known
  <1>4. Ends(dst) = {k \in 1 .. n : w[k] \in {Root, Zero}}
    BY DEF Ends, Known
  <1>5. \A v \in seen : v \in Known /\ Prev(v) = prevs[v] /\ (Prev(v) = Zero => v = Root)
    BY <1>1 DEF Ranked, Prev, Known
  <1> HIDE DEF w
  <1>6. Ends(dst) # {}
    <2>1. SUFFICES ASSUME Ends(dst) = {} PROVE FALSE
      OBVIOUS
    <2>2. \A k \in 1 .. n : w[k] \in seen /\ w[k] # Zero
      <3>1. ASSUME NEW k \in 1 .. n PROVE w[k] \in seen /\ w[k] # Zero
        BY <1>2, <1>3, <1>4, <2>1
      <3> QED BY <3>1
    <2>3. PICK rank \in Ranks : \A v \in seen : prevs[v] # Zero => rank[prevs[v]] < rank[v]
      BY <1>1 DEF Ranked
    <2> DEFINE c == Cardinality(vis)
    <2>4. c \in Nat /\ c <= Cardinality(Known)
      <3>1. IsFiniteSet(Known)
        BY <1>1, Finiteness, FS_Subset DEF TypeOK, Known
      <3> QED BY <1>1, <3>1, FS_Subset, FS_CardinalityType DEF Ranked
    <2> HIDE DEF c
    <2>5. \A v \in seen : rank[v] \in 0 .. c - 1
      BY <2>3 DEF Ranks, c
    <2>6. \A k \in 1 .. n : rank[w[k]] <= c - k
      <3> DEFINE T == {k \in 1 .. n : ~(rank[w[k]] <= c - k)}
      <3>1. SUFFICES ASSUME T # {} PROVE FALSE
        OBVIOUS
      <3>2. T \subseteq Nat
        BY <1>2
      <3>3. PICK k \in T : \A l \in T : k <= l
        BY <3>1, <3>2, LeastElement
      <3>4. rank[w[k]] \in 0 .. c - 1
        BY <2>2, <2>5
      <3>5. k # 1
        BY <2>4, <3>4
      <3>6. k - 1 \in 1 .. n /\ k - 1 \notin T
        BY <1>2, <3>3, <3>5
      <3>7. rank[w[k - 1]] <= c - (k - 1)
        BY <3>6
      <3>8. w[k] = prevs[w[k - 1]] /\ w[k] # Zero /\ w[k - 1] \in seen
        BY <1>2, <1>5, <2>2, <3>6
      <3>9. rank[w[k]] < rank[w[k - 1]]
        BY <2>3, <3>8
      <3>10. rank[w[k - 1]] \in 0 .. c - 1
        BY <2>5, <3>8
      <3> QED BY <1>2, <2>4, <3>4, <3>7, <3>9, <3>10
    <2>7. n \in 1 .. n
      BY <1>2
    <2>8. rank[w[n]] <= c - n /\ rank[w[n]] \in 0 .. c - 1
      BY <2>2, <2>5, <2>6, <2>7
    <2> QED BY <1>2, <2>4, <2>8
  <1>7. End(dst) \in Ends(dst) /\ \A l \in Ends(dst) : End(dst) <= l
    <2>1. Ends(dst) \subseteq Nat
      BY <1>2, <1>4
    <2>2. \E k \in Ends(dst) : \A l \in Ends(dst) : k <= l
      BY <1>6, <2>1, LeastElement
    <2> QED BY <2>2 DEF End
  <1> DEFINE k == End(dst)
  <1>8. k \in 1 .. n /\ w[k] \in {Root, Zero} /\ w[k] = Prev(w[k - 1])
    BY <1>2, <1>4, <1>7
  <1> HIDE DEF k
  <1>9. w[1] = Prev(dst) /\ 1 \in 1 .. n
    BY <1>2
  <1>10. CASE Prev(dst) = Zero
    <2>1. k = 1
      <3>1. 1 \in Ends(dst)
        BY <1>4, <1>9, <1>10
      <3> QED BY <1>2, <1>7, <1>8, <3>1 DEF k
    <2> QED BY <1>6, <1>7, <1>9, <1>10, <2>1 DEF k, w
  <1>11. CASE Prev(dst) # Zero
    <2>1. SUFFICES ASSUME w[k] = Zero PROVE FALSE
      BY <1>6, <1>7, <1>8, <1>11 DEF k, w
    <2>2. k - 1 \in 1 .. n /\ k - 1 \notin Ends(dst)
      BY <1>2, <1>7, <1>8, <1>9, <1>11, <2>1 DEF k
    <2>3. w[k - 1] \in seen /\ w[k - 1] # Root
      <3>1. w[k - 1] \notin {Root, Zero}
        BY <1>4, <2>2
      <3>2. w[k - 1] = Prev(w[(k - 1) - 1])
        BY <1>2, <2>2
      <3> QED BY <1>3, <3>1, <3>2
    <2> QED BY <1>5, <1>8, <2>1, <2>3
  <1> QED BY <1>10, <1>11

\* The loop that walks back ends, at the root for every network that has a
\* predecessor: the table has these and no others.
THEOREM EveryWalkEnds == Spec => []WalksEnd
  <1>1. ASSUME Inv, pc = "install", NEW id \in DOMAIN nodes, nodes[id].net
        PROVE  Ends(id) # {} /\ Back(id)[End(id)] = Root <=> Prev(id) # Zero
    <2>1. id \in Networks
      BY <1>1 DEF Inv, Masks
    <2>2. Root # Zero
      BY Constants
    <2> QED BY <1>1, <2>1, <2>2, WalkIs
  <1>2. Inv => WalksEnd
    BY <1>1 DEF WalksEnd, Routable
  <1> QED BY <1>2, Invariant, PTL

-----------------------------------------------------------------------------
(* Shortest paths.                                                         *)

PathRecords == [end : Places, length : Nat]

\* When nothing is left to visit, no path is shorter than the distance.
NoShorter == {p \in PathRecords : p.end \in Known => nodes[p.end].dist <= p.length}

LEMMA LongerIs ==
  ASSUME NEW ps
  PROVE  /\ \A m \in Longer(ps) :
               \E p \in ps : \E e \in edges :
                  /\ e.src = p.end /\ Described(e.src)
                  /\ m = [end |-> e.dst, length |-> p.length + e.metric]
         /\ \A p \in ps : \A e \in edges :
               e.src = p.end /\ Described(e.src) =>
                  [end |-> e.dst, length |-> p.length + e.metric] \in Longer(ps)
  <1> DEFINE more(p) == {[end |-> e.dst, length |-> p.length + e.metric] :
                            e \in {f \in EdgesOf(p.end) : Described(f.src)}}
  <1>1. Longer(ps) = UNION {more(p) : p \in ps}
    BY DEF Longer
  <1>2. ASSUME NEW p
        PROVE  /\ \A m \in more(p) :
                     \E e \in edges :
                        /\ e.src = p.end /\ Described(e.src)
                        /\ m = [end |-> e.dst, length |-> p.length + e.metric]
               /\ \A e \in edges :
                     e.src = p.end /\ Described(e.src) =>
                        [end |-> e.dst, length |-> p.length + e.metric] \in more(p)
    BY DEF EdgesOf
  <1> HIDE DEF more
  <1>3. ASSUME NEW m \in Longer(ps)
        PROVE  \E p \in ps : m \in more(p)
    BY <1>1, <1>3
  <1>4. \A p \in ps : \A m \in more(p) : m \in Longer(ps)
    BY <1>1
  <1> QED BY <1>2, <1>3, <1>4

LEMMA DescribedIs ==
  ASSUME GraphShape, NEW id
  PROVE  Described(id) <=> id \in Known
  BY Constants DEF GraphShape, Described, NoNode

LEMMA ExtendedIs ==
  ASSUME Inv, Computed, NEW ps \in SUBSET NoShorter
  PROVE  Extended(ps) \in SUBSET NoShorter
  <1>1. TypeOK /\ GraphShape /\ Frontier /\ Relaxed /\ heap = {}
    BY DEF Inv, Computed, Search
  <1>2. ASSUME NEW m \in Longer(ps)
        PROVE  m \in NoShorter
    <2>1. PICK p \in ps, e \in edges :
             /\ e.src = p.end /\ Described(e.src)
             /\ m = [end |-> e.dst, length |-> p.length + e.metric]
      BY <1>2, LongerIs
    <2>2. e.src \in Known /\ e.dst \in Places /\ e.metric \in Nat
      BY <1>1, <2>1, DescribedIs DEF GraphShape, TypeOK, EdgeRecords
    <2>3. p.length \in Nat /\ nodes[e.src].dist <= p.length
      BY <2>1, <2>2 DEF NoShorter, PathRecords
    <2>4. \A id \in Known : nodes[id].dist \in 0 .. Infinity
      BY <1>1 DEF GraphShape, TypeOK, NodeRecords
    <2>5. ASSUME e.dst \in Known
          PROVE  nodes[e.dst].dist <= p.length + e.metric
      <3>1. CASE nodes[e.src].dist < Infinity
        <4>1. e.src \in vis
          BY <1>1, <2>2, <3>1 DEF Frontier
        <4>2. nodes[e.dst].dist <= nodes[e.src].dist + e.metric
          BY <1>1, <2>5, <4>1 DEF Relaxed
        <4> QED BY <2>2, <2>3, <2>4, <2>5, <4>2, Constants
      <3>2. CASE ~(nodes[e.src].dist < Infinity)
        BY <2>2, <2>3, <2>4, <2>5, <3>2, Constants
      <3> QED BY <3>1, <3>2
    <2> QED BY <2>1, <2>2, <2>3, <2>5 DEF NoShorter, PathRecords
  <1> QED BY <1>2 DEF Extended

LEMMA HopsAre ==
  ASSUME Inv, Computed
  PROVE  /\ Cardinality(DOMAIN nodes) \in Nat
         /\ Hops[0] = {[end |-> Root, length |-> 0]}
         /\ \A k \in 1 .. Cardinality(DOMAIN nodes) : Hops[k] = Extended(Hops[k - 1])
         /\ \A k \in 0 .. Cardinality(DOMAIN nodes) : Hops[k] \in SUBSET NoShorter
  <1> DEFINE n == Cardinality(DOMAIN nodes)
             sets == SUBSET NoShorter
             start == {[end |-> Root, length |-> 0]}
             step == [k \in 1 .. n |-> [ps \in sets |-> Extended(ps)]]
             IsHops(f) == f = [k \in 0 .. n |-> IF k = 0 THEN start ELSE Extended(f[k - 1])]
             hops == Hops
  <1>1. n \in Nat
    BY Finiteness, FS_Subset, FS_CardinalityType DEF Inv, TypeOK
  <1>2. start \in sets
    BY Constants DEF Inv, Computed, Search, GraphShape, NoShorter, PathRecords, Places
  <1>3. \A ps \in sets : Extended(ps) \in sets
    BY ExtendedIs
  <1>4. hops = CHOOSE f : IsHops(f)
    BY Zenon DEF Hops
  <1> HIDE DEF n, sets, start, hops
  <1>5. \E f : IsHops(f)
    <2>1. step \in Steps(n, sets)
      BY <1>3 DEF Steps
    <2>2. \A k \in 1 .. n : \A ps \in sets : step[k][ps] = Extended(ps)
      OBVIOUS
    <2> HIDE DEF step
    <2>3. PICK f : Follows(f, n, sets, start, step)
      BY <1>1, <1>2, <2>1, StepwiseFunction
    <2> USE <2>3 DEF Follows
    <2>4. ASSUME NEW k \in 1 .. n
          PROVE  f[k] = Extended(f[k - 1])
      <3>1. f[k - 1] \in sets
        BY <1>1, <2>3
      <3> QED BY <2>2, <2>3, <3>1
    <2>5. \A k \in 0 .. n : f[k] = IF k = 0 THEN start ELSE Extended(f[k - 1])
      BY <1>1, <2>3, <2>4
    <2>6. IsHops(f)
      BY <2>3, <2>5
    <2> QED BY <2>6
  <1>6. IsHops(hops)
    BY <1>4, <1>5
  <1>7. hops[0] = start /\ \A k \in 1 .. n : hops[k] = Extended(hops[k - 1])
    BY <1>1, <1>6
  <1>8. \A k \in 0 .. n : hops[k] \in sets
    <2>1. \A k \in 1 .. n : hops[k - 1] \in sets => hops[k] \in sets
      BY <1>3, <1>7
    <2> QED BY <1>1, <1>2, <1>7, <2>1, StepwiseInduction
  <1> QED BY <1>1, <1>7, <1>8 DEF n, sets, start, hops

LEMMA HopsGrow ==
  ASSUME Inv, Computed, NEW k \in 0 .. Cardinality(DOMAIN nodes),
         NEW l \in 0 .. Cardinality(DOMAIN nodes), k <= l
  PROVE  Hops[k] \subseteq Hops[l]
  <1> DEFINE n == Cardinality(DOMAIN nodes)
             T == {m \in 0 .. n : k <= m /\ ~(Hops[k] \subseteq Hops[m])}
  <1>1. n \in Nat
    BY HopsAre
  <1>2. SUFFICES ASSUME T # {} PROVE FALSE
    OBVIOUS
  <1>3. T \subseteq Nat
    OBVIOUS
  <1>4. PICK m \in T : \A o \in T : m <= o
    BY <1>2, <1>3, LeastElement
  <1>5. m # k
    OBVIOUS
  <1>6. m \in 1 .. n /\ m - 1 \in 0 .. n /\ k <= m - 1 /\ m - 1 \notin T
    BY <1>1, <1>4, <1>5
  <1>7. Hops[k] \subseteq Hops[m - 1] /\ Hops[m] = Extended(Hops[m - 1])
    BY <1>6, HopsAre
  <1> QED BY <1>4, <1>7 DEF Extended

PathTo(id) == [end |-> id, length |-> nodes[id].dist]

\* The predecessors of a visited router make up a path of its distance.
LEMMA PathsToVisited ==
  ASSUME Inv, Computed, NEW rank \in Ranks,
         \A v \in vis \cap Routers : prevs[v] # Zero => rank[prevs[v]] < rank[v],
         NEW v \in vis \cap Routers
  PROVE  PathTo(v) \in Hops[rank[v]]
  <1> DEFINE n == Cardinality(DOMAIN nodes)
             seen == vis \cap Routers
             T == {r \in Nat : \E u \in seen : rank[u] = r /\ PathTo(u) \notin Hops[r]}
  <1>1. TypeOK /\ Ranked /\ GraphShape /\ Frontier /\ Tree
    BY DEF Inv, Computed, Search
  <1>2. Cardinality(vis) \in Nat /\ Cardinality(vis) <= n /\ n \in Nat
    <2>1. IsFiniteSet(DOMAIN nodes)
      BY <1>1, Finiteness, FS_Subset DEF TypeOK
    <2>2. vis \subseteq DOMAIN nodes
      BY <1>1 DEF Ranked, GraphShape
    <2> QED BY <2>1, <2>2, FS_Subset, FS_CardinalityType
  <1>3. \A u \in seen : rank[u] \in 0 .. n - 1 /\ rank[u] \in Nat
    <2>1. \A u \in seen : rank[u] \in 0 .. Cardinality(vis) - 1
      BY DEF Ranks
    <2> QED BY <1>2, <2>1
  <1>4. SUFFICES ASSUME T # {} PROVE FALSE
    BY <1>3
  <1>5. T \subseteq Nat
    OBVIOUS
  <1>6. PICK r \in T : \A s \in T : r <= s
    BY <1>4, <1>5, LeastElement
  <1>7. PICK u \in seen : rank[u] = r /\ PathTo(u) \notin Hops[r]
    BY <1>6
  <1>8. r \in 0 .. n - 1 /\ r \in 0 .. n
    BY <1>2, <1>3, <1>7
  <1>9. CASE prevs[u] = Zero
    <2>1. u = Root /\ nodes[u].dist = 0
      BY <1>1, <1>9 DEF Ranked, GraphShape
    <2>2. PathTo(u) \in Hops[0]
      BY <2>1, HopsAre DEF PathTo
    <2>3. Hops[0] \subseteq Hops[r]
      BY <1>2, <1>8, HopsGrow
    <2> QED BY <1>7, <2>2, <2>3
  <1>10. CASE prevs[u] # Zero
    <2>1. prevs[u] \in seen /\ rank[prevs[u]] < r /\ u \in Known
      BY <1>1, <1>7, <1>10 DEF Ranked
    <2> DEFINE q == rank[prevs[u]]
    <2>2. q \in 0 .. n - 1 /\ q < r
      BY <1>3, <2>1
    <2> HIDE DEF q
    <2>3. r - 1 \in 0 .. n /\ r \in 1 .. n /\ q \in 0 .. n /\ q <= r - 1
      BY <1>2, <1>8, <2>2
    <2>4. q \notin T
      BY <1>6, <1>8, <2>2
    <2>5. PathTo(prevs[u]) \in Hops[q]
      BY <2>1, <2>2, <2>4 DEF q
    <2>6. PathTo(prevs[u]) \in Hops[r - 1]
      BY <2>3, <2>5, HopsGrow
    <2>7. PICK e \in edges : /\ e.src = prevs[u] /\ e.dst = u
                             /\ nodes[u].dist = nodes[prevs[u]].dist + e.metric
      BY <1>1, <1>10, <2>1 DEF Tree
    <2>8. Described(prevs[u])
      BY <1>1, <2>1, DescribedIs DEF Ranked
    <2>9. PathTo(u) \in Longer(Hops[r - 1])
      BY <2>6, <2>7, <2>8, LongerIs DEF PathTo
    <2> QED BY <1>7, <2>3, <2>9, HopsAre DEF Extended
  <1> QED BY <1>9, <1>10

\* dijkstra, with its copies of nodes in a heap and its default-made nodes,
\* finds the shortest distances of all nodes the database describes.
THEOREM DistancesShortest == Spec => []Shortest
  <1>1. ASSUME Inv, Computed, NEW id \in DOMAIN nodes, Described(id)
        PROVE  nodes[id].dist =
                  Least({Infinity} \cup {p.length : p \in {q \in Paths : q.end = id}})
    <2> DEFINE n == Cardinality(DOMAIN nodes)
               ends == {p.length : p \in {q \in Paths : q.end = id}}
               all == {Infinity} \cup ends
               dist == nodes[id].dist
    <2>1. TypeOK /\ Ranked /\ GraphShape /\ Frontier /\ Tree
      BY <1>1 DEF Inv, Computed, Search
    <2>2. id \in Known /\ dist \in 0 .. Infinity /\ Infinity \in Nat
      BY <1>1, <2>1, DescribedIs, Constants DEF TypeOK, NodeRecords
    <2>3. n \in Nat /\ Paths \subseteq NoShorter
      <3>1. n \in Nat
        BY <1>1, HopsAre
      <3>2. n \in 0 .. n
        BY <3>1
      <3> QED BY <1>1, <3>1, <3>2, HopsAre DEF Paths
    <2>4. ends \subseteq Nat /\ \A y \in ends : dist <= y
      BY <2>2, <2>3 DEF NoShorter, PathRecords
    <2>5. dist \in all
      <3>1. CASE dist = Infinity
        BY <3>1
      <3>2. CASE dist # Infinity
        <4>1. ASSUME PathTo(id) \in Paths PROVE dist \in ends
          BY <4>1 DEF PathTo
        <4>2. CASE prevs[id] = Zero
          <5>1. id = Root /\ dist = 0
            BY <2>1, <2>2, <3>2, <4>2 DEF Tree, GraphShape
          <5>2. PathTo(id) \in Hops[0]
            BY <1>1, <5>1, HopsAre DEF PathTo
          <5>3. 0 \in 0 .. n /\ n \in 0 .. n /\ 0 <= n
            BY <2>3
          <5> QED BY <1>1, <4>1, <5>2, <5>3, HopsGrow DEF Paths
        <4>3. CASE prevs[id] # Zero
          <5>1. prevs[id] \in vis \cap Routers
            BY <2>1, <2>2, <4>3 DEF Ranked
          <5>2. PICK rank \in Ranks :
                   \A v \in vis \cap Routers : prevs[v] # Zero => rank[prevs[v]] < rank[v]
            BY <2>1 DEF Ranked
          <5> DEFINE r == rank[prevs[id]]
          <5>3. PathTo(prevs[id]) \in Hops[r]
            BY <1>1, <5>1, <5>2, PathsToVisited
          <5>4. r \in 0 .. Cardinality(vis) - 1
            BY <5>1 DEF Ranks
          <5>5. Cardinality(vis) \in Nat /\ Cardinality(vis) <= n
            <6>1. IsFiniteSet(DOMAIN nodes) /\ vis \subseteq DOMAIN nodes
              BY <2>1, Finiteness, FS_Subset DEF TypeOK, Ranked, GraphShape
            <6> QED BY <6>1, FS_Subset, FS_CardinalityType
          <5> HIDE DEF r, n
          <5>6. r + 1 \in 1 .. n /\ (r + 1) - 1 = r /\ n \in 0 .. n /\ r + 1 \in 0 .. n
            BY <2>3, <5>4, <5>5
          <5>7. PICK e \in edges : /\ e.src = prevs[id] /\ e.dst = id
                                   /\ dist = nodes[prevs[id]].dist + e.metric
            BY <2>1, <2>2, <4>3 DEF Tree
          <5>8. Described(prevs[id])
            BY <2>1, <5>1, DescribedIs DEF Ranked
          <5>9. PathTo(id) \in Longer(Hops[r])
            BY <5>3, <5>7, <5>8, LongerIs DEF PathTo
          <5>10. PathTo(id) \in Hops[r + 1]
            BY <1>1, <5>6, <5>9, HopsAre DEF Extended, n
          <5>11. PathTo(id) \in Hops[n]
            BY <1>1, <5>6, <5>10, HopsGrow DEF n
          <5> QED BY <4>1, <5>11 DEF Paths, n
        <4> QED BY <4>2, <4>3
      <3> QED BY <3>1, <3>2
    <2>6. \A y \in all : dist <= y
      BY <2>2, <2>4
    <2> HIDE DEF ends, dist
    <2>7. all \subseteq Nat /\ all # {}
      BY <2>2, <2>4
    <2> HIDE DEF all
    <2>8. Least(all) \in all /\ \A y \in all : Least(all) <= y
      BY <2>7, LeastIs
    <2>9. dist = Least(all)
      <3> DEFINE least == Least(all)
      <3>1. least \in Nat /\ dist <= least /\ least <= dist /\ dist \in Nat
        BY <2>5, <2>6, <2>7, <2>8
      <3> HIDE DEF least
      <3>2. dist = least
        BY <3>1
      <3> QED BY <3>2 DEF least
    <2> QED BY <2>9 DEF all, ends, dist
  <1>2. Inv => Shortest
    BY <1>1 DEF Shortest
  <1> QED BY <1>2, Invariant, PTL

=============================================================================
