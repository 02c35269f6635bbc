------------------------------ MODULE Routing ------------------------------
(***************************************************************************)
(* The routing table (route.cpp): update_route builds a graph from the     *)
(* database, computes shortest paths, adds the networks of other areas,    *)
(* and writes the routes into the kernel, after it has removed those of    *)
(* the update before.                                                      *)
(*                                                                         *)
(* send_loop runs it, when a neighbour reaches FULL out of LOADING.        *)
(* recv_loop changes the database and the neighbours meanwhile: the        *)
(* database is locked while the graph is built and again while Summary-    *)
(* LSAs are added, and free in between.                                    *)
(*                                                                         *)
(* An address is a router and a network it is attached to; the network is  *)
(* what address & mask gives.  Of a mask it only matters whether it is 0.  *)
(* Metrics have 16 bits and distances 32: no path is long enough to wrap.  *)
(***************************************************************************)
EXTENDS Integers, FiniteSets, SequencesExt

CONSTANTS
    Routers,      \* router IDs
    Root,         \* root_id, ours
    Networks,     \* network addresses
    Zero,         \* 0.0.0.0
    Attached,     \* the networks we have an interface on
    Wired,        \* the addresses of the other routers on them
    OurDR,        \* those of which we are DR
    Infinity,     \* UINT32_MAX, the distance of what is not reached
    RouterLSAs,   \* Router-LSAs
    NetworkLSAs,  \* Network-LSAs that others originate
    SummaryLSAs,  \* Summary-LSAs
    Databases     \* what recv_loop may make of the database

Addresses == Routers \X Networks
Ids == Routers \cup Networks \cup Addresses \cup {Zero}

LinkTypes == {"p2p", "transit", "stub"}

ASSUME RoutingAssumption ==
    /\ IsFiniteSet(Routers) /\ IsFiniteSet(Networks)
    /\ Root \in Routers /\ Attached \subseteq Networks /\ OurDR \subseteq Attached
    /\ Wired \subseteq (Routers \ {Root}) \X Attached
    /\ Routers \cap Networks = {} /\ Zero \notin Routers \cup Networks
    /\ Addresses \cap (Routers \cup Networks \cup {Zero}) = {}
    /\ Infinity \in Nat \ {0}
    /\ RouterLSAs \subseteq
          [id : Routers,
           links : SUBSET ([type : {"p2p"}, id : Routers, metric : Nat] \cup
                           [type : {"transit"}, id : Addresses, metric : Nat] \cup
                           [type : {"stub"}, id : Networks, metric : Nat])]
    /\ NetworkLSAs \subseteq [dr : Addresses, attached : SUBSET Routers]
    /\ SummaryLSAs \subseteq [id : Networks \cup {Zero}, adv : Routers,
                            metric : Nat]
    /\ Databases \subseteq [routers : SUBSET RouterLSAs,
                            networks : Seq(NetworkLSAs),
                            summaries : Seq(SummaryLSAs)]
    /\ \A d \in Databases : \E l \in d.routers : l.id = Root

VARIABLES
    db,             \* this_lsdb, without
    mine,           \* our own Network-LSAs
    nbrs,           \* the addresses of the Neighbor objects
    pc,             \* where update_route is
    nodes,          \* nodes[id]
    edges,          \* the edges, with the node they leave
    prevs,          \* prevs[id]
    vis,            \* dijkstra's vis
    heap,           \* dijkstra's heap: nodes with the distance they had
    routes,         \* the routing table
    kernel,         \* routes the kernel took from us
    kernel_routes   \* our list of them

table == <<pc, nodes, edges, prevs, vis, heap, routes, kernel_routes>>
vars == <<db, mine, nbrs, pc, nodes, edges, prevs, vis, heap, routes, kernel,
          kernel_routes>>

-----------------------------------------------------------------------------
(* The graph.                                                              *)

\* A network is a node with a mask; operator[] of the map adds a node of
\* zeros for an ID it does not hold.
NewNode(id) == [id |-> id, net |-> id \in Networks, dist |-> Infinity]
\* Mutant: the node is not initialized.
NoNodeGarbage == [id |-> Zero, net |-> FALSE, dist |-> Infinity + 1]
NoNode == [id |-> Zero, net |-> FALSE, dist |-> 0]

Edge(src, dst, metric) == [src |-> src, dst |-> dst, metric |-> metric]

Least(s) == CHOOSE m \in s : \A o \in s : m <= o

\* Where the Network-LSAs of a designated router are in the list.
Matches(networks, dr) == {i \in DOMAIN networks : networks[i].dr = dr}

\* get_network_lsa(ls_id): the attached routers of the first match.
FirstAttached(networks, dr) ==
    LET hits == Matches(networks, dr)
    IN  IF hits = {} THEN {} ELSE networks[Least(hits)].attached

\* A P2P link leads to a router, a stub link to a network, a transit link to
\* every other router of the network it is on.
LinkEdges(networks, l, k) ==
    IF k.type = "transit"
    THEN {Edge(l.id, r, k.metric) :
             r \in FirstAttached(networks, k.id) \ {l.id}}
    ELSE {Edge(l.id, k.id, k.metric)}

NetworkOf(address) == address[2]

\* Routers attached to a network reach it at no cost.
NetworkEdges(l) == {Edge(r, NetworkOf(l.dr), 0) : r \in l.attached}

Edges(d) ==
    (UNION {UNION {LinkEdges(d.networks, l, k) : k \in l.links} : l \in d.routers})
    \cup (UNION {NetworkEdges(l) : l \in ToSet(d.networks)})

\* Routers that describe themselves, stub networks and transit networks.
NodeIds(d) ==
    {l.id : l \in d.routers}
    \cup (UNION {{k.id : k \in {j \in l.links : j.type = "stub"}} :
                    l \in d.routers})
    \cup {NetworkOf(l.dr) : l \in ToSet(d.networks)}

-----------------------------------------------------------------------------
(* update_route, step by step.                                             *)

Idle == pc = "idle"

Database == [db EXCEPT !.networks = @ \o mine]

\* Routes with a gateway are the ones with a next hop.
Gateways(rs) == {r \in rs : r.next_hop # Zero}

\* reset_kernel_route: routes of connected networks stay in the kernel, and
\* the list starts anew.  To remove a route that is gone fails and is over.
Reset ==
    /\ kernel' = kernel \ Gateways(kernel_routes)
    /\ kernel_routes' = {}

\* A neighbour has just reached FULL.
Start ==
    /\ Idle
    /\ nbrs # {}
    /\ Reset
    /\ pc' = "build"
    /\ nodes' = <<>> /\ prevs' = <<>> /\ edges' = {}
    /\ UNCHANGED <<db, mine, nbrs, vis, heap, routes>>

\* The graph, under the database's mutex, and the start of dijkstra.
Build ==
    /\ pc = "build"
    /\ nodes' = [[id \in NodeIds(Database) |-> NewNode(id)] EXCEPT ![Root].dist = 0]
    /\ prevs' = [id \in NodeIds(Database) |-> Zero]
    /\ edges' = Edges(Database)
    /\ vis' = {}
    /\ heap' = {nodes'[Root]}
    /\ pc' = "dijkstra"
    /\ UNCHANGED <<db, mine, nbrs, routes, kernel, kernel_routes>>

Node(id) == IF id \in DOMAIN nodes THEN nodes[id] ELSE NoNode
Prev(id) == IF id \in DOMAIN prevs THEN prevs[id] ELSE Zero

EdgesOf(id) == {e \in edges : e.src = id}

\* Mutant: the distance of the edge alone.
ThroughEdgeOnly(n, id) ==
    Least({e.metric : e \in {f \in EdgesOf(n.id) : f.dst = id}})
\* The distance of id by the best edge from n.
Through(n, id) ==
    Least({n.dist + e.metric : e \in {f \in EdgesOf(n.id) : f.dst = id}})

\* Where the edges from n lead nearer than before.  Of parallel edges the
\* best counts: what the others push is visited when its turn comes.
Improved(n) ==
    {id \in {e.dst : e \in EdgesOf(n.id)} : Node(id).dist > Through(n, id)}

Nearest(n) == \A m \in heap : n.dist <= m.dist

\* An entry of the heap whose node was visited is out of date.
Skip(n) ==
    /\ pc = "dijkstra"
    /\ n \in heap /\ Nearest(n) /\ n.id \in vis
    /\ heap' = heap \ {n}
    /\ UNCHANGED <<db, mine, nbrs, pc, nodes, edges, prevs, vis, routes, kernel,
                   kernel_routes>>

\* Mutant: the predecessor is not recorded again when a path gets shorter.
FirstPrevs(n, id) == IF Prev(id) # Zero THEN Prev(id) ELSE n.id
NewPrev(n, id) == n.id

Relax(n) ==
    /\ pc = "dijkstra"
    /\ n \in heap /\ Nearest(n) /\ n.id \notin vis
    /\ vis' = vis \cup {n.id}
    /\ nodes' = [id \in DOMAIN nodes \cup {e.dst : e \in EdgesOf(n.id)} |->
                    IF id \in Improved(n)
                    THEN [Node(id) EXCEPT !.dist = Through(n, id)]
                    ELSE Node(id)]
    /\ prevs' = [id \in DOMAIN prevs \cup Improved(n) |->
                    IF id \in Improved(n) THEN NewPrev(n, id) ELSE prevs[id]]
    /\ heap' = (heap \ {n}) \cup {nodes'[id] : id \in Improved(n)}
    /\ UNCHANGED <<db, mine, nbrs, pc, edges, routes, kernel, kernel_routes>>

\* Mutant: whether the ABR was reached is not asked.
AddSummaryUnreached(g, s) ==
    IF s.adv = Root \/ s.adv \notin DOMAIN g.nodes THEN g
    ELSE [g EXCEPT !.nodes = [id \in DOMAIN @ \cup {s.id} |->
                                IF id = s.id
                                THEN [NewNode(s.id) EXCEPT !.dist =
                                         g.nodes[s.adv].dist]
                                ELSE @[id]],
                   !.prevs = [id \in DOMAIN @ \cup {s.id} |->
                                IF id = s.id THEN s.adv ELSE @[id]]]
\* One Summary-LSA, unless it is ours or its ABR was not reached: the network
\* gets the distance of the ABR, also if it had another.
AddSummary(g, s) ==
    IF \/ s.adv = Root \/ s.adv \notin DOMAIN g.nodes
       \/ g.nodes[s.adv].dist = Infinity
    THEN g
    ELSE LET abr  == g.nodes[s.adv].id
             dist == IF abr \in DOMAIN g.nodes THEN g.nodes[abr].dist ELSE 0
             net  == [NewNode(s.id) EXCEPT !.dist = dist]
         IN  [nodes |-> [id \in DOMAIN g.nodes \cup {s.id, abr} |->
                            IF id = s.id THEN net
                            ELSE IF id \in DOMAIN g.nodes THEN g.nodes[id]
                            ELSE NoNode],
              prevs |-> [id \in DOMAIN g.prevs \cup {s.id} |->
                            IF id = s.id THEN abr ELSE g.prevs[id]],
              edges |-> g.edges \cup {Edge(abr, s.id, s.metric)}]

Graph == [nodes |-> nodes, prevs |-> prevs, edges |-> edges]

\* The graph with the first k Summary-LSAs.
Summed ==
    LET sum[k \in 0 .. Len(db.summaries)] ==
            IF k = 0 THEN Graph ELSE AddSummary(sum[k - 1], db.summaries[k])
    IN  sum

\* dijkstra is done; the Summary-LSAs, under the database's mutex.
AddSummaries ==
    /\ pc = "dijkstra" /\ heap = {}
    /\ LET g == Summed[Len(db.summaries)]
       IN  nodes' = g.nodes /\ prevs' = g.prevs /\ edges' = g.edges
    /\ pc' = "install"
    /\ UNCHANGED <<db, mine, nbrs, vis, heap, routes, kernel, kernel_routes>>

\* The walk from a network back to the root: what k steps lead to, and the
\* step at which the loop ends.
Back(dst) ==
    LET walk[k \in 0 .. Cardinality(DOMAIN prevs) + 1] ==
            IF k = 0 THEN dst ELSE Prev(walk[k - 1])
    IN  walk
Ends(dst) ==
    {k \in 1 .. Cardinality(DOMAIN prevs) + 1 : Back(dst)[k] \in {Root, Zero}}
End(dst) == CHOOSE k \in Ends(dst) : \A l \in Ends(dst) : k <= l

\* Networks whose walk ends at the root get an entry.
Routable ==
    {id \in DOMAIN nodes :
        nodes[id].net /\ Ends(id) # {} /\ Back(id)[End(id)] = Root}

IsDirect(dst) == Prev(dst) = Root
FirstHop(dst) == Back(dst)[End(dst) - 1]

\* The interface of a connected network, or the first one with a neighbour
\* of the ID of the first hop.
Outgoing(dst) ==
    {n \in Attached : IF IsDirect(dst) THEN n = dst
                                       ELSE <<FirstHop(dst), n>> \in nbrs}

Entry(dst) ==
    LET n == CHOOSE n \in Outgoing(dst) : TRUE
    IN  [dst |-> dst, metric |-> nodes[dst].dist, intf |-> n,
         next_hop |-> IF IsDirect(dst) THEN Zero ELSE <<FirstHop(dst), n>>]

\* Mutant: only the routes of the first loop are listed.
ListedDirect(written) == written \ Gateways(written)
Listed(written) == written

\* The routes, and update_kernel_route: connected networks first, then the
\* others, which the kernel refuses in the first loop because they have a
\* gateway without the flag for one.  A write may fail, and fails if the
\* kernel has that very route.
Install ==
    /\ pc = "install"
    /\ \A id \in Routable : Outgoing(id) # {}
    /\ routes' = {Entry(id) : id \in Routable}
    /\ \E written \in SUBSET (routes' \ kernel) :
          /\ kernel' = kernel \cup written
          /\ kernel_routes' = Listed(written)
    /\ pc' = "idle"
    /\ UNCHANGED <<db, mine, nbrs, nodes, edges, prevs, vis, heap>>

\* assert(interface != nullptr)
NoInterface ==
    /\ pc = "install"
    /\ \E id \in Routable : Outgoing(id) = {}
    /\ routes' = {}
    /\ pc' = "dead"
    /\ UNCHANGED <<db, mine, nbrs, nodes, edges, prevs, vis, heap, kernel,
                   kernel_routes>>

\* The destructor, after both threads have ended.
Destroy ==
    /\ Idle
    /\ Reset
    /\ pc' = "exit"
    /\ UNCHANGED <<db, mine, nbrs, nodes, edges, prevs, vis, heap, routes>>

-----------------------------------------------------------------------------
(* Meanwhile, recv_loop and the kernel.                                    *)

Alive == pc \notin {"dead", "exit"}

\* make_router_lsa describes a network whose DR is a neighbour by that DR.
OwnLinksKnown(d, known) ==
    \A l \in d.routers :
        l.id = Root =>
            \A k \in l.links :
                k.type = "transit" => k.id \in known \/ k.id[1] = Root

ReceiveLSU ==
    /\ Alive
    /\ db' \in Databases
    /\ OwnLinksKnown(db', nbrs)
    /\ UNCHANGED <<mine, nbrs, kernel, table>>

HearNeighbor(a) ==
    /\ Alive
    /\ nbrs' = nbrs \cup {a}
    /\ UNCHANGED <<db, mine, kernel, table>>

\* make_network_lsa lists the neighbours that are FULL, by their addresses;
\* add takes the old instance out.
MakeNetworkLSA(n, full) ==
    /\ Alive
    /\ full # {}
    /\ LET old == Matches(mine, <<Root, n>>)
       IN  mine' = Append(IF old = {} THEN mine ELSE RemoveAt(mine, Least(old)),
                          [dr |-> <<Root, n>>, attached |-> full])
    /\ UNCHANGED <<db, nbrs, kernel, table>>

\* The kernel drops the routes of an interface that goes down.
Flush(n) ==
    /\ Alive
    /\ kernel' = {r \in kernel : r.intf # n}
    /\ UNCHANGED <<db, mine, nbrs, table>>

Init ==
    /\ nbrs = {}
    /\ db \in Databases /\ OwnLinksKnown(db, nbrs)
    /\ mine = <<>>
    /\ pc = "idle"
    /\ nodes = <<>> /\ edges = {} /\ prevs = <<>> /\ vis = {} /\ heap = {}
    /\ routes = {} /\ kernel = {} /\ kernel_routes = {}

Update ==
    \/ Start
    \/ Build
    \/ \E n \in heap : Skip(n) \/ Relax(n)
    \/ AddSummaries
    \/ Install
    \/ NoInterface
    \/ Destroy

Environment ==
    \/ ReceiveLSU
    \/ \E a \in Wired : HearNeighbor(a)
    \/ \E n \in OurDR :
          \E full \in SUBSET {a \in nbrs : a[2] = n} : MakeNetworkLSA(n, full)
    \/ \E n \in Attached : Flush(n)

Next == Update \/ Environment

Spec == Init /\ [][Next]_vars

-----------------------------------------------------------------------------
(* Properties.                                                             *)

NodeRecords == [id : Ids, net : BOOLEAN, dist : 0 .. Infinity]
EdgeRecords == [src : Ids, dst : Ids, metric : Nat]
RouteRecords ==
    [dst : Networks, metric : 0 .. Infinity, intf : Attached,
     next_hop : Wired \cup {Zero}]

TypeOK ==
    /\ db \in Databases
    /\ mine \in Seq([dr : {Root} \X Attached, attached : SUBSET Wired])
    /\ nbrs \subseteq Wired
    /\ pc \in {"idle", "build", "dijkstra", "install", "dead", "exit"}
    /\ DOMAIN nodes \subseteq Ids /\ nodes \in [DOMAIN nodes -> NodeRecords]
    /\ DOMAIN prevs \subseteq Ids /\ prevs \in [DOMAIN prevs -> Ids]
    /\ edges \subseteq EdgeRecords
    /\ vis \subseteq Ids /\ heap \subseteq NodeRecords
    /\ routes \subseteq RouteRecords
    /\ kernel \subseteq RouteRecords /\ kernel_routes \subseteq RouteRecords

\* Where paths from the root lead that have as many edges as there are nodes
\* or fewer, all through nodes the database describes, with their lengths.
Described(id) == id \in DOMAIN nodes /\ nodes[id].id = id
Longer(ps) ==
    UNION {{[end |-> e.dst, length |-> p.length + e.metric] :
               e \in {f \in EdgesOf(p.end) : Described(f.src)}} : p \in ps}
Extended(ps) == ps \cup Longer(ps)
Hops ==
    LET ps[k \in 0 .. Cardinality(DOMAIN nodes)] ==
            IF k = 0 THEN {[end |-> Root, length |-> 0]} ELSE Extended(ps[k - 1])
    IN  ps
Paths == Hops[Cardinality(DOMAIN nodes)]

Computed == pc = "dijkstra" /\ heap = {}

\* dijkstra, with its copies of nodes in a heap and its default-made nodes,
\* finds the shortest distances of all nodes the database describes.
Shortest ==
    Computed =>
        LET ps == Paths
        IN  \A id \in DOMAIN nodes :
               Described(id) =>
                   nodes[id].dist =
                       Least({Infinity} \cup
                             {p.length : p \in {q \in ps : q.end = id}})

\* The predecessors are those of the distances: each is reached, and one of
\* its edges makes up the difference, although both are overwritten as paths
\* get shorter.
PathsAddUp ==
    Computed =>
        \A id \in DOMAIN prevs :
            prevs[id] # Zero =>
                \E e \in EdgesOf(prevs[id]) :
                    /\ e.dst = id
                    /\ nodes[id].dist = nodes[prevs[id]].dist + e.metric

\* The loop that walks back to the root ends there for every network that
\* has a predecessor, also with Summary-LSAs that overwrote nodes, and the
\* table then has an entry for each of these and no other.
WalksEnd ==
    pc = "install" =>
        Routable = {id \in DOMAIN nodes : nodes[id].net /\ Prev(id) # Zero}

\* No gateway route of an earlier update outlives an update, nor any the
\* program, whichever writes failed and whatever the kernel dropped.
NoStaleGateway ==
    /\ Idle => Gateways(kernel) \subseteq routes
    /\ pc = "exit" => Gateways(kernel) = {}

-----------------------------------------------------------------------------
(* What the repository says of the routes and the code does not keep.      *)

\* docs/3-implement.md:412: the routers on a network are found by their IDs
\* in its Network-LSA, ours included: a described router that it names is
\* reached.
AttachedReached ==
    Computed =>
        \A e \in edges :
            /\ e.src = Root /\ e.dst \in Addresses
            /\ e.dst[1] \in DOMAIN nodes
            => nodes[e.dst[1]].dist # Infinity

=============================================================================
