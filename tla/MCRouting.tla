----------------------------- MODULE MCRouting -----------------------------
(* An area for TLC: we (r0) meet r1 on network a and r2 on network b; r1   *)
(* and r2 meet on network c, which is the longer or the shorter way between *)
(* them; s is a stub network of r2, t a network of another area.           *)
EXTENDS Routing, TLC

CONSTANTS r0, r1, r2, a, b, c, s, t

AllRouters == {r0, r1, r2}
AllNetworks == {a, b, c, s, t}
OurNetworks == {a, b}
OurWires == {<<r1, a>>, <<r2, b>>}
OnlyA == {a}
OnlyB == {b}

Transit(dr, n, m) == [type |-> "transit", id |-> <<dr, n>>, metric |-> m]
Stub(n, m) == [type |-> "stub", id |-> n, metric |-> m]
P2P(r, m) == [type |-> "p2p", id |-> r, metric |-> m]
LSA(r, links) == [id |-> r, links |-> links]

Ours == LSA(r0, {Transit(r1, a, 1), Transit(r2, b, 4)})
OursAlone == LSA(r0, {Stub(a, 1), Stub(b, 4)})
OursAsDR == LSA(r0, {Transit(r0, a, 1), Stub(b, 4)})
OursShared == LSA(r0, {Transit(r1, a, 1), Stub(b, 4)})
Near == LSA(r1, {Transit(r1, a, 1), Transit(r2, c, 1)})
Far == LSA(r1, {Transit(r1, a, 1), Transit(r2, c, 5)})
Direct == LSA(r1, {Transit(r1, a, 1), P2P(r2, 2), Stub(s, 1)})
Other == LSA(r2, {Transit(r2, b, 1), Transit(r2, c, 1), Stub(s, 2)})

Net(r, n, others) == [dr |-> <<r, n>>, attached |-> others]
Remote == LSA(r2, {Transit(r1, a, 1), Stub(s, 2)})
NetShared == Net(r1, a, {r0, r1, r2})
NetA == Net(r1, a, {r0, r1})
NetB == Net(r2, b, {r0, r2})
NetC == Net(r2, c, {r1, r2})

Inter(n, r) == [id |-> n, adv |-> r, metric |-> 1]

Base(routers, networks, summaries) ==
    [routers |-> routers, networks |-> networks, summaries |-> summaries]

MCRouterLSAs == {Ours, OursAlone, OursAsDR, OursShared, Remote, Near, Far, Direct, Other}
MCNetworkLSAs == {NetA, NetB, NetC, NetShared}
MCSummaryLSAs == {Inter(n, r) : n \in {s, t, Zero}, r \in AllRouters}
\* Nobody yet; two ways to r2; both instances of r1's LSA, with Summary-LSAs of
\* a network of the area and of the default route; a P2P link to a router that
\* nobody describes, as an ABR as well; r2 on our network a; and ourselves as
\* its DR.
Alone == Base({OursAlone}, <<>>, <<>>)
TwoWays == Base({Ours, Near, Other}, <<NetA, NetB, NetC>>, <<Inter(t, r1), Inter(t, r2)>>)
Doubled == Base({Ours, Near, Far, Other}, <<NetA, NetC>>, <<Inter(s, r1), Inter(Zero, r1)>>)
Partial == Base({Ours, Direct}, <<NetA, NetB>>, <<Inter(t, r2), Inter(t, r0)>>)
Shared == Base({OursShared, Near, Remote}, <<NetShared>>, <<>>)
AsDR == Base({OursAsDR, Near, Other}, <<NetC>>, <<Inter(t, r1)>>)

MCDatabases == {Alone, TwoWays, Doubled, Partial, Shared}
DRDatabases == {Alone, AsDR}
=============================================================================
