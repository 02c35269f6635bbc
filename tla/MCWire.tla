------------------------------- MODULE MCWire -------------------------------
(* Messages for TLC: every type, lists of length 0 to 3, an LSU with one   *)
(* LSA of each kind, and our LSAs under many sequence numbers.  TLC's      *)
(* integers end at 2^31: no 4-byte field has its top bit.                  *)
EXTENDS Wire, TLC

CONSTANTS LastSeq  \* sequence numbers of our LSAs

Ip(n) == 10 * 256^3 + n
Addresses(n) == [j \in 1 .. n |-> [address |-> Ip(j)]]

Header(type, id, adv, seq) ==
    [age |-> 0, options |-> 2, type |-> type, link_state_id |-> id,
     advertising_router |-> adv, sequence_number |-> seq, checksum |-> 0,
     length |-> 0]

RouterLsa(adv, seq, metrics) ==
    Finished([header |-> Header(Router, adv, adv, seq),
              flags |-> 0, num_links |-> Len(metrics),
              links |-> [j \in 1 .. Len(metrics) |->
                 [link_id |-> Ip(256 * j + 1), link_data |-> Ip(256 * j + 2),
                  type |-> j, tos |-> 0, metric |-> metrics[j]]]])
NetworkLsa(adv, seq, n) ==
    Finished([header |-> Header(Network, Ip(1), adv, seq),
              network_mask |-> Ip(0), attached_routers |-> Addresses(n)])
SummaryLsa(adv, metric) ==
    Finished([header |-> Header(Summary, Ip(512), adv, 7),
              network_mask |-> Ip(0), tos |-> 0, metric |-> metric])

Me == Ip(1)
You == Ip(2)

HelloMessages ==
    {[type |-> 1,
      hello |-> [network_mask |-> Ip(0), hello_interval |-> 10, options |-> 2,
                 router_priority |-> p, router_dead_interval |-> 40,
                 designated_router |-> dr,
                 backup_designated_router |-> Ip(0)],
      neighbors |-> Addresses(n)] :
        p \in {0, 1, 100}, dr \in {0, Me, You}, n \in 0 .. 3}
Headers(n) == [j \in 1 .. n |-> RouterLsa(Ip(j), j, <<10>>).header]
\* With it, and flag MS alone, the sum of a DD carries out of its first fold.
CarryingSeq == 60671
DDMessages ==
    {[type |-> 2,
      dd |-> [interface_mtu |-> 1500, options |-> 2, flags |-> f,
              sequence_number |-> s],
      lsahdrs |-> Headers(n)] : f \in 0 .. 7, s \in {0, CarryingSeq, 16777215},
                                n \in 0 .. 3}
LSRMessages ==
    {[type |-> 3,
      reqs |-> [j \in 1 .. n |-> [ls_type |-> t, link_state_id |-> Ip(j),
                                  advertising_router |-> Ip(j)]]] :
        t \in 1 .. 3, n \in 0 .. 3}
LSUMessages ==
    {[type |-> 4, lsas |-> <<NetworkLsa(You, 1, n), RouterLsa(You, 2, ms),
                             SummaryLsa(You, m)>>] :
        n \in 0 .. 2, ms \in {<<>>, <<1>>, <<10, 65535>>}, m \in {0, 16777215}}
OurLSUs ==
    {[type |-> 4, lsas |-> <<RouterLsa(Me, seq, ms)>>] :
        seq \in 1 .. LastSeq, ms \in {<<1>>, <<1, 10>>}}
    \cup {[type |-> 4, lsas |-> <<NetworkLsa(Me, seq, 2)>>] :
             seq \in 1 .. LastSeq}
AckMessages == {[type |-> 5, lsahdrs |-> Headers(n)] : n \in 0 .. 3}

AllMessages ==
    HelloMessages \cup DDMessages \cup LSRMessages \cup LSUMessages
    \cup OurLSUs \cup AckMessages
=============================================================================
