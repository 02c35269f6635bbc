-------------------------------- MODULE Wire --------------------------------
(***************************************************************************)
(* What goes over the wire: the layouts of packet.hpp with their two       *)
(* conversions, the five produce functions and send_packet, the loops of   *)
(* the handlers that take a packet apart again, and the two checksums of   *)
(* utils.hpp.                                                              *)
(*                                                                         *)
(* A packet is the sequence of its bytes.  A struct is a record, a list of *)
(* fields with their widths is its layout, and host_to_network is how      *)
(* Bytes writes a field; of the 8 bytes of auth, always 0, the first 4 are *)
(* not computed.                                                           *)
(***************************************************************************)
EXTENDS Integers, SequencesExt

CONSTANTS
    RouterId,   \* THIS_ROUTER_ID
    AreaId,     \* area_id of the interface
    Messages    \* what there is to send: records of a type and a body

VARIABLES
    message,  \* what was given to send_packet
    wire      \* the packet on its way, <<>> if there is none

vars == <<message, wire>>

-----------------------------------------------------------------------------
(* Fields and layouts.                                                     *)

Byte == 0 .. 255

\* The running sums of a list, from 0, and its sum.
Sums(s) ==
    LET sum[n \in 0 .. Len(s)] == IF n = 0 THEN 0 ELSE sum[n - 1] + s[n]
    IN  sum
Total(s) == Sums(s)[Len(s)]

\* Big-endian; j - 1 bytes of a number come after its j-th from the right.
Place == <<1, 256, 65536, 16777216>>
Word(width) ==
    {v \in Nat : v \div Place[IF width < 4 THEN width ELSE 4] < 256}
Bytes(v, width) ==
    [j \in 1 .. width |->
        IF width - j > 3 THEN 0 ELSE (v \div Place[width - j + 1]) % 256]
Value(bytes) ==
    Total([j \in 1 .. Len(bytes) |->
              IF Len(bytes) - j > 3 THEN 0
              ELSE bytes[j] * Place[Len(bytes) - j + 1]])

\* The bytes after the first `at'.
Part(bytes, at, width) == SubSeq(bytes, at + 1, at + width)

Names(layout) == {f.name : f \in ToSet(layout)}
Records(layout) ==
    {r \in [Names(layout) -> Nat] :
        \A f \in ToSet(layout) : r[f.name] \in Word(f.width)}

\* Where the fields of a layout end.
Ends(layout) == Sums([j \in 1 .. Len(layout) |-> layout[j].width])
Size(layout) == Ends(layout)[Len(layout)]
Encode(layout, r) ==
    FlattenSeq([j \in 1 .. Len(layout) |->
                   Bytes(r[layout[j].name], layout[j].width)])
Decode(layout, bytes, at) ==
    [name \in Names(layout) |->
        LET j == CHOOSE l \in 1 .. Len(layout) : layout[l].name = name
        IN  Value(Part(bytes, at + Ends(layout)[j - 1], layout[j].width))]

EncodeAll(layout, rs) ==
    FlattenSeq([j \in 1 .. Len(rs) |-> Encode(layout, rs[j])])
\* Mutant: the last record is forgotten.
DecodeAllButLast(layout, bytes, at) ==
    [j \in 1 .. (Len(bytes) - at) \div Size(layout) - 1 |->
        Decode(layout, bytes, at + (j - 1) * Size(layout))]
\* The whole records from `at' to the end.
DecodeAll(layout, bytes, at) ==
    [j \in 1 .. (Len(bytes) - at) \div Size(layout) |->
        Decode(layout, bytes, at + (j - 1) * Size(layout))]

F(name, width) == [name |-> name, width |-> width]

OspfHeader ==
    <<F("version", 1), F("type", 1), F("length", 2), F("router_id", 4),
      F("area_id", 4), F("checksum", 2), F("auth_type", 2), F("auth", 8)>>
Hello ==
    <<F("network_mask", 4), F("hello_interval", 2), F("options", 1),
      F("router_priority", 1), F("router_dead_interval", 4),
      F("designated_router", 4), F("backup_designated_router", 4)>>
DD == <<F("interface_mtu", 2), F("options", 1), F("flags", 1),
        F("sequence_number", 4)>>
Request ==
    <<F("ls_type", 4), F("link_state_id", 4), F("advertising_router", 4)>>
LsaHeader ==
    <<F("age", 2), F("options", 1), F("type", 1), F("link_state_id", 4),
      F("advertising_router", 4), F("sequence_number", 4), F("checksum", 2),
      F("length", 2)>>
Link ==
    <<F("link_id", 4), F("link_data", 4), F("type", 1), F("tos", 1),
      F("metric", 2)>>
Address == <<F("address", 4)>>
Count == <<F("num_lsas", 4)>>
RouterData == <<F("flags", 2), F("num_links", 2)>>
NetworkData == <<F("network_mask", 4)>>
SummaryData == <<F("network_mask", 4), F("tos", 1), F("metric", 3)>>

-----------------------------------------------------------------------------
(* The checksums.                                                          *)

\* Remainder in C++.
Rem(a, n) == IF a >= 0 THEN a % n ELSE -((-a) % n)

\* The two sums of a list: its own, and that of its running sums.
C0(bytes) == Total(bytes)
C1(bytes) ==
    LET c0 == Sums(bytes) IN Total([j \in 1 .. Len(bytes) |-> c0[j]])

\* The bytes at off and off + 1 count as 0.
Without(bytes, off) == [bytes EXCEPT ![off + 1] = 0, ![off + 2] = 0]

XY(bytes, off) ==
    LET c0  == C0(Without(bytes, off)) % 255
        c1  == C1(Without(bytes, off)) % 255
        mul == (Len(bytes) - off) * c0
    IN  [x |-> mul - c0 - c1, y |-> c1 - mul - 1]

\* Mutant: a negative x is not corrected.
Fletcher16Plain(bytes, off) ==
    LET x == Rem(XY(bytes, off).x, 255)
        y == Rem(XY(bytes, off).y + 1, 255)
    IN  ((IF x = 0 THEN 255 ELSE x) % 256) * 256
        + ((IF y = 0 THEN 255 ELSE y) % 256)
Fletcher16(bytes, off) ==
    LET v == XY(bytes, off)
        x == Rem(IF v.x < 0 THEN v.x - 1 ELSE v.x, 255)
        y == Rem(IF v.y >= 0 THEN v.y + 1 ELSE v.y, 255)
    IN  ((IF x = 0 THEN 255 ELSE x) % 256) * 256
        + ((IF y = 0 THEN 255 ELSE y) % 256)

\* 16-bit words as a little-endian machine loads them; an odd byte is the
\* last word.
WordSum(bytes) ==
    Total([j \in 1 .. Len(bytes) |->
              IF j % 2 = 1 THEN bytes[j] ELSE 256 * bytes[j]])
\* Mutant: what the first fold carries is lost.
CrcChecksumOnce(bytes) ==
    LET s == WordSum(bytes)
    IN  65535 - (((s \div 65536) + (s % 65536)) % 65536)
CrcChecksum(bytes) ==
    LET s == WordSum(bytes)
        t == (s \div 65536) + (s % 65536)
    IN  65535 - ((t + (t \div 65536)) % 65536)

-----------------------------------------------------------------------------
(* LSAs: a header and a body of the header's type.                         *)

Router == 1
Network == 2
Summary == 3

LsaSize(lsa) ==
    Size(LsaHeader) +
    CASE lsa.header.type = Router ->
            Size(RouterData) + Len(lsa.links) * Size(Link)
      [] lsa.header.type = Network ->
            Size(NetworkData) + Len(lsa.attached_routers) * Size(Address)
      [] lsa.header.type = Summary -> Size(SummaryData)

\* to_packet
RouterBytes(lsa) == Encode(RouterData, lsa) \o EncodeAll(Link, lsa.links)
NetworkBytes(lsa) ==
    Encode(NetworkData, lsa) \o EncodeAll(Address, lsa.attached_routers)
SummaryBytes(lsa) == Encode(SummaryData, lsa)

ToPacket(lsa) ==
    Encode(LsaHeader, lsa.header) \o
    CASE lsa.header.type = Router -> RouterBytes(lsa)
      [] lsa.header.type = Network -> NetworkBytes(lsa)
      [] lsa.header.type = Summary -> SummaryBytes(lsa)

\* The constructors from a packet.  A Router-LSA goes by num_links and has
\* its TOS cleared, a Network-LSA goes by the length of its header.
RouterAt(header, bytes, body) ==
    LET data  == Decode(RouterData, bytes, body)
        links == body + Size(RouterData)
    IN  [header |-> header, flags |-> data.flags, num_links |-> data.num_links,
         links |-> [j \in 1 .. data.num_links |->
            [Decode(Link, bytes, links + (j - 1) * Size(Link)) EXCEPT !.tos = 0]]]
NetworkAt(header, bytes, body) ==
    LET rest == Part(bytes, 0, body - Size(LsaHeader) + header.length)
    IN  [header |-> header,
         network_mask |-> Decode(NetworkData, bytes, body).network_mask,
         attached_routers |-> DecodeAll(Address, rest, body + Size(NetworkData))]
SummaryAt(header, bytes, body) ==
    LET data == Decode(SummaryData, bytes, body)
    IN  [header |-> header, network_mask |-> data.network_mask,
         tos |-> data.tos, metric |-> data.metric]

FromPacket(bytes, at) ==
    LET header == Decode(LsaHeader, bytes, at)
        body   == at + Size(LsaHeader)
    IN
    CASE header.type = Router -> RouterAt(header, bytes, body)
      [] header.type = Network -> NetworkAt(header, bytes, body)
      [] header.type = Summary -> SummaryAt(header, bytes, body)

\* The end of make_router_lsa and make_network_lsa: length, then checksum of
\* all but the age, in which the checksum's own bytes do not count.
SumOffset == 14
Aged(lsa) == Tail(Tail(ToPacket(lsa)))
Finished(lsa) ==
    LET sized == [lsa EXCEPT !.header.length = LsaSize(lsa)]
    IN  [sized EXCEPT !.header.checksum = Fletcher16(Aged(sized), SumOffset)]

-----------------------------------------------------------------------------
(* Packets: the produce functions, send_packet, and the handlers' loops.   *)

HelloBody(m) == Encode(Hello, m.hello) \o EncodeAll(Address, m.neighbors)
DDBody(m) == Encode(DD, m.dd) \o EncodeAll(LsaHeader, m.lsahdrs)
LSRBody(m) == EncodeAll(Request, m.reqs)
LSUBody(m) ==
    Encode(Count, [num_lsas |-> Len(m.lsas)]) \o
    FlattenSeq([j \in 1 .. Len(m.lsas) |-> ToPacket(m.lsas[j])])
LSAckBody(m) == EncodeAll(LsaHeader, m.lsahdrs)

Body(m) ==
    CASE m.type = 1 -> HelloBody(m)
      [] m.type = 2 -> DDBody(m)
      [] m.type = 3 -> LSRBody(m)
      [] m.type = 4 -> LSUBody(m)
      [] m.type = 5 -> LSAckBody(m)

\* Mutant: the length does not count the header.
PacketHeaderBody(m) ==
    [version |-> 2, type |-> m.type, length |-> Len(Body(m)),
     router_id |-> RouterId, area_id |-> AreaId,
     checksum |-> 0, auth_type |-> 0, auth |-> 0]
PacketHeader(m) ==
    [version |-> 2, type |-> m.type, length |-> Size(OspfHeader) + Len(Body(m)),
     router_id |-> RouterId, area_id |-> AreaId,
     checksum |-> 0, auth_type |-> 0, auth |-> 0]

\* The checksum is stored as it was computed, in the machine's order.
SendPacket(m) ==
    LET packet == Encode(OspfHeader, PacketHeader(m)) \o Body(m)
        sum    == CrcChecksum(packet)
    IN  [packet EXCEPT ![13] = sum % 256, ![14] = sum \div 256]

\* process_lsu: an LSA is as long as what was read of it.
Lsas(bytes, at, n) ==
    LET start[k \in 0 .. n] ==
            IF k = 0 THEN at
            ELSE LET here == start[k - 1]
                 IN  here + LsaSize(FromPacket(bytes, here))
    IN  [k \in 1 .. n |-> FromPacket(bytes, start[k - 1])]

\* What process_hello reads.  The priority, one byte, is converted as if it
\* had four.
HelloRead(bytes, at) ==
    LET hello == Decode(Hello, bytes, at)
    IN  [designated_router |-> hello.designated_router,
         backup_designated_router |-> hello.backup_designated_router,
         priority |-> hello.router_priority * Place[4],
         neighbors |-> DecodeAll(Address, bytes, at + Size(Hello))]
DDRead(bytes, at) ==
    [dd |-> Decode(DD, bytes, at),
     lsahdrs |-> DecodeAll(LsaHeader, bytes, at + Size(DD))]
LSRRead(bytes, at) == [reqs |-> DecodeAll(Request, bytes, at)]
LSURead(bytes, at) ==
    [lsas |-> Lsas(bytes, at + Size(Count), Decode(Count, bytes, at).num_lsas)]

\* recv_loop leaves an LSAck to nobody.
Understood(packet) ==
    LET header == Decode(OspfHeader, packet, 0)
        at     == Size(OspfHeader)
        bytes  == Part(packet, 0, header.length)
    IN
    CASE header.type = 1 -> HelloRead(bytes, at)
      [] header.type = 2 -> DDRead(bytes, at)
      [] header.type = 3 -> LSRRead(bytes, at)
      [] header.type = 4 -> LSURead(bytes, at)
      [] OTHER -> [ignored |-> TRUE]

-----------------------------------------------------------------------------
(* What there may be to send.                                              *)

\* LSAs as the database has them: links without TOS, as long as they say.
RouterLsas ==
    {lsa \in [header : Records(LsaHeader), flags : Word(2), num_links : Word(2),
              links : Seq(Records(Link))] :
        /\ lsa.header.type = Router /\ lsa.num_links = Len(lsa.links)
        /\ \A j \in 1 .. Len(lsa.links) : lsa.links[j].tos = 0}
NetworkLsas ==
    {lsa \in [header : Records(LsaHeader), network_mask : Word(4),
              attached_routers : Seq(Records(Address))] :
        lsa.header.type = Network /\ lsa.header.length = LsaSize(lsa)}
SummaryLsas ==
    {lsa \in [header : Records(LsaHeader), network_mask : Word(4),
              tos : Word(1), metric : Word(3)] : lsa.header.type = Summary}
LSAs == RouterLsas \cup NetworkLsas \cup SummaryLsas

Hellos == [type : {1}, hello : Records(Hello), neighbors : Seq(Records(Address))]
DDs == [type : {2}, dd : Records(DD), lsahdrs : Seq(Records(LsaHeader))]
LSRs == [type : {3}, reqs : Seq(Records(Request))]
LSUs == [type : {4}, lsas : Seq(LSAs)]
LSAcks == [type : {5}, lsahdrs : Seq(Records(LsaHeader))]

\* Our own LSAs in a message.
Ours(m) ==
    IF m.type = 4
    THEN {lsa \in ToSet(m.lsas) : lsa.header.advertising_router = RouterId}
    ELSE {}

\* ETH_DATA_LEN, the size of the buffers that packets are built in.
MaxPacket == 1500

\* Our LSAs, those that came back too, are as make_router_lsa or
\* make_network_lsa left them.
ASSUME WireAssumption ==
    /\ RouterId \in Word(4) /\ AreaId \in Word(4)
    /\ Messages \subseteq Hellos \cup DDs \cup LSRs \cup LSUs \cup LSAcks
    /\ \A m \in Messages :
          /\ Size(OspfHeader) + Len(Body(m)) <= MaxPacket
          /\ \A lsa \in Ours(m) : lsa = Finished(lsa)

-----------------------------------------------------------------------------
(* A packet is sent and received.                                          *)

Nothing == [type |-> 0]

Send(m) == wire = <<>> /\ message' = m /\ wire' = SendPacket(m)

\* What a handler does with what it understood is in the other modules.
Receive == wire # <<>> /\ message' = Nothing /\ wire' = <<>>

Init == message = Nothing /\ wire = <<>>
Next == (\E m \in Messages : Send(m)) \/ Receive
Spec == Init /\ [][Next]_vars

-----------------------------------------------------------------------------
(* Properties.                                                             *)

\* What is on the wire are bytes, and the length in the packet's header is
\* their number: every loop of the handlers ends by it.
TypeOK ==
    /\ message \in Messages \cup {Nothing}
    /\ wire \in Seq(Byte)
    /\ wire # <<>> => Decode(OspfHeader, wire, 0).length = Len(wire)

\* What a message says, for its receiver.
Meaning(m) ==
    CASE m.type = 1 ->
            [designated_router |-> m.hello.designated_router,
             backup_designated_router |-> m.hello.backup_designated_router,
             priority |-> m.hello.router_priority * Place[4],
             neighbors |-> m.neighbors]
      [] m.type = 2 -> [dd |-> m.dd, lsahdrs |-> m.lsahdrs]
      [] m.type = 3 -> [reqs |-> m.reqs]
      [] m.type = 4 -> [lsas |-> m.lsas]
      [] OTHER -> [ignored |-> TRUE]

\* The receiver reads what the sender wrote, lists and all: each handler finds
\* the end of a list by other means (the packet's length, num_lsas, num_links,
\* the LSA's length) than the one that wrote it.
RoundTrip == wire # <<>> => Understood(wire) = Meaning(message)

\* A receiver of either byte order that adds up the packet's 16-bit words, with
\* end-around carry, gets all ones: "no need to convert" (packet.cpp:51).
PacketSum ==
    wire # <<>> =>
    Total([j \in 1 .. Len(wire) \div 2 |-> 256 * wire[2 * j - 1] + wire[2 * j]])
        % 65535 = 0

\* RFC 2328, 12.1.7: both sums over the LSA with its checksum are 0.
Verifies(lsa) == C0(Aged(lsa)) % 255 = 0 /\ C1(Aged(lsa)) % 255 = 0

\* The case that fletcher16 gets wrong: a sum that is not positive and has
\* remainder 1 is stored as 0.
Edge(lsa) ==
    LET v == XY(Aged(lsa), SumOffset)
    IN  \/ v.x < 0 /\ v.x % 255 = 1
        \/ v.y < 0 /\ v.y % 255 = 0

\* A neighbour that checks LSAs takes one of ours unless it is at that edge,
\* and then refuses it.
LsaSum == \A lsa \in Ours(message) : Verifies(lsa) <=> ~Edge(lsa)
=============================================================================
