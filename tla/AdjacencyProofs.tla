-------------------------- MODULE AdjacencyProofs --------------------------
(***************************************************************************)
(* Theorems about Adjacency.  The slave is an instance of the router of    *)
(* Exchange: each step of this model is one of its steps, with packets it  *)
(* takes as well formed (SlaveSteps), so that what ExchangeProofs shows of *)
(* it holds here.  What concerns both routers and what is on its way is    *)
(* the invariant First, of the time before a restart.                      *)
(***************************************************************************)
EXTENDS Adjacency, FiniteSetTheorems, SequenceTheorems, TLAPS

-----------------------------------------------------------------------------
(* The slave is a router of Exchange.                                      *)

LEMMA FiniteTheirs == IsFiniteSet(Theirs) /\ IsFiniteSet(RouterKeys)
  <1>1. Told \in Surjection(1 .. Len(Told), Theirs)
    BY AdjacencyAssumption DEF ToSet, Surjection
  <1>2. IsFiniteSet(1 .. Len(Told))
    BY AdjacencyAssumption, FS_Interval
  <1>3. IsFiniteSet(Theirs)
    BY <1>1, <1>2, FS_Surjection
  <1> QED BY <1>3, FS_AddElement, FS_Union, FS_Singleton DEF RouterKeys

\* The assumption of Exchange.
LEMMA SlaveConstants ==
  /\ {Master} \subseteq {Master}
  /\ OwnRouter \in RouterKeys /\ OwnNetwork \in {OwnNetwork}
  /\ DDs \subseteq [ms : BOOLEAN, m : BOOLEAN, i : BOOLEAN, seq : S!SeqNums,
                    options : {2}, hdrs : SUBSET S!Keys]
  /\ SUBSET Keys \subseteq SUBSET S!Keys /\ {2} # {}
  /\ SeqSpace \in Nat \ {0} /\ MaxHdr \in Nat \ {0}
  /\ 1 \in Nat \ {0} /\ 1 \in Nat /\ Cardinality(RouterKeys) + 1 \in Nat
  <1>1. S!Keys = Keys
    BY DEF S!Keys, S!Stored, Keys
  <1>2. Cardinality(RouterKeys) \in Nat
    BY FiniteTheirs, FS_CardinalityType
  <1> QED BY <1>1, <1>2, AdjacencyAssumption DEF DDs, S!SeqNums, RouterKeys

LEMMA SlaveSeqNums == S!SeqNums = 0 .. SeqSpace - 1
  BY DEF S!SeqNums

LEMMA HeadOf ==
  ASSUME NEW T, NEW s \in Seq(T), s # <<>>
  PROVE  Head(s) \in T /\ Tail(s) \in Seq(T) /\ Len(Tail(s)) = Len(s) - 1
  OBVIOUS

\* Whatever the master and the network do, the slave takes the steps of a
\* router of Exchange whose packets are all well formed, or starts again.
LEMMA SlaveSteps ==
  ASSUME TypeOK, Next PROVE [S!Next]_slave \/ RestartSlave
  <1>1. CASE sender = S!Idle /\ HearHello
    <2>1. S!ReceiveHello(Master, master.state # "down", TRUE, 0, FALSE)
      BY <1>1 DEF HearHello
    <2>2. (master.state # "down") \in BOOLEAN /\ 0 \in 0 .. 2
      OBVIOUS
    <2>3. S!Receive
      BY <2>1, <2>2 DEF S!Receive
    <2> QED BY <1>1, <2>3 DEF S!Next
  <1>2. CASE sender = S!Idle /\ TakeDD
    <2>1. Head(toSlave.dd) \in DDs
      BY <1>2, HeadOf DEF TakeDD, TypeOK, Packets
    <2>2. S!FromUnknown(Master) \/ S!ReceiveDD(Master, Head(toSlave.dd))
      BY <1>2 DEF TakeDD
    <2>3. S!Receive
      BY <2>1, <2>2 DEF S!Receive
    <2> QED BY <1>2, <2>3 DEF S!Next
  <1>3. CASE sender = S!Idle /\ TakeLSR
    <2>1. Head(toSlave.lsr) \in SUBSET Keys
      BY <1>3, HeadOf DEF TakeLSR, TypeOK, Packets
    <2>2. \/ S!FromUnknown(Master)
          \/ S!LSRAnswered(Master, Head(toSlave.lsr))
          \/ S!BadLSReq(Master, Head(toSlave.lsr))
      BY <1>3 DEF TakeLSR
    <2>3. S!Receive
      BY <2>1, <2>2 DEF S!Receive
    <2> QED BY <1>3, <2>3 DEF S!Next
  <1>4. CASE sender = S!Idle /\ TakeLSU
    <2>1. Head(toSlave.lsu) \in SUBSET RouterKeys
      BY <1>4, HeadOf DEF TakeLSU, TypeOK, Packets
    <2>2. Head(toSlave.lsu) \in SUBSET Keys
      BY <2>1 DEF Keys
    <2>3. \/ S!FromUnknown(Master)
          \/ \E newer \in SUBSET Head(toSlave.lsu) :
                S!ReceiveLSU(Master, Head(toSlave.lsu), newer)
      BY <1>4 DEF TakeLSU
    <2>4. S!Receive
      BY <2>2, <2>3 DEF S!Receive
    <2> QED BY <1>4, <2>4 DEF S!Next
  <1>5. CASE SlaveSends
    BY <1>5 DEF SlaveSends, S!Next
  <1>6. CASE MasterActs \/ (\E type \in Types : Lose(type)) \/ RestartMaster
    BY <1>6 DEF MasterActs, MasterHears, MasterSendsDD, MasterTakesDD,
                MasterSendsLSR, MasterTakesLSR, MasterTakesLSU, Lose,
                RestartMaster
  <1> QED BY <1>1, <1>2, <1>3, <1>4, <1>5, <1>6 DEF Next, SlaveReceives

LEMMA StartedSlave ==
  [](nbr \in Fresh /\ lsdb = OwnOnly /\ amDR \in BOOLEAN
     /\ sender = S!Idle /\ halted = "no" => S!ExchangeInv)
  <1>1. OwnOnly \in [S!Stored -> Nat]
    BY DEF OwnOnly
  <1>2. nbr \in Fresh /\ lsdb = OwnOnly /\ amDR \in BOOLEAN
        /\ sender = S!Idle /\ halted = "no" => S!Started
    BY <1>1 DEF Fresh, S!Started
  <1>3. nbr \in Fresh /\ lsdb = OwnOnly /\ amDR \in BOOLEAN
        /\ sender = S!Idle /\ halted = "no" => S!ExchangeInv
    BY <1>2, SlaveConstants, S!StartedInv
  <1> QED BY <1>3, PTL

LEMMA SlaveNext ==
  ASSUME TypeOK, S!ExchangeInv, Next PROVE S!ExchangeInv'
  <1>1. CASE [S!Next]_slave
    BY <1>1, SlaveConstants, S!NextInv DEF slave, S!vars
  <1>2. CASE RestartSlave
    <2>1. (nbr \in Fresh /\ lsdb = OwnOnly /\ amDR \in BOOLEAN
           /\ sender = S!Idle /\ halted = "no")'
      BY <1>2 DEF RestartSlave, Fresh, OwnOnly, S!NewNeighbor
    <2> QED BY <2>1, StartedSlave, PTL
  <1> QED BY <1>1, <1>2, SlaveSteps

-----------------------------------------------------------------------------
(* Types: the channels, the master, and the slave of Exchange.             *)

Channel(net) ==
    net \in Packets /\ \A type \in Types : Len(net[type]) <= MaxFlight

LEMMA KeysAre == S!Keys = Keys /\ S!Stored = Keys /\ RouterKeys \subseteq Keys
  BY DEF S!Keys, S!Stored, Keys

LEMMA SentSeq ==
  ASSUME NEW T, NEW s \in Seq(T), NEW x \in T, Len(s) <= MaxFlight
  PROVE  LET t == IF Len(s \o <<x>>) <= MaxFlight THEN s \o <<x>> ELSE s
         IN  t \in Seq(T) /\ Len(t) <= MaxFlight
  OBVIOUS

LEMMA SentType ==
  ASSUME NEW net, Channel(net)
  PROVE  /\ \A p \in DDs : Channel(Sent(net, "dd", <<p>>))
         /\ \A p \in SUBSET Keys : Channel(Sent(net, "lsr", <<p>>))
         /\ \A p \in SUBSET RouterKeys : Channel(Sent(net, "lsu", <<p>>))
  <1>1. /\ net.dd \in Seq(DDs) /\ net.lsr \in Seq(SUBSET Keys)
        /\ net.lsu \in Seq(SUBSET RouterKeys)
        /\ Len(net.dd) <= MaxFlight /\ Len(net.lsr) <= MaxFlight
        /\ Len(net.lsu) <= MaxFlight
    BY DEF Channel, Packets, Types
  <1>2. ASSUME NEW p \in DDs PROVE Channel(Sent(net, "dd", <<p>>))
    <2> DEFINE t == IF Len(net.dd \o <<p>>) <= MaxFlight
                    THEN net.dd \o <<p>> ELSE net.dd
    <2>1. t \in Seq(DDs) /\ Len(t) <= MaxFlight
      BY <1>1, SentSeq
    <2>2. Sent(net, "dd", <<p>>) = [net EXCEPT !.dd = t]
      BY DEF Sent
    <2> HIDE DEF t
    <2> QED BY <1>1, <2>1, <2>2 DEF Channel, Packets, Types
  <1>3. ASSUME NEW p \in SUBSET Keys PROVE Channel(Sent(net, "lsr", <<p>>))
    <2> DEFINE t == IF Len(net.lsr \o <<p>>) <= MaxFlight
                    THEN net.lsr \o <<p>> ELSE net.lsr
    <2>1. t \in Seq(SUBSET Keys) /\ Len(t) <= MaxFlight
      BY <1>1, SentSeq
    <2>2. Sent(net, "lsr", <<p>>) = [net EXCEPT !.lsr = t]
      BY DEF Sent
    <2> HIDE DEF t
    <2> QED BY <1>1, <2>1, <2>2 DEF Channel, Packets, Types
  <1>4. ASSUME NEW p \in SUBSET RouterKeys PROVE Channel(Sent(net, "lsu", <<p>>))
    <2> DEFINE t == IF Len(net.lsu \o <<p>>) <= MaxFlight
                    THEN net.lsu \o <<p>> ELSE net.lsu
    <2>1. t \in Seq(SUBSET RouterKeys) /\ Len(t) <= MaxFlight
      BY <1>1, SentSeq
    <2>2. Sent(net, "lsu", <<p>>) = [net EXCEPT !.lsu = t]
      BY DEF Sent
    <2> HIDE DEF t
    <2> QED BY <1>1, <2>1, <2>2 DEF Channel, Packets, Types
  <1> QED BY <1>2, <1>3, <1>4

LEMMA TakenType ==
  ASSUME NEW net, Channel(net), NEW type \in Types, net[type] # <<>>
  PROVE  Channel(Taken(net, type))
  <1>1. /\ net.dd \in Seq(DDs) /\ net.lsr \in Seq(SUBSET Keys)
        /\ net.lsu \in Seq(SUBSET RouterKeys)
        /\ Len(net.dd) <= MaxFlight /\ Len(net.lsr) <= MaxFlight
        /\ Len(net.lsu) <= MaxFlight
    BY DEF Channel, Packets, Types
  <1>2. MaxFlight \in Nat
    BY AdjacencyAssumption
  <1>3. CASE type = "dd"
    <2>1. Tail(net.dd) \in Seq(DDs) /\ Len(Tail(net.dd)) <= MaxFlight
      BY <1>1, <1>2, <1>3, HeadOf
    <2> QED BY <1>1, <1>3, <2>1 DEF Taken, Channel, Packets, Types
  <1>4. CASE type = "lsr"
    <2>1. Tail(net.lsr) \in Seq(SUBSET Keys) /\ Len(Tail(net.lsr)) <= MaxFlight
      BY <1>1, <1>2, <1>4, HeadOf
    <2> QED BY <1>1, <1>4, <2>1 DEF Taken, Channel, Packets, Types
  <1>5. CASE type = "lsu"
    <2>1. /\ Tail(net.lsu) \in Seq(SUBSET RouterKeys)
          /\ Len(Tail(net.lsu)) <= MaxFlight
      BY <1>1, <1>2, <1>5, HeadOf
    <2> QED BY <1>1, <1>5, <2>1 DEF Taken, Channel, Packets, Types
  <1> QED BY <1>3, <1>4, <1>5 DEF Types

\* What the slave sends.
LEMMA WireType ==
  ASSUME NEW r \in S!Neighbors
  PROVE  OnWire(r.last_dd) \in DDs /\ S!Requested(r) \in SUBSET Keys
  <1>1. r.last_dd \in S!SentDDs
    BY DEF S!Neighbors
  <1>2. r.last_dd.hdrs \in Seq(Keys)
    BY <1>1, KeysAre DEF S!SentDDs
  <1>3. ToSet(r.last_dd.hdrs) \subseteq Keys
    BY <1>2 DEF ToSet
  <1>4. OnWire(r.last_dd) \in DDs
    BY <1>1, <1>3, SlaveSeqNums DEF OnWire, DDs, S!SentDDs
  <1> QED BY <1>4, KeysAre DEF S!Requested

MasterStates == {"down", "exstart", "exchange", "done"}
Masters == [state : MasterStates, seq : S!SeqNums, left : Seq(Theirs),
            wants : SUBSET Keys]

LEMMA MasterTypes ==
  ASSUME master \in Masters
  PROVE  Again \in Masters /\ Down(master.seq) \in Masters /\ MasterDD \in DDs
  <1>1. (master.seq + 1) % SeqSpace \in S!SeqNums
    BY SlaveConstants, S!SuccSeq DEF Masters
  <1>2. Told \in Seq(Theirs)
    BY AdjacencyAssumption
  <1>3. \A seq \in S!SeqNums : Exstart(seq) \in Masters /\ Down(seq) \in Masters
    BY <1>2 DEF Exstart, Down, Masters, MasterStates
  <1>4. master.left # <<>> => Head(master.left) \in Theirs
    BY DEF Masters
  <1>5. (IF master.state = "exstart" \/ master.left = <<>> THEN {}
         ELSE {Head(master.left)}) \in SUBSET Keys
    BY <1>4 DEF Keys, RouterKeys
  <1>6. MasterDD \in DDs
    BY <1>5, SlaveSeqNums DEF MasterDD, DDs, Masters
  <1> QED BY <1>1, <1>3, <1>6 DEF Again, Masters

LEMMA FloodedType ==
  ASSUME NEW r, NEW s, NEW net, Channel(net) PROVE Channel(Flooded(r, s, net))
  <1>1. {OwnRouter} \in SUBSET RouterKeys
    BY DEF RouterKeys
  <1> QED BY <1>1, SentType DEF Flooded

LEMMA Parts ==
  ASSUME TypeOK
  PROVE  /\ master \in Masters /\ Channel(toSlave) /\ Channel(toMaster)
         /\ peer \in S!Neighbors
  BY DEF TypeOK, Masters, MasterStates, Channel, S!TypeOK, peer

LEMMA Whole ==
  ASSUME TypeOK, S!TypeOK', peer' \in S!Neighbors, (master \in Masters)',
         Channel(toSlave)', Channel(toMaster)', restarts' \in 0 .. MaxRestarts,
         misled' \in BOOLEAN
  PROVE  TypeOK'
  BY DEF TypeOK, Masters, MasterStates, Channel

LEMMA NextType ==
  ASSUME TypeOK, S!ExchangeInv, Next PROVE TypeOK'
  <1>1. /\ master \in Masters /\ Channel(toSlave) /\ Channel(toMaster)
        /\ peer \in S!Neighbors
    BY Parts
  <1>2. S!ExchangeInv' /\ S!TypeOK'
    BY SlaveNext DEF S!ExchangeInv, S!ReplyInv
  <1>3. peer' \in S!Neighbors
    BY <1>2 DEF S!TypeOK, peer
  <1>4. OnWire(peer.last_dd) \in DDs /\ S!Requested(peer) \in SUBSET Keys
    BY <1>1, WireType
  <1>5. OnWire(peer'.last_dd) \in DDs
    BY <1>3, WireType
  <1>6. UNCHANGED <<restarts, misled>> =>
            restarts' \in 0 .. MaxRestarts /\ misled' \in BOOLEAN
    BY DEF TypeOK
  <1>7. Channel(toSlave') => Channel(toSlave)'
    BY DEF Channel, Packets
  <1>8. Channel(toMaster') => Channel(toMaster)'
    BY DEF Channel, Packets
  <1>9. ASSUME NEW net, Channel(net)
        PROVE  Channel(Sent(net, "dd", <<OnWire(peer'.last_dd)>>))
    BY <1>5, <1>9, SentType
  <1>10. CASE HearHello
    BY <1>1, <1>2, <1>3, <1>6, <1>10, Whole DEF HearHello, Masters, Channel
  <1>11. CASE TakeDD
    <2>1. Channel(toSlave')
      BY <1>1, <1>11, TakenType DEF TakeDD, Types
    <2>2. Channel(toMaster')
      BY <1>1, <1>9, <1>11, FloodedType DEF TakeDD
    <2>3. misled' \in BOOLEAN /\ restarts' \in 0 .. MaxRestarts
      BY <1>11 DEF TakeDD, TypeOK, Misleads
    <2> QED BY <1>1, <1>2, <1>3, <1>7, <1>8, <1>11, <2>1, <2>2, <2>3, Whole
        DEF TakeDD
  <1>12. CASE TakeLSR
    <2> DEFINE asked == Head(toSlave.lsr)
    <2>1. asked \in SUBSET Keys
      BY <1>1, <1>12, HeadOf DEF TakeLSR, Channel, Packets
    <2>2. Channel(toSlave')
      BY <1>1, <1>12, TakenType DEF TakeLSR, Types
    <2>3. halted' = "no" /\ peer.state \in S!AtLeastExchange
            => asked \in SUBSET RouterKeys
      <3>1. halted' = "no" => S!LSRAnswered(Master, asked)
        BY <1>12 DEF TakeLSR, S!FromUnknown, S!BadLSReq, S!Halt
      <3>2. \A k \in Keys : k = OwnNetwork => S!Found(k) = {}
        BY AdjacencyAssumption DEF S!Found, Keys, RouterKeys
      <3>3. halted' = "no" /\ peer.state \in S!AtLeastExchange
              => \A k \in asked : S!Found(k) # {}
        BY <3>1 DEF S!LSRAnswered, peer
      <3> QED BY <2>1, <3>2, <3>3 DEF Keys
    <2>4. Channel(toMaster')
      BY <1>1, <1>12, <2>3, SentType DEF TakeLSR
    <2> QED BY <1>1, <1>2, <1>3, <1>6, <1>7, <1>8, <1>12, <2>2, <2>4, Whole
        DEF TakeLSR
  <1>13. CASE TakeLSU
    <2>1. Channel(toSlave')
      BY <1>1, <1>13, TakenType DEF TakeLSU, Types
    <2> QED BY <1>1, <1>2, <1>3, <1>6, <1>7, <1>8, <1>13, <2>1, Whole
        DEF TakeLSU
  <1>14. CASE SlaveSends
    <2>1. Channel(toMaster')
      BY <1>1, <1>4, <1>9, <1>14, SentType, FloodedType DEF SlaveSends
    <2> QED BY <1>1, <1>2, <1>3, <1>6, <1>7, <1>8, <1>14, <2>1, Whole
        DEF SlaveSends
  <1>15. ASSUME UNCHANGED <<restarts, misled>>, master' \in Masters,
                Channel(toSlave'), Channel(toMaster')
         PROVE  TypeOK'
    BY <1>2, <1>3, <1>6, <1>7, <1>8, <1>15, Whole DEF Masters
  <1>16. CASE MasterHears
    BY <1>1, <1>15, <1>16, MasterTypes DEF MasterHears
  <1>17. CASE MasterSendsDD
    BY <1>1, <1>15, <1>17, MasterTypes, SentType DEF MasterSendsDD
  <1>18. CASE MasterTakesDD
    <2>1. Channel(toMaster')
      BY <1>1, <1>18, TakenType DEF MasterTakesDD, Types
    <2>2. Head(toMaster.dd).hdrs \in SUBSET Keys
      <3>1. Head(toMaster.dd) \in DDs
        BY <1>1, <1>18, HeadOf DEF MasterTakesDD, Channel, Packets
      <3> QED BY <3>1 DEF DDs
    <2>3. (master.seq + 1) % SeqSpace \in S!SeqNums
      BY <1>1, SlaveConstants, S!SuccSeq DEF Masters
    <2>4. master.left # <<>> => Tail(master.left) \in Seq(Theirs)
      BY <1>1 DEF Masters
    <2> DEFINE p == Head(toMaster.dd)
               heard == [master EXCEPT !.state = "exchange",
                                       !.wants = @ \cup (p.hdrs \ Theirs),
                                       !.seq = (@ + 1) % SeqSpace]
    <2>5. /\ heard \in Masters
          /\ [heard EXCEPT !.state = "done", !.seq = master.seq] \in Masters
          /\ [heard EXCEPT !.left = IF @ = <<>> THEN @ ELSE Tail(@)] \in Masters
      BY <1>1, <2>2, <2>3, <2>4 DEF Masters, MasterStates
    <2>6. master' \in {master, Again, heard,
                       [heard EXCEPT !.state = "done", !.seq = master.seq],
                       [heard EXCEPT !.left = IF @ = <<>> THEN @ ELSE Tail(@)]}
      BY <1>18 DEF MasterTakesDD
    <2>7. master' \in Masters
      BY <1>1, <2>5, <2>6, MasterTypes
    <2> QED BY <1>1, <1>15, <1>18, <2>1, <2>7 DEF MasterTakesDD
  <1>19. CASE MasterSendsLSR
    <2>1. master.wants \in SUBSET Keys
      BY <1>1 DEF Masters
    <2> QED BY <1>1, <1>15, <1>19, <2>1, SentType DEF MasterSendsLSR
  <1>20. CASE MasterTakesLSR
    <2>1. Channel(toMaster')
      BY <1>1, <1>20, TakenType DEF MasterTakesLSR, Types
    <2>2. Head(toMaster.lsr) \subseteq Theirs
            => Head(toMaster.lsr) \in SUBSET RouterKeys
      BY DEF RouterKeys
    <2> QED BY <1>1, <1>15, <1>20, <2>1, <2>2, SentType, MasterTypes
        DEF MasterTakesLSR
  <1>21. CASE MasterTakesLSU
    <2>1. Channel(toMaster')
      BY <1>1, <1>21, TakenType DEF MasterTakesLSU, Types
    <2>2. master' \in Masters
      BY <1>1, <1>21 DEF MasterTakesLSU, Masters
    <2> QED BY <1>1, <1>15, <1>21, <2>1, <2>2 DEF MasterTakesLSU
  <1>22. ASSUME NEW type \in Types, Lose(type) PROVE TypeOK'
    BY <1>1, <1>15, <1>22, TakenType DEF Lose
  <1>23. CASE RestartSlave \/ RestartMaster
    <2>1. restarts' \in 0 .. MaxRestarts /\ misled' \in BOOLEAN
      BY <1>23, AdjacencyAssumption DEF RestartSlave, RestartMaster, TypeOK
    <2>2. master' \in Masters
      BY <1>1, <1>23, MasterTypes DEF RestartSlave, RestartMaster
    <2>3. (master \in Masters)'
      BY <2>2 DEF Masters
    <2> QED BY <1>1, <1>2, <1>3, <1>7, <1>8, <1>23, <2>1, <2>3, Whole
        DEF RestartSlave, RestartMaster
  <1> QED BY <1>10, <1>11, <1>12, <1>13, <1>14, <1>16, <1>17, <1>18, <1>19,
             <1>20, <1>21, <1>22, <1>23
      DEF Next, SlaveReceives, MasterActs

LEMMA StutterType ==
  ASSUME TypeOK, S!ExchangeInv, UNCHANGED vars PROVE TypeOK' /\ S!ExchangeInv'
  <1>1. UNCHANGED <<slave, master, toSlave, toMaster, restarts, misled>>
    BY DEF vars
  <1>2. S!ExchangeInv'
    BY <1>1, SlaveConstants, S!NextInv DEF slave, S!vars
  <1>3. S!TypeOK'
    BY <1>2 DEF S!ExchangeInv, S!ReplyInv
  <1> QED BY <1>1, <1>2, <1>3 DEF TypeOK

LEMMA InitType == Init => TypeOK /\ S!ExchangeInv
  <1> SUFFICES ASSUME Init PROVE TypeOK /\ S!ExchangeInv
    OBVIOUS
  <1>1. S!ExchangeInv
    BY StartedSlave, PTL DEF Init
  <1>2. S!TypeOK
    BY <1>1 DEF S!ExchangeInv, S!ReplyInv
  <1>3. 0 \in S!SeqNums /\ Told \in Seq(Theirs) /\ MaxFlight \in Nat
    BY AdjacencyAssumption, SlaveSeqNums
  <1>4. master \in Masters
    BY <1>3 DEF Init, Down, Exstart, Masters, MasterStates
  <1>5. Channel(toSlave) /\ Channel(toMaster)
    <2>1. /\ DOMAIN toSlave = Types /\ toMaster = toSlave
          /\ toSlave = [dd |-> <<>>, lsr |-> <<>>, lsu |-> <<>>]
      BY DEF Init, Types
    <2>2. /\ <<>> \in Seq(DDs) /\ <<>> \in Seq(SUBSET Keys)
          /\ <<>> \in Seq(SUBSET RouterKeys) /\ Len(<<>>) = 0
      OBVIOUS
    <2> QED BY <1>3, <2>1, <2>2 DEF Channel, Packets, Types
  <1>6. restarts \in 0 .. MaxRestarts
    BY AdjacencyAssumption DEF Init
  <1>7. misled \in BOOLEAN
    BY Zenon DEF Init
  <1> QED BY <1>1, <1>2, <1>4, <1>5, <1>6, <1>7
      DEF TypeOK, Masters, MasterStates, Channel

LEMMA Typed == Spec => [](TypeOK /\ S!ExchangeInv)
  <1>1. TypeOK /\ S!ExchangeInv /\ [Next]_vars => (TypeOK /\ S!ExchangeInv)'
    BY NextType, SlaveNext, StutterType
  <1> QED BY <1>1, InitType, PTL DEF Spec

-----------------------------------------------------------------------------
(* The first adjacency: while neither router has been started again, the   *)
(* exchange is an alternation.  The master offers until the slave answers, *)
(* then each DD has the next number; what is on its way is what is out of  *)
(* date, followed by what is not.                                          *)

\* s has elements of A, then elements of B.
InTurn(s, A, B) ==
    \E c \in 0 .. Len(s) :
        \A j \in 1 .. Len(s) : s[j] \in IF j <= c THEN A ELSE B

OwnDDs == {p \in DDs : p.hdrs \subseteq {OwnRouter}}
\* The slave's DDs from before it knew its role.
Openings == {p \in OwnDDs : p.ms}
\* Its replies to the master's last DD but one.
Answered ==
    {p \in OwnDDs : ~p.ms /\ ~p.i /\ (p.seq + 1) % SeqSpace = master.seq}
\* Its reply.
Reply == OnWire(peer.last_dd)
\* The master's DDs that it has answered.
Repeated == {p \in DDs : p.seq = peer.dd_seq_num}

\* What the slave has not been told when it has taken the master's DD.
Rest ==
    IF master.state = "exstart" THEN master.left
    ELSE IF master.left = <<>> THEN <<>> ELSE Tail(master.left)
AtLast == Len(master.left) <= 1

\* The slave has not been asked to exchange yet.
Meeting ==
    /\ IF master.state = "down"
       THEN peer.state \in {"NONE", "INIT"} /\ toSlave.dd = <<>> /\ toMaster.dd = <<>>
       ELSE /\ master.state = "exstart" /\ peer.state \in {"INIT", "EXSTART"}
            /\ toSlave.dd \in Seq({MasterDD}) /\ toMaster.dd \in Seq(Openings)
    /\ master.left = Told /\ master.wants = {}
    /\ toSlave.lsr = <<>> /\ toSlave.lsu = <<>> /\ toMaster.lsr = <<>>
    /\ lsdb = OwnOnly
    /\ peer.adj = (peer.state # "NONE")
    /\ ~peer.is_master /\ peer.dd_init /\ ~peer.dd_recv_no_more
    /\ peer.db_summary_list = <<>> /\ peer.link_state_request_list = S!NoRequests

\* The slave has still to take the master's DD.
Behind ==
    /\ master.state = "exchange" /\ peer.state = "EXCHANGE"
    /\ (peer.dd_seq_num + 1) % SeqSpace = master.seq
    /\ InTurn(toSlave.dd, Repeated, {MasterDD})
    /\ toMaster.dd \in Seq({Reply})
    /\ Theirs \subseteq peer.listed \cup ToSet(master.left)

\* It has taken it; the last one ended its exchange.
Ahead ==
    /\ master.state \in {"exstart", "exchange"}
    /\ master.state = "exstart" => master.left = Told
    /\ peer.dd_seq_num = master.seq
    /\ peer.state = "EXCHANGE" <=> (master.state = "exstart" \/ ~AtLast)
    /\ toSlave.dd \in Seq({MasterDD})
    /\ InTurn(toMaster.dd, IF master.state = "exstart" THEN Openings ELSE Answered,
              {Reply})
    /\ Theirs \subseteq peer.listed \cup ToSet(Rest)

\* The master has ended it too.
Done ==
    /\ master.state = "done" /\ peer.state # "EXCHANGE"
    /\ peer.dd_seq_num = master.seq
    /\ toSlave.dd \in Seq({MasterDD}) /\ toMaster.dd \in Seq({Reply})
    /\ Theirs \subseteq peer.listed

\* A slave that tells one Router-LSA, all in its first DD.
Settled(r) ==
    /\ r.state \in S!AtLeastExchange
    /\ r.is_master /\ ~r.dd_init /\ r.dd_options = 2
    /\ r.recv_dd_seq_num = r.dd_seq_num
    /\ r.state = "EXCHANGE" => ~r.dd_recv_no_more
    /\ ~r.last_dd.m /\ ToSet(r.last_dd.hdrs) \subseteq {OwnRouter}
    /\ r.db_summary_list \in {<<>>, <<OwnRouter>>}

Exchanging ==
    /\ Settled(peer)
    /\ lsdb[OwnNetwork] > 0 => peer.state = "FULL"
    /\ Behind \/ Ahead \/ Done

\* What is asked for is there, and nothing fails.
Served ==
    /\ halted = "no" /\ ~misled
    /\ lsdb[OwnRouter] > 0
    /\ master.wants \subseteq {OwnRouter}
    /\ toSlave.lsr \in Seq(SUBSET {OwnRouter})
    /\ S!Requested(peer) \subseteq Theirs
    /\ toMaster.lsr \in Seq(SUBSET Theirs)

Going == Served /\ (Meeting \/ Exchanging)
First == restarts = 0 => Going

LEMMA NextSeq ==
  /\ \A a \in 0 .. SeqSpace - 1 :
        /\ (a + 1) % SeqSpace = IF a = SeqSpace - 1 THEN 0 ELSE a + 1
        /\ (a + 1) % SeqSpace \in 0 .. SeqSpace - 1
        /\ (a + 1) % SeqSpace # a
  /\ \A a, b \in 0 .. SeqSpace - 1 :
        (a + 1) % SeqSpace = (b + 1) % SeqSpace => a = b
  <1>1. SeqSpace \in Nat /\ SeqSpace >= 2
    BY AdjacencyAssumption
  <1>2. \A a \in 0 .. SeqSpace - 1 :
            (a + 1) % SeqSpace = IF a = SeqSpace - 1 THEN 0 ELSE a + 1
    BY <1>1
  <1> QED BY <1>1, <1>2

LEMMA InTurnHead ==
  ASSUME NEW T, NEW s \in Seq(T), s # <<>>, NEW A, NEW B, InTurn(s, A, B)
  PROVE  /\ Head(s) \in A \/ s \in Seq(B)
         /\ s \in Seq(B) => Head(s) \in B
         /\ InTurn(Tail(s), A, B)
  <1>1. PICK c \in 0 .. Len(s) :
            \A j \in 1 .. Len(s) : s[j] \in IF j <= c THEN A ELSE B
    BY DEF InTurn
  <1>2. s \in Seq(B) => Head(s) \in B
    BY HeadOf
  <1>3. CASE c = 0
    <2>1. \A j \in 1 .. Len(s) : s[j] \in B
      BY <1>1, <1>3
    <2>2. s \in Seq(B)
      BY <2>1
    <2>3. \A j \in 1 .. Len(Tail(s)) : Tail(s)[j] \in IF j <= 0 THEN A ELSE B
      BY <2>1
    <2>4. 0 \in 0 .. Len(Tail(s))
      OBVIOUS
    <2>5. InTurn(Tail(s), A, B)
      BY <2>3, <2>4 DEF InTurn
    <2> QED BY <1>2, <2>2, <2>5
  <1>4. CASE c > 0
    <2>1. Head(s) \in A
      BY <1>1, <1>4
    <2>2. \A j \in 1 .. Len(Tail(s)) :
              Tail(s)[j] \in IF j <= c - 1 THEN A ELSE B
      BY <1>1, <1>4
    <2>3. c - 1 \in 0 .. Len(Tail(s))
      BY <1>4
    <2>4. InTurn(Tail(s), A, B)
      BY <2>2, <2>3 DEF InTurn
    <2> QED BY <1>2, <2>1, <2>4
  <1> QED BY <1>3, <1>4

LEMMA InTurnSent ==
  ASSUME NEW T, NEW s \in Seq(T), NEW A, NEW B, NEW b \in B
  PROVE  /\ InTurn(s, A, B) => InTurn(s \o <<b>>, A, B)
         /\ s \in Seq(A) => InTurn(s, A, B)
         /\ s \in Seq(B) => InTurn(s, A, B)
  <1>1. ASSUME InTurn(s, A, B) PROVE InTurn(s \o <<b>>, A, B)
    <2>1. PICK c \in 0 .. Len(s) :
              \A j \in 1 .. Len(s) : s[j] \in IF j <= c THEN A ELSE B
      BY <1>1 DEF InTurn
    <2>2. \A j \in 1 .. Len(s \o <<b>>) :
              (s \o <<b>>)[j] \in IF j <= c THEN A ELSE B
      BY <2>1
    <2>3. c \in 0 .. Len(s \o <<b>>)
      OBVIOUS
    <2> QED BY <2>2, <2>3 DEF InTurn
  <1>2. ASSUME s \in Seq(A) PROVE InTurn(s, A, B)
    <2>1. \A j \in 1 .. Len(s) : s[j] \in IF j <= Len(s) THEN A ELSE B
      BY <1>2
    <2>2. Len(s) \in 0 .. Len(s)
      OBVIOUS
    <2> QED BY <2>1, <2>2 DEF InTurn
  <1>3. ASSUME s \in Seq(B) PROVE InTurn(s, A, B)
    <2>1. \A j \in 1 .. Len(s) : s[j] \in IF j <= 0 THEN A ELSE B
      BY <1>3
    <2>2. 0 \in 0 .. Len(s)
      OBVIOUS
    <2> QED BY <2>1, <2>2 DEF InTurn
  <1> QED BY <1>1, <1>2, <1>3

-----------------------------------------------------------------------------
(* What the slave does with the master's packets.                          *)

LEMMA SentIs ==
  ASSUME NEW net, Channel(net), NEW type \in Types, NEW p
  PROVE  /\ Sent(net, type, <<p>>)[type] \in {net[type], net[type] \o <<p>>}
         /\ \A other \in Types \ {type} :
                Sent(net, type, <<p>>)[other] = net[other]
  BY DEF Sent, Channel, Packets, Types

LEMMA TakenIs ==
  ASSUME NEW net, Channel(net), NEW type \in Types
  PROVE  /\ Taken(net, type)[type] = Tail(net[type])
         /\ \A other \in Types \ {type} : Taken(net, type)[other] = net[other]
  BY DEF Taken, Channel, Packets, Types

LEMMA SameCardinality == \A T : S!Cardinality(T) = Cardinality(T)
  BY DEF S!Cardinality, Cardinality

\* A slave that has met nobody tells its own Router-LSA.
LEMMA OwnHeaders ==
  ASSUME lsdb = OwnOnly, NEW hdrs \in S!HeaderLists
  PROVE  hdrs = <<OwnRouter>>
  <1> DEFINE at(k) == {j \in DOMAIN hdrs : hdrs[j] = k}
  <1>1. hdrs \in Seq(Keys)
    BY SlaveConstants, S!HeaderListsType, KeysAre
  <1>2. \A k \in Keys : Cardinality(at(k)) = IF k = OwnRouter THEN 1 ELSE 0
    <2> SUFFICES ASSUME NEW k \in Keys
                 PROVE  Cardinality(at(k)) = IF k = OwnRouter THEN 1 ELSE 0
      OBVIOUS
    <2>1. k \in S!Stored
      BY KeysAre
    <2>2. Cardinality(at(k)) = lsdb[k]
      <3>1. \A l \in S!Stored :
                Cardinality({j \in DOMAIN hdrs : hdrs[j] = l}) = lsdb[l]
        BY SameCardinality, Zenon DEF S!HeaderLists
      <3> QED BY <2>1, <3>1, Zenon
    <2>3. lsdb[k] = IF k = OwnRouter THEN 1 ELSE 0
      BY <2>1 DEF OwnOnly
    <2> HIDE DEF at
    <2> QED BY <2>2, <2>3
  <1>3. \A k \in Keys : IsFiniteSet(at(k))
    <2>1. IsFiniteSet(DOMAIN hdrs)
      BY <1>1, FS_Interval
    <2>2. \A k \in Keys : at(k) \subseteq DOMAIN hdrs
      OBVIOUS
    <2> HIDE DEF at
    <2> QED BY <2>1, <2>2, FS_Subset
  <1>4. ASSUME NEW j \in DOMAIN hdrs PROVE hdrs[j] = OwnRouter
    <2>1. hdrs[j] \in Keys /\ j \in at(hdrs[j])
      BY <1>1
    <2> HIDE DEF at
    <2>2. Cardinality(at(hdrs[j])) # 0
      BY <1>3, <2>1, FS_EmptySet
    <2> QED BY <1>2, <2>1, <2>2
  <1>5. OwnRouter \in Keys
    BY DEF Keys, RouterKeys
  <1>6. PICK x : at(OwnRouter) = {x}
    <2> HIDE DEF at
    <2> QED BY <1>2, <1>3, <1>5, FS_Singleton
  <1>7. \A j \in DOMAIN hdrs : j \in at(OwnRouter)
    BY <1>4
  <1>8. \A j \in DOMAIN hdrs : j = x
    BY <1>6, <1>7
  <1>9. x \in DOMAIN hdrs
    BY <1>6
  <1>10. DOMAIN hdrs = 1 .. Len(hdrs) /\ Len(hdrs) \in Nat
    BY <1>1
  <1>11. x = 1 /\ Len(hdrs) = 1
    <2>1. x \in 1 .. Len(hdrs) /\ \A j \in 1 .. Len(hdrs) : j = x
      BY <1>8, <1>9, <1>10
    <2>2. 1 \in 1 .. Len(hdrs) /\ Len(hdrs) \in 1 .. Len(hdrs)
      BY <1>10, <2>1
    <2> QED BY <2>1, <2>2
  <1> QED BY <1>1, <1>4, <1>11

\* Update and Reply as they are for the master's neighbour.
LEMMA UpdateIs ==
  ASSUME S!TypeOK, NEW r, S!Update(Master, r)
  PROVE  /\ peer' = r /\ halted' = halted
         /\ ~(r.state = "FULL" /\ peer.state # "FULL") => lsdb' = lsdb
         /\ \A k \in Keys : lsdb[k] > 0 => lsdb'[k] > 0
  <1>1. /\ peer' = r /\ halted' = halted
        /\ ~(r.state = "FULL" /\ peer.state # "FULL") => lsdb' = lsdb
    BY DEF S!Update, S!TypeOK, peer
  <1>2. lsdb' \in [S!Stored -> Nat] /\ \A k \in S!Stored : lsdb'[k] >= lsdb[k]
    BY SlaveConstants, S!OriginateType DEF S!Update, S!TypeOK
  <1>3. \A k \in Keys : lsdb[k] > 0 => lsdb'[k] > 0
    BY <1>2, KeysAre DEF S!TypeOK
  <1> QED BY <1>1, <1>3

LEMMA MaxHdrPositive == MaxHdr \in Nat /\ MaxHdr >= 1
  BY AdjacencyAssumption

LEMMA ShortLists ==
  ASSUME NEW r, r.db_summary_list \in {<<>>, <<OwnRouter>>}
  PROVE  /\ ~S!Splits(r)
         /\ S!SendsRest(r) <=> ~r.dd_init
         /\ Len(r.db_summary_list) <= MaxHdr
  <1>1. Len(r.db_summary_list) \in {0, 1}
    <2>1. Len(<<>>) = 0 /\ Len(<<OwnRouter>>) = 1
      OBVIOUS
    <2> QED BY <2>1
  <1>2. Len(r.db_summary_list) <= MaxHdr /\ ~(Len(r.db_summary_list) > MaxHdr)
    <2> DEFINE n == Len(r.db_summary_list)
    <2>1. n \in {0, 1}
      BY <1>1
    <2> HIDE DEF n
    <2>2. n <= MaxHdr /\ ~(n > MaxHdr)
      BY <2>1, MaxHdrPositive
    <2> QED BY <2>2 DEF n
  <1> QED BY <1>2 DEF S!Splits, S!SendsRest

\* What produce_dd makes of a list that fits one DD.
ShortDD(r, dd) ==
    /\ dd.ms = ~r.is_master /\ dd.m = FALSE /\ dd.i = r.dd_init
    /\ dd.seq = r.dd_seq_num
    /\ dd.hdrs = IF r.dd_init THEN <<>> ELSE r.db_summary_list

LEMMA ProducedShort ==
  ASSUME NEW r \in S!Neighbors, r.db_summary_list \in {<<>>, <<OwnRouter>>}
  PROVE  /\ ShortDD(r, S!Produced(r).last_dd)
         /\ \A s \in {S!Produced(r)} :
               /\ s.is_master = r.is_master /\ s.dd_init = r.dd_init
               /\ s.dd_options = r.dd_options /\ s.dd_seq_num = r.dd_seq_num
               /\ s.recv_dd_seq_num = r.recv_dd_seq_num /\ s.adj = r.adj
               /\ s.dd_recv_no_more = r.dd_recv_no_more
               /\ s.link_state_request_list = r.link_state_request_list
               /\ s.listed = r.listed
               /\ IF ~r.dd_init /\ r.is_master /\ r.dd_recv_no_more
                  THEN s.state \in {"LOADING", "FULL"} /\ s.db_summary_list = <<>>
                  ELSE s.state = r.state /\ s.db_summary_list = r.db_summary_list
  <1>1. ~S!Splits(r) /\ (S!SendsRest(r) <=> ~r.dd_init)
    BY ShortLists
  <1>2. ShortDD(r, S!ProducedDD(r))
    BY <1>1 DEF S!ProducedDD, ShortDD
  <1>3. S!EndsExchange(r) <=> ~r.dd_init /\ r.is_master /\ r.dd_recv_no_more
    BY <1>1 DEF S!EndsExchange
  <1> DEFINE t == S!Sent(r)
  <1>4. /\ t.last_dd = S!ProducedDD(r) /\ t.state = r.state
        /\ t.is_master = r.is_master /\ t.dd_init = r.dd_init
        /\ t.dd_options = r.dd_options /\ t.dd_seq_num = r.dd_seq_num
        /\ t.recv_dd_seq_num = r.recv_dd_seq_num /\ t.adj = r.adj
        /\ t.dd_recv_no_more = r.dd_recv_no_more
        /\ t.link_state_request_list = r.link_state_request_list
        /\ t.listed = r.listed /\ t.db_summary_list = r.db_summary_list
        /\ DOMAIN t = DOMAIN r
    BY DEF S!Sent, S!Neighbors
  <1>5. DOMAIN r = {"state", "adj", "is_master", "dd_seq_num", "recv_dd_seq_num",
                    "dd_options", "dd_init", "dd_recv_no_more", "db_summary_list",
                    "db_summary_send_iter", "link_state_request_list", "last_dd",
                    "listed"}
    BY DEF S!Neighbors
  <1>6. S!Produced(r) =
            IF S!EndsExchange(r)
            THEN [S!ExchangeDone(t) EXCEPT !.db_summary_list = <<>>] ELSE t
    BY DEF S!Produced
  <1> HIDE DEF t
  <1>7. CASE S!EndsExchange(r)
    <2> DEFINE u == [t EXCEPT !.state = IF S!Requested(t) = {} THEN "FULL"
                                                               ELSE "LOADING"]
    <2>1. S!Produced(r) = [u EXCEPT !.db_summary_list = <<>>]
      BY <1>6, <1>7 DEF S!ExchangeDone
    <2>2. u.state \in {"LOADING", "FULL"}
      BY <1>4, <1>5
    <2>3. /\ u.last_dd = t.last_dd
          /\ u.is_master = t.is_master /\ u.dd_init = t.dd_init
          /\ u.dd_options = t.dd_options /\ u.dd_seq_num = t.dd_seq_num
          /\ u.recv_dd_seq_num = t.recv_dd_seq_num /\ u.adj = t.adj
          /\ u.dd_recv_no_more = t.dd_recv_no_more
          /\ u.link_state_request_list = t.link_state_request_list
          /\ u.listed = t.listed /\ DOMAIN u = DOMAIN r
      BY <1>4, <1>5
    <2> HIDE DEF u
    <2>4. /\ S!Produced(r).state = u.state /\ S!Produced(r).db_summary_list = <<>>
          /\ S!Produced(r).last_dd = u.last_dd
          /\ S!Produced(r).is_master = u.is_master
          /\ S!Produced(r).dd_init = u.dd_init
          /\ S!Produced(r).dd_options = u.dd_options
          /\ S!Produced(r).dd_seq_num = u.dd_seq_num
          /\ S!Produced(r).recv_dd_seq_num = u.recv_dd_seq_num
          /\ S!Produced(r).adj = u.adj
          /\ S!Produced(r).dd_recv_no_more = u.dd_recv_no_more
          /\ S!Produced(r).link_state_request_list = u.link_state_request_list
          /\ S!Produced(r).listed = u.listed
      BY <1>5, <2>1, <2>3
    <2> QED BY <1>2, <1>3, <1>4, <1>7, <2>2, <2>3, <2>4
  <1>8. CASE ~S!EndsExchange(r)
    BY <1>2, <1>3, <1>4, <1>6, <1>8
  <1> QED BY <1>7, <1>8

\* The neighbour as the EXSTART case of process_dd finds it.
LEMMA OpenedIs ==
  ASSUME S!TypeOK, NEW p \in DDs, peer.state \in {"INIT", "EXSTART"}, peer.adj,
         ~peer.is_master
  PROVE  /\ S!Opened(Master, p) \in S!Neighbors
         /\ S!WellFormed(S!Opened(Master, p))
         /\ S!Entered(Master, p).state = "EXSTART"
         /\ \A o \in {S!Opened(Master, p)} :
               /\ o.state = "EXSTART" /\ ~o.is_master /\ o.adj
               /\ o.recv_dd_seq_num = p.seq /\ o.dd_options = p.options
               /\ o.dd_init = peer.dd_init
               /\ o.dd_recv_no_more = peer.dd_recv_no_more
               /\ o.db_summary_list = peer.db_summary_list
               /\ o.link_state_request_list = peer.link_state_request_list
  <1>1. /\ S!WellFormed(peer) /\ peer \in S!Neighbors /\ peer = nbr[Master]
        /\ p.seq \in S!SeqNums
    BY SlaveSeqNums DEF S!TypeOK, peer, DDs
  <1>2. S!WellFormed(S!Noted(Master, p)) /\ S!WellFormed(S!Entered(Master, p))
        /\ S!WellFormed(S!Opened(Master, p))
    BY <1>1, SlaveConstants, S!NotedType
  <1> DEFINE q == S!Noted(Master, p)
             e == S!Entered(Master, p)
  <1>3. /\ q.state = peer.state /\ q.adj /\ ~q.is_master
        /\ q.recv_dd_seq_num = p.seq
        /\ q.dd_init = peer.dd_init
        /\ q.dd_recv_no_more = peer.dd_recv_no_more
        /\ q.db_summary_list = peer.db_summary_list
        /\ q.link_state_request_list = peer.link_state_request_list
        /\ q \in S!Neighbors
    BY <1>1, <1>2 DEF S!Noted, S!Neighbors, S!WellFormed
  <1>4. e = IF q.state = "INIT" THEN S!Restart(q) ELSE q
    BY <1>3 DEF S!Entered, S!TwoWayReceived
  <1> HIDE DEF q
  <1>5. /\ e.state = "EXSTART" /\ e.adj /\ ~e.is_master
        /\ e.recv_dd_seq_num = p.seq
        /\ e.dd_init = peer.dd_init
        /\ e.dd_recv_no_more = peer.dd_recv_no_more
        /\ e.db_summary_list = peer.db_summary_list
        /\ e.link_state_request_list = peer.link_state_request_list
    BY <1>3, <1>4 DEF S!Restart, S!Neighbors
  <1>6. e \in S!Neighbors /\ S!Opened(Master, p) = [e EXCEPT !.dd_options = p.options]
    BY <1>2 DEF S!Opened, S!WellFormed
  <1>7. e.state = S!Entered(Master, p).state
    OBVIOUS
  <1> HIDE DEF e
  <1> DEFINE o == [e EXCEPT !.dd_options = p.options]
  <1>8. /\ o.state = e.state /\ o.is_master = e.is_master /\ o.adj = e.adj
        /\ o.recv_dd_seq_num = e.recv_dd_seq_num /\ o.dd_options = p.options
        /\ o.dd_init = e.dd_init /\ o.dd_recv_no_more = e.dd_recv_no_more
        /\ o.db_summary_list = e.db_summary_list
        /\ o.link_state_request_list = e.link_state_request_list
    BY <1>6 DEF S!Neighbors
  <1>9. S!Opened(Master, p) = o
    BY <1>6
  <1> HIDE DEF o
  <1> QED BY <1>2, <1>5, <1>7, <1>8, <1>9 DEF S!WellFormed

\* The slave that takes an offer.
Opens(r, p) ==
    /\ r.state = "EXCHANGE" /\ r.is_master /\ ~r.dd_init
    /\ r.dd_options = p.options
    /\ r.dd_seq_num = p.seq /\ r.recv_dd_seq_num = p.seq
    /\ ~r.dd_recv_no_more
    /\ r.db_summary_list = <<OwnRouter>>
    /\ ~r.last_dd.ms /\ ~r.last_dd.m /\ ~r.last_dd.i /\ r.last_dd.seq = p.seq
    /\ r.last_dd.hdrs = <<OwnRouter>>

LEMMA TakesOffer ==
  ASSUME S!TypeOK, NEW p \in DDs, S!ReceiveDD(Master, p), lsdb = OwnOnly,
         peer.state \in {"INIT", "EXSTART"}, peer.adj, ~peer.is_master,
         ~peer.dd_recv_no_more, peer.db_summary_list = <<>>
  PROVE  /\ Opens(peer', p)
         /\ peer'.link_state_request_list = peer.link_state_request_list
         /\ lsdb' = lsdb /\ halted' = halted
  <1> DEFINE o == S!Opened(Master, p)
  <1>1. /\ o \in S!Neighbors /\ S!WellFormed(o)
        /\ S!Entered(Master, p).state = "EXSTART"
        /\ o.state = "EXSTART" /\ ~o.is_master /\ o.adj
        /\ o.recv_dd_seq_num = p.seq /\ o.dd_options = p.options
        /\ ~o.dd_recv_no_more /\ o.db_summary_list = <<>>
        /\ o.link_state_request_list = peer.link_state_request_list
    BY OpenedIs
  <1>2. S!BecomeSlave(Master, p)
    BY <1>1 DEF S!ReceiveDD, S!DDTooEarly, S!DDUnanswered, S!BecomeMaster,
                S!AcceptsMaster, S!AcceptsSlave, S!DDDuplicate, S!DDMismatch,
                S!DDAccepted, S!DDAfterExchange, peer
  <1>3. PICK hdrs \in S!HeaderLists :
          S!Reply(Master, S!NegotiationDone([o EXCEPT !.is_master = TRUE,
                                                      !.dd_seq_num = p.seq,
                                                      !.dd_init = FALSE], hdrs))
    BY <1>2 DEF S!BecomeSlave
  <1> DEFINE r == S!NegotiationDone([o EXCEPT !.is_master = TRUE,
                                              !.dd_seq_num = p.seq,
                                              !.dd_init = FALSE], hdrs)
  <1>4. hdrs = <<OwnRouter>>
    BY OwnHeaders
  <1>5. p.seq \in S!SeqNums
    BY SlaveSeqNums DEF DDs
  <1>6. r \in S!Neighbors
    BY <1>1, <1>5, SlaveConstants, S!NegotiatedType DEF S!WellFormed
  <1>7. <<>> \o <<OwnRouter>> = <<OwnRouter>>
    OBVIOUS
  <1> HIDE DEF o
  <1>8. /\ r.state = "EXCHANGE" /\ r.is_master /\ ~r.dd_init
        /\ r.dd_options = p.options
        /\ r.dd_seq_num = p.seq /\ r.recv_dd_seq_num = p.seq
        /\ ~r.dd_recv_no_more /\ r.db_summary_list = <<OwnRouter>>
        /\ r.link_state_request_list = peer.link_state_request_list
    BY <1>1, <1>4, <1>7 DEF S!NegotiationDone, S!Neighbors
  <1>9. S!Reply(Master, r)
    BY <1>3
  <1> HIDE DEF r
  <1>10. S!ProduceFails(r) = "no"
    <2>1. r.db_summary_list \in {<<>>, <<OwnRouter>>}
      BY <1>8
    <2>2. ~S!Splits(r)
      BY <2>1, ShortLists
    <2> QED BY <1>8, <2>2 DEF S!ProduceFails
  <1>11. S!Update(Master, S!Produced(r))
    BY <1>9, <1>10 DEF S!Reply
  <1> DEFINE s == S!Produced(r)
  <1>12. /\ ShortDD(r, s.last_dd) /\ s.state = "EXCHANGE"
         /\ s.is_master = r.is_master /\ s.dd_init = r.dd_init
         /\ s.dd_options = r.dd_options /\ s.dd_seq_num = r.dd_seq_num
         /\ s.recv_dd_seq_num = r.recv_dd_seq_num
         /\ s.dd_recv_no_more = r.dd_recv_no_more
         /\ s.link_state_request_list = r.link_state_request_list
         /\ s.db_summary_list = r.db_summary_list
    BY <1>6, <1>8, ProducedShort
  <1> HIDE DEF s
  <1>13. peer' = s /\ halted' = halted /\ lsdb' = lsdb
    BY <1>11, <1>12, UpdateIs DEF s
  <1> QED BY <1>8, <1>12, <1>13 DEF Opens, ShortDD

\* A duplicate changes nothing, nor does one of the last DD in LOADING or
\* FULL.
LEMMA TakesRepeated ==
  ASSUME S!TypeOK, Settled(peer), NEW p \in DDs, S!ReceiveDD(Master, p),
         p.seq = peer.dd_seq_num,
         peer.state = "EXCHANGE" \/ (p.ms /\ ~p.i)
  PROVE  peer' = peer /\ lsdb' = lsdb /\ halted' = halted
  <1>1. /\ nbr[Master] = peer /\ peer \in S!Neighbors
        /\ peer.state \in S!AtLeastExchange /\ peer.is_master
        /\ peer.recv_dd_seq_num = p.seq
    BY DEF S!TypeOK, peer, Settled
  <1>2. S!Entered(Master, p).state = peer.state
    BY <1>1 DEF S!Entered, S!TwoWayReceived, S!Noted, S!Neighbors,
                S!AtLeastExchange
  <1>3. CASE peer.state = "EXCHANGE"
    <2>1. S!DDDuplicate(Master, p)
      BY <1>1, <1>2, <1>3
         DEF S!ReceiveDD, S!DDTooEarly, S!DDUnanswered, S!BecomeMaster,
             S!BecomeSlave, S!DDDuplicate, S!DDMismatch, S!DDAccepted,
             S!DDAfterExchange, S!Duplicate
    <2> QED BY <2>1 DEF S!DDDuplicate, S!vars, peer
  <1>4. CASE peer.state # "EXCHANGE"
    <2>1. S!DDAfterExchange(Master, p)
      BY <1>1, <1>2, <1>4
         DEF S!ReceiveDD, S!DDTooEarly, S!DDUnanswered, S!BecomeMaster,
             S!BecomeSlave, S!DDDuplicate, S!DDMismatch, S!DDAccepted,
             S!DDAfterExchange, S!AtLeastExchange
    <2>2. ~S!Mismatch(peer, p)
      BY <1>1, <1>4 DEF S!Mismatch, DDs, S!Neighbors
    <2>3. S!Noted(Master, p) = peer
      BY <1>1 DEF S!Noted, S!Neighbors
    <2>4. S!Update(Master, peer)
      BY <1>1, <2>1, <2>2, <2>3 DEF S!DDAfterExchange
    <2> QED BY <2>4, UpdateIs
  <1> QED BY <1>3, <1>4

\* What a slave that takes the master's next DD has then.
Accepts(r, s, p) ==
    /\ s.is_master /\ ~s.dd_init /\ s.dd_options = r.dd_options
    /\ s.dd_seq_num = p.seq /\ s.recv_dd_seq_num = p.seq
    /\ s.dd_recv_no_more = ~p.m
    /\ s.db_summary_list = <<>>
    /\ IF p.m THEN s.state = "EXCHANGE" ELSE s.state \in {"LOADING", "FULL"}
    /\ s.listed = r.listed \cup p.hdrs
    /\ S!Requested(s) \subseteq S!Requested(r) \cup p.hdrs
    /\ ~s.last_dd.ms /\ ~s.last_dd.m /\ ~s.last_dd.i /\ s.last_dd.seq = p.seq
    /\ s.last_dd.hdrs = <<>>

LEMMA TakesNext ==
  ASSUME S!ReplyInv, Settled(peer), peer.state = "EXCHANGE",
         NEW p \in DDs, S!ReceiveDD(Master, p),
         p.ms, ~p.i, p.options = 2,
         p.seq # peer.dd_seq_num, p.seq = (peer.dd_seq_num + 1) % SeqSpace
  PROVE  /\ Accepts(peer, peer', p) /\ halted' = halted
         /\ peer'.state # "FULL" => lsdb' = lsdb
         /\ \A k \in Keys : lsdb[k] > 0 => lsdb'[k] > 0
  <1>1. /\ S!TypeOK /\ nbr[Master] = peer
        /\ peer \in S!Neighbors /\ S!WellFormed(peer)
        /\ peer.is_master /\ peer.recv_dd_seq_num = peer.dd_seq_num
        /\ peer.dd_options = 2 /\ ~peer.dd_init
        /\ peer.db_summary_list \in {<<>>, <<OwnRouter>>}
        /\ p.seq \in S!SeqNums
    BY SlaveSeqNums DEF S!ReplyInv, S!TypeOK, peer, Settled, DDs
  <1>2. peer.db_summary_send_iter = 0
    BY <1>1, ShortLists DEF S!ReplyInv, S!Good, S!Replies, peer
  <1> DEFINE q == S!Noted(Master, p)
             r == S!Advance(q)
             e == S!Erased(r)
             s == S!Heard(e, p)
  <1>3. S!Entered(Master, p).state = "EXCHANGE"
    BY <1>1 DEF S!Entered, S!TwoWayReceived, S!Noted, S!Neighbors
  <1>4. S!DDAccepted(Master, p)
    <2>1. ~S!Mismatch(peer, p)
      BY <1>1 DEF S!Mismatch, DDs, S!Neighbors
    <2>2. S!Expected(peer) = p.seq
      BY <1>1 DEF S!Expected, S!Advance, S!Neighbors
    <2> QED BY <1>1, <1>3, <2>1, <2>2
         DEF S!ReceiveDD, S!DDTooEarly, S!DDUnanswered, S!BecomeMaster,
             S!BecomeSlave, S!DDDuplicate, S!DDMismatch,
             S!DDAfterExchange, S!Duplicate
  <1>5. /\ q.is_master /\ ~q.dd_init /\ q.dd_options = peer.dd_options
        /\ q.dd_seq_num = peer.dd_seq_num /\ q.recv_dd_seq_num = p.seq
        /\ q.db_summary_list = peer.db_summary_list
        /\ q.db_summary_send_iter = 0 /\ q.state = "EXCHANGE"
        /\ q.listed = peer.listed
        /\ q.link_state_request_list = peer.link_state_request_list
        /\ q \in S!Neighbors /\ S!WellFormed(q)
    BY <1>1, <1>2, SlaveConstants, S!NotedType
       DEF S!Noted, S!Neighbors, S!WellFormed
  <1>6. S!WellFormed(r) /\ r \in S!Neighbors
    BY <1>5, SlaveConstants, S!AdvanceType DEF S!WellFormed
  <1> HIDE DEF q
  <1>7. /\ r.is_master /\ ~r.dd_init /\ r.dd_options = peer.dd_options
        /\ r.dd_seq_num = p.seq /\ r.recv_dd_seq_num = p.seq
        /\ r.db_summary_list = peer.db_summary_list
        /\ r.db_summary_send_iter = 0 /\ r.state = "EXCHANGE"
        /\ r.listed = peer.listed
        /\ r.link_state_request_list = peer.link_state_request_list
    BY <1>5 DEF S!Advance, S!Neighbors
  <1>8. S!Accept(Master, r, p)
    BY <1>4 DEF S!DDAccepted, q
  <1> HIDE DEF r
  <1>9. S!WellFormed(e) /\ e \in S!Neighbors
    BY <1>6, <1>7, SlaveConstants, S!ErasedType DEF S!WellFormed, S!NoIter
  <1>10. e.db_summary_list = <<>>
    <2>1. S!Acknowledged(r) = r.db_summary_list
      BY <1>7 DEF S!Acknowledged, S!Before
    <2>2. SubSeq(r.db_summary_list, Len(r.db_summary_list) + 1,
                 Len(r.db_summary_list)) = <<>>
      BY <1>1, <1>7
    <2> QED BY <1>6, <2>1, <2>2 DEF S!Erased, S!Neighbors
  <1>11. /\ e.is_master /\ ~e.dd_init /\ e.dd_options = peer.dd_options
         /\ e.dd_seq_num = p.seq /\ e.recv_dd_seq_num = p.seq
         /\ e.state = "EXCHANGE" /\ e.listed = peer.listed
         /\ e.link_state_request_list = peer.link_state_request_list
    BY <1>6, <1>7 DEF S!Erased, S!Neighbors
  <1> HIDE DEF e
  <1>12. S!WellFormed(s) /\ s \in S!Neighbors
    BY <1>9, SlaveConstants, S!HeardType DEF S!WellFormed
  <1>13. /\ s.is_master /\ ~s.dd_init /\ s.dd_options = peer.dd_options
         /\ s.dd_seq_num = p.seq /\ s.recv_dd_seq_num = p.seq
         /\ s.dd_recv_no_more = ~p.m /\ s.db_summary_list = <<>>
         /\ s.state = "EXCHANGE" /\ s.listed = peer.listed \cup p.hdrs
    BY <1>9, <1>10, <1>11 DEF S!Heard, S!Neighbors
  <1>14. S!Requested(s) \subseteq S!Requested(peer) \cup p.hdrs
    BY <1>9, <1>11 DEF S!Requested, S!Heard, S!Neighbors
  <1>15. S!Reply(Master, s)
    BY <1>7, <1>8, <1>13 DEF S!Accept, S!NoIter, e
  <1> HIDE DEF s
  <1>16. s.db_summary_list \in {<<>>, <<OwnRouter>>}
    BY <1>13
  <1>17. S!ProduceFails(s) = "no"
    <2>1. ~S!Splits(s)
      BY <1>16, ShortLists
    <2> QED BY <1>13, <2>1 DEF S!ProduceFails
  <1> DEFINE t == S!Produced(s)
  <1>18. S!Update(Master, t)
    BY <1>15, <1>17 DEF S!Reply
  <1>19. /\ ShortDD(s, t.last_dd)
         /\ t.is_master = s.is_master /\ t.dd_init = s.dd_init
         /\ t.dd_options = s.dd_options /\ t.dd_seq_num = s.dd_seq_num
         /\ t.recv_dd_seq_num = s.recv_dd_seq_num
         /\ t.dd_recv_no_more = s.dd_recv_no_more
         /\ t.link_state_request_list = s.link_state_request_list
         /\ t.listed = s.listed
         /\ IF ~s.dd_init /\ s.is_master /\ s.dd_recv_no_more
            THEN t.state \in {"LOADING", "FULL"} /\ t.db_summary_list = <<>>
            ELSE t.state = s.state /\ t.db_summary_list = s.db_summary_list
    BY <1>12, <1>16, ProducedShort
  <1> HIDE DEF t
  <1>20. /\ peer' = t /\ halted' = halted
         /\ t.state # "FULL" => lsdb' = lsdb
         /\ \A k \in Keys : lsdb[k] > 0 => lsdb'[k] > 0
    BY <1>1, <1>18, UpdateIs
  <1>21. S!Requested(t) \subseteq S!Requested(peer) \cup p.hdrs
    BY <1>14, <1>19 DEF S!Requested
  <1>22. p.m \in BOOLEAN
    BY DEF DDs
  <1> QED BY <1>13, <1>19, <1>20, <1>21, <1>22 DEF Accepts, ShortDD

-----------------------------------------------------------------------------
(* Steps that leave it to the same router to go on.                        *)

\* t is s with x sent, with its head taken, or s.
Passed(s, t, x) == t \in {s, s \o <<x>>} \/ (s # <<>> /\ t = Tail(s))

LEMMA PassedTurn ==
  ASSUME NEW T, NEW s \in Seq(T), NEW x \in T, NEW t, Passed(s, t, x)
  PROVE  /\ s \in Seq({x}) => t \in Seq({x})
         /\ \A A : InTurn(s, A, {x}) => InTurn(t, A, {x})
  <1>1. CASE t = s
    BY <1>1
  <1>2. CASE t = s \o <<x>>
    <2>1. \A A : InTurn(s, A, {x}) => InTurn(t, A, {x})
      BY <1>2, InTurnSent
    <2>2. s \in Seq({x}) => t \in Seq({x})
      BY <1>2
    <2> QED BY <2>1, <2>2
  <1>3. CASE s # <<>> /\ t = Tail(s)
    <2>1. \A A : InTurn(s, A, {x}) => InTurn(t, A, {x})
      BY <1>3, InTurnHead
    <2>2. s \in Seq({x}) => t \in Seq({x})
      BY <1>3, HeadOf
    <2> QED BY <2>1, <2>2
  <1> QED BY <1>1, <1>2, <1>3 DEF Passed

\* The slave has made no progress, but for what it has requested.
Alike(r, s) ==
    /\ s.state = r.state \/ (r.state = "LOADING" /\ s.state = "FULL")
    /\ s.is_master = r.is_master /\ s.dd_init = r.dd_init
    /\ s.dd_options = r.dd_options /\ s.dd_seq_num = r.dd_seq_num
    /\ s.recv_dd_seq_num = r.recv_dd_seq_num
    /\ s.dd_recv_no_more = r.dd_recv_no_more /\ s.last_dd = r.last_dd
    /\ s.db_summary_list = r.db_summary_list /\ s.listed = r.listed

\* Nor has the master.
Likewise(m, n) == n.state = m.state /\ n.seq = m.seq /\ n.left = m.left

LEMMA SameTurn ==
  ASSUME TypeOK, Exchanging, Alike(peer, peer'),
         Likewise(master, master'),
         lsdb'[OwnNetwork] > 0 => peer'.state = "FULL",
         Passed(toSlave.dd, toSlave'.dd, MasterDD),
         Passed(toMaster.dd, toMaster'.dd, Reply)
  PROVE  Exchanging'
  <1>1. /\ peer \in S!Neighbors /\ master \in Masters
        /\ toSlave.dd \in Seq(DDs) /\ toMaster.dd \in Seq(DDs)
    BY Parts DEF Channel, Packets
  <1>2. MasterDD \in DDs /\ Reply \in DDs
    BY <1>1, MasterTypes, WireType DEF Reply
  <1>3. /\ MasterDD' = MasterDD /\ Reply' = Reply /\ Repeated' = Repeated
        /\ Answered' = Answered /\ Rest' = Rest /\ AtLast' = AtLast
    BY DEF MasterDD, Reply, Repeated, Answered, Rest, AtLast, Alike, Likewise
  <1>4. /\ peer'.state \in S!AtLeastExchange
        /\ peer'.state = "EXCHANGE" <=> peer.state = "EXCHANGE"
    BY DEF Alike, Exchanging, Settled, S!AtLeastExchange
  <1>5. Settled(peer)'
    BY <1>4 DEF Exchanging, Settled, Alike
  <1>6. /\ toSlave.dd \in Seq({MasterDD}) => toSlave'.dd \in Seq({MasterDD})
        /\ \A A : InTurn(toSlave.dd, A, {MasterDD})
                    => InTurn(toSlave'.dd, A, {MasterDD})
    BY <1>1, <1>2, PassedTurn
  <1>7. /\ toMaster.dd \in Seq({Reply}) => toMaster'.dd \in Seq({Reply})
        /\ \A A : InTurn(toMaster.dd, A, {Reply})
                    => InTurn(toMaster'.dd, A, {Reply})
    BY <1>1, <1>2, PassedTurn
  <1>8. Openings' = Openings
    BY DEF Openings, OwnDDs
  <1>9. CASE Behind
    BY <1>3, <1>4, <1>5, <1>6, <1>7, <1>9 DEF Exchanging, Behind, Alike, Likewise
  <1>10. CASE Ahead
    BY <1>3, <1>4, <1>5, <1>6, <1>7, <1>8, <1>10
       DEF Exchanging, Ahead, Alike, Likewise
  <1>11. CASE Done
    BY <1>3, <1>4, <1>5, <1>6, <1>7, <1>11 DEF Exchanging, Done, Alike, Likewise
  <1> QED BY <1>9, <1>10, <1>11 DEF Exchanging

LEMMA HelloGoes ==
  ASSUME TypeOK, Going, HearHello PROVE Going'
  <1> DEFINE seen == master.state # "down"
             known == S!HelloReceived([peer EXCEPT !.adj = TRUE])
             next == IF seen THEN S!TwoWayReceived(known)
                             ELSE S!OneWayReceived(known)
  <1>1. peer \in S!Neighbors /\ nbr[Master] = peer
    BY Parts DEF peer
  <1>2. peer' = next /\ UNCHANGED <<lsdb, halted, master, toSlave, toMaster, misled>>
    BY <1>1 DEF HearHello, S!ReceiveHello, peer
  <1>3. known = [peer EXCEPT !.adj = TRUE, !.state = IF peer.state = "NONE"
                                                    THEN "INIT" ELSE peer.state]
    BY <1>1 DEF S!HelloReceived, S!Neighbors
  <1>4. /\ known \in S!Neighbors /\ known.adj
        /\ known.state = IF peer.state = "NONE" THEN "INIT" ELSE peer.state
        /\ Alike([peer EXCEPT !.state = known.state], known)
        /\ known.link_state_request_list = peer.link_state_request_list
    BY <1>1, <1>3 DEF S!Neighbors, S!States, Alike
  <1> HIDE DEF known
  <1>5. S!Requested(known) = S!Requested(peer)
    BY <1>4 DEF S!Requested
  <1>6. MasterDD' = MasterDD /\ Openings' = Openings
    BY <1>2 DEF MasterDD, Openings, OwnDDs
  <1>7. CASE Exchanging
    <2>1. peer.state \in S!AtLeastExchange /\ seen
      BY <1>7 DEF Exchanging, Settled, Behind, Ahead, Done
    <2>2. next = known /\ known.state = peer.state
      BY <1>4, <2>1 DEF S!TwoWayReceived, S!AtLeastExchange
    <2>3. Alike(peer, peer') /\ peer'.state = peer.state
      BY <1>1, <1>2, <1>4, <2>2 DEF Alike, S!Neighbors
    <2>4. Likewise(master, master')
      BY <1>2 DEF Likewise
    <2>5. Exchanging'
      BY <1>2, <1>7, <2>3, <2>4, SameTurn DEF Passed, Exchanging
    <2>6. Served'
      BY <1>2, <1>5, <2>2 DEF Served, Going
    <2> QED BY <2>5, <2>6 DEF Going
  <1>8. CASE Meeting
    <2>1. peer.state \in {"NONE", "INIT", "EXSTART"}
      BY <1>8 DEF Meeting
    <2>2. CASE ~seen
      <3>1. next = known /\ known.state = "INIT"
        BY <1>4, <1>8, <2>2 DEF Meeting, S!OneWayReceived
      <3>2. Meeting'
        BY <1>1, <1>2, <1>4, <1>8, <2>2, <3>1 DEF Meeting, Alike, S!Neighbors
      <3>3. Served'
        BY <1>2, <1>5, <3>1 DEF Served, Going
      <3> QED BY <3>2, <3>3 DEF Going
    <2>3. CASE seen
      <3>1. known.state \in {"INIT", "EXSTART"}
        BY <1>4, <1>8, <2>3 DEF Meeting
      <3>2. next = IF known.state = "INIT" THEN S!Restart(known) ELSE known
        BY <1>4, <2>3 DEF S!TwoWayReceived
      <3>3. /\ known.is_master = peer.is_master /\ known.dd_init = peer.dd_init
            /\ known.dd_recv_no_more = peer.dd_recv_no_more
            /\ known.db_summary_list = peer.db_summary_list
        BY <1>1, <1>4 DEF Alike, S!Neighbors
      <3>4. ~peer.is_master /\ peer.is_master \in BOOLEAN
        BY <1>1, <1>8 DEF Meeting, S!Neighbors
      <3>5. known.state = "INIT" \/ known.state = "EXSTART"
        BY <3>1
      <3>6. /\ next.state = "EXSTART" /\ next.adj = TRUE
            /\ next.is_master = peer.is_master /\ next.dd_init = peer.dd_init
            /\ next.dd_recv_no_more = peer.dd_recv_no_more
            /\ next.db_summary_list = peer.db_summary_list
            /\ next.link_state_request_list = peer.link_state_request_list
        BY <1>4, <3>2, <3>3, <3>4, <3>5 DEF S!Restart, S!Neighbors
      <3> HIDE DEF next
      <3>7. /\ master.state = "exstart" /\ peer' = next
            /\ UNCHANGED <<lsdb, master, toSlave, toMaster>>
        BY <1>2, <1>8, <2>3 DEF Meeting
      <3>8. peer'.adj = (peer'.state # "NONE")
        BY <3>6, <3>7
      <3>9. /\ master.left = Told /\ master.wants = {}
            /\ toSlave.dd \in Seq({MasterDD}) /\ toMaster.dd \in Seq(Openings)
            /\ toSlave.lsr = <<>> /\ toSlave.lsu = <<>> /\ toMaster.lsr = <<>>
            /\ lsdb = OwnOnly
        BY <1>8, <3>7 DEF Meeting
      <3>10. /\ ~next.is_master /\ next.dd_init /\ ~next.dd_recv_no_more
            /\ next.db_summary_list = <<>>
            /\ next.link_state_request_list = S!NoRequests
        BY <1>8, <3>6 DEF Meeting
      <3>11. Meeting'
        BY <1>6, <3>6, <3>7, <3>8, <3>9, <3>10 DEF Meeting
      <3>12. Served'
        BY <1>2, <3>6 DEF Served, Going, S!Requested
      <3> QED BY <3>11, <3>12 DEF Going
    <2> QED BY <2>2, <2>3
  <1> QED BY <1>7, <1>8 DEF Going

LEMMA MasterDDIs ==
  ASSUME master \in Masters
  PROVE
  /\ MasterDD.ms /\ MasterDD.seq = master.seq /\ MasterDD.options = 2
  /\ MasterDD.i <=> master.state = "exstart"
  /\ MasterDD.m <=> (master.state = "exstart" \/ ~AtLast)
  /\ MasterDD.hdrs = IF master.state = "exstart" \/ master.left = <<>> THEN {}
                     ELSE {Head(master.left)}
  <1>1. (Len(master.left) > 1) = ~AtLast
    BY DEF AtLast, Masters
  <1> QED BY <1>1, Zenon DEF MasterDD

\* The first DD of the slave that meets its master answers the offer.
LEMMA OfferGoes ==
  ASSUME TypeOK, Served, Meeting, TakeDD PROVE Going'
  <1> DEFINE p == Head(toSlave.dd)
  <1>1. /\ master.state = "exstart" /\ peer.state \in {"INIT", "EXSTART"}
        /\ toSlave.dd \in Seq({MasterDD}) /\ toSlave.dd # <<>>
        /\ toMaster.dd \in Seq(Openings)
    BY DEF Meeting, TakeDD
  <1>2. /\ p = MasterDD /\ Tail(toSlave.dd) \in Seq({MasterDD})
    BY <1>1, HeadOf
  <1>3. /\ master \in Masters /\ MasterDD \in DDs /\ S!TypeOK
        /\ Channel(toSlave) /\ Channel(toMaster)
    BY Parts, MasterTypes DEF TypeOK
  <1>4. p \in DDs /\ p.i /\ p.seq = master.seq /\ p.options = 2
    BY <1>1, <1>2, <1>3, MasterDDIs
  <1>5. S!ReceiveDD(Master, p)
    BY <1>1 DEF TakeDD, S!FromUnknown, peer
  <1>6. /\ Opens(peer', p) /\ lsdb' = lsdb /\ halted' = halted
        /\ peer'.link_state_request_list = S!NoRequests
    <2> HIDE DEF p
    <2>1. /\ lsdb = OwnOnly /\ peer.adj /\ ~peer.is_master
          /\ ~peer.dd_recv_no_more /\ peer.db_summary_list = <<>>
          /\ peer.link_state_request_list = S!NoRequests
      BY <1>1 DEF Meeting
    <2> QED BY <1>1, <1>3, <1>4, <1>5, <2>1, TakesOffer
  <1>7. /\ UNCHANGED <<master, restarts>> /\ toSlave' = Taken(toSlave, "dd")
        /\ misled' = (misled \/ Misleads(peer, peer', p))
        /\ toMaster' =
             IF halted' = "no" /\ Answers(peer, peer', p)
             THEN Flooded(peer, peer',
                          Sent(toMaster, "dd", <<OnWire(peer'.last_dd)>>))
             ELSE toMaster
    BY DEF TakeDD
  <1> HIDE DEF p
  <1>8. ~misled'
    BY <1>4, <1>6, <1>7 DEF Misleads, Opens, Served
  <1>9. toMaster' = Sent(toMaster, "dd", <<Reply'>>)
    BY <1>1, <1>6, <1>7 DEF Answers, Opens, Served, Flooded, Reply,
                            S!AtLeastExchange
  <1>10. /\ toSlave'.dd \in Seq({MasterDD})
         /\ toSlave'.lsr = toSlave.lsr /\ toSlave'.lsu = toSlave.lsu
    BY <1>2, <1>3, <1>7, TakenIs DEF Types
  <1>11. /\ toMaster'.dd \in {toMaster.dd, toMaster.dd \o <<Reply'>>}
         /\ toMaster'.lsr = toMaster.lsr
    BY <1>3, <1>9, SentIs DEF Types
  <1>12. MasterDD' = MasterDD /\ Openings' = Openings /\ Rest' = Told
    BY <1>1, <1>7 DEF MasterDD, Openings, OwnDDs, Rest, Meeting
  <1>13. InTurn(toMaster'.dd, Openings, {Reply'})
    <2>1. InTurn(toMaster.dd, Openings, {Reply'})
      BY <1>1, InTurnSent
    <2>2. InTurn(toMaster.dd \o <<Reply'>>, Openings, {Reply'})
      BY <1>1, <2>1, InTurnSent
    <2> QED BY <1>11, <2>1, <2>2
  <1>14. Ahead'
    <2>1. ToSet(Told) = Theirs
      BY AdjacencyAssumption
    <2>2. master'.left = Told /\ master'.state = "exstart"
      BY <1>1, <1>7 DEF Meeting
    <2>3. peer'.state = "EXCHANGE" /\ peer'.dd_seq_num = master'.seq
      BY <1>4, <1>6, <1>7 DEF Opens
    <2> QED BY <1>10, <1>12, <1>13, <2>1, <2>2, <2>3 DEF Ahead
  <1>15. Settled(peer)'
    <2>1. ToSet(<<OwnRouter>>) \subseteq {OwnRouter}
      BY DEF ToSet
    <2> QED BY <1>4, <1>6, <2>1 DEF Settled, Opens, S!AtLeastExchange
  <1>16. lsdb'[OwnNetwork] = 0
    <2>1. OwnNetwork \in S!Stored /\ OwnNetwork # OwnRouter
      BY AdjacencyAssumption, KeysAre DEF Keys, RouterKeys
    <2> QED BY <1>6, <2>1 DEF Meeting, OwnOnly
  <1>17. Served'
    <2>1. S!Requested(peer)' = {}
      BY <1>6 DEF S!Requested, S!NoRequests
    <2> QED BY <1>6, <1>7, <1>8, <1>10, <1>11, <2>1 DEF Served
  <1> QED BY <1>14, <1>15, <1>16, <1>17 DEF Going, Exchanging

LEMMA SentDDIs ==
  ASSUME NEW net, Channel(net), NEW p
  PROVE  /\ Sent(net, "dd", <<p>>).dd \in {net.dd, net.dd \o <<p>>}
         /\ Sent(net, "dd", <<p>>).lsr = net.lsr
         /\ DOMAIN Sent(net, "dd", <<p>>) = Types
  BY DEF Sent, Channel, Packets, Types

LEMMA HeadAndTail ==
  ASSUME NEW T, NEW s \in Seq(T), s # <<>>
  PROVE  ToSet(s) = {Head(s)} \cup ToSet(Tail(s))
  <1>1. ASSUME NEW x \in ToSet(s) PROVE x \in {Head(s)} \cup ToSet(Tail(s))
    <2>1. PICK j \in 1 .. Len(s) : x = s[j]
      BY <1>1 DEF ToSet
    <2>2. CASE j = 1
      BY <2>1, <2>2
    <2>3. CASE j # 1
      <3>1. Tail(s) \in Seq(T) /\ Len(Tail(s)) = Len(s) - 1
        BY HeadOf
      <3>2. j - 1 \in 1 .. Len(Tail(s))
        BY <2>1, <2>3, <3>1
      <3>3. Tail(s)[j - 1] = s[(j - 1) + 1]
        BY <3>2, HeadTailProperties
      <3>4. (j - 1) + 1 = j
        BY <2>1
      <3>5. Tail(s)[j - 1] = x
        BY <2>1, <3>3, <3>4
      <3>6. j - 1 \in DOMAIN Tail(s)
        <4>1. DOMAIN Tail(s) = 1 .. Len(Tail(s))
          BY <3>1, LenProperties
        <4> QED BY <3>2, <4>1
      <3>7. x \in ToSet(Tail(s))
        BY <3>5, <3>6, Zenon DEF ToSet
      <3> QED BY <3>7
    <2> QED BY <2>2, <2>3
  <1>2. Head(s) \in ToSet(s)
    <2>1. 1 \in 1 .. Len(s) /\ Head(s) = s[1]
      OBVIOUS
    <2> QED BY <2>1 DEF ToSet
  <1>3. ASSUME NEW x \in ToSet(Tail(s)) PROVE x \in ToSet(s)
    <2>1. Tail(s) \in Seq(T)
      BY HeadOf
    <2>2. PICK j \in 1 .. Len(Tail(s)) : x = Tail(s)[j]
      BY <1>3, <2>1 DEF ToSet
    <2>3. j + 1 \in 1 .. Len(s) /\ x = s[j + 1]
      BY <2>2
    <2> QED BY <2>3 DEF ToSet
  <1> QED BY <1>1, <1>2, <1>3

LEMMA FloodedIs ==
  ASSUME NEW net, DOMAIN net = Types, NEW r, NEW s
  PROVE  Flooded(r, s, net).dd = net.dd /\ Flooded(r, s, net).lsr = net.lsr
  BY DEF Flooded, Sent, Types

\* A DD that the slave has answered is answered again.
LEMMA RepeatedGoes ==
  ASSUME TypeOK, Served, Exchanging, TakeDD,
         Head(toSlave.dd).seq = peer.dd_seq_num,
         peer.state = "EXCHANGE"
           \/ (Head(toSlave.dd).ms /\ ~Head(toSlave.dd).i)
  PROVE  Going'
  <1> DEFINE p == Head(toSlave.dd)
  <1>1. /\ peer.state \in S!AtLeastExchange /\ toSlave.dd # <<>>
        /\ Channel(toSlave) /\ Channel(toMaster) /\ S!TypeOK
        /\ toSlave.dd \in Seq(DDs)
    BY Parts DEF Exchanging, Settled, TakeDD, TypeOK, Packets
  <1>2. p \in DDs
    BY <1>1, HeadOf
  <1>3. S!ReceiveDD(Master, p)
    BY <1>1 DEF TakeDD, S!FromUnknown, peer, S!AtLeastExchange
  <1>4. peer' = peer /\ lsdb' = lsdb /\ halted' = halted
    <2> HIDE DEF p
    <2>1. p.seq = peer.dd_seq_num /\ (peer.state = "EXCHANGE" \/ (p.ms /\ ~p.i))
      BY DEF p
    <2> QED BY <1>1, <1>2, <1>3, <2>1, TakesRepeated DEF Exchanging
  <1>5. /\ UNCHANGED <<master, restarts>> /\ toSlave' = Taken(toSlave, "dd")
        /\ misled' = (misled \/ Misleads(peer, peer', p))
        /\ toMaster' =
             IF halted' = "no" /\ Answers(peer, peer', p)
             THEN Flooded(peer, peer',
                          Sent(toMaster, "dd", <<OnWire(peer'.last_dd)>>))
             ELSE toMaster
    BY DEF TakeDD
  <1> HIDE DEF p
  <1>6. ~misled'
    BY <1>1, <1>5 DEF Misleads, Served
  <1>7. toMaster' \in {toMaster, Sent(toMaster, "dd", <<Reply>>)}
    BY <1>4, <1>5 DEF Flooded, Reply
  <1>8. /\ toSlave'.dd = Tail(toSlave.dd) /\ toSlave'.lsr = toSlave.lsr
    BY <1>1, <1>5, TakenIs DEF Types
  <1>9. /\ toMaster'.dd \in {toMaster.dd, toMaster.dd \o <<Reply>>}
        /\ toMaster'.lsr = toMaster.lsr
    BY <1>1, <1>7, SentDDIs
  <1>10. Exchanging'
    <2>1. Alike(peer, peer') /\ Likewise(master, master')
      BY <1>4, <1>5 DEF Alike, Likewise
    <2>2. lsdb'[OwnNetwork] > 0 => peer'.state = "FULL"
      BY <1>4 DEF Exchanging
    <2> QED BY <1>1, <1>8, <1>9, <2>1, <2>2, SameTurn DEF Passed
  <1>11. Served'
    BY <1>4, <1>5, <1>6, <1>8, <1>9 DEF Served
  <1> QED BY <1>10, <1>11 DEF Going

\* The next one is the slave's turn.
LEMMA NextGoes ==
  ASSUME TypeOK, S!ExchangeInv, Served, Exchanging, Behind, TakeDD,
         toSlave.dd \in Seq({MasterDD})
  PROVE  Going'
  <1> DEFINE p == Head(toSlave.dd)
  <1>1. /\ peer.state = "EXCHANGE" /\ toSlave.dd # <<>> /\ Settled(peer)
        /\ Channel(toSlave) /\ Channel(toMaster) /\ S!TypeOK
        /\ master \in Masters /\ peer \in S!Neighbors
        /\ master.state = "exchange" /\ MasterDD \in DDs
    BY Parts, MasterTypes DEF Exchanging, Behind, TakeDD, TypeOK
  <1>2. p = MasterDD /\ Tail(toSlave.dd) \in Seq({MasterDD})
    BY <1>1, HeadOf
  <1>3. /\ p \in DDs /\ p.ms /\ ~p.i /\ p.seq = master.seq /\ p.options = 2
        /\ p.m <=> ~AtLast
        /\ p.hdrs = IF master.left = <<>> THEN {} ELSE {Head(master.left)}
    BY <1>1, <1>2, MasterDDIs
  <1>4. S!ReceiveDD(Master, p)
    BY <1>1 DEF TakeDD, S!FromUnknown, peer
  <1>5. /\ UNCHANGED <<master, restarts>> /\ toSlave' = Taken(toSlave, "dd")
        /\ misled' = (misled \/ Misleads(peer, peer', p))
        /\ toMaster' =
             IF halted' = "no" /\ Answers(peer, peer', p)
             THEN Flooded(peer, peer',
                          Sent(toMaster, "dd", <<OnWire(peer'.last_dd)>>))
             ELSE toMaster
    BY DEF TakeDD
  <1> HIDE DEF p
  <1>6. /\ Accepts(peer, peer', p) /\ halted' = halted
        /\ peer'.state # "FULL" => lsdb' = lsdb
        /\ \A k \in Keys : lsdb[k] > 0 => lsdb'[k] > 0
    <2>1. peer.dd_seq_num \in 0 .. SeqSpace - 1
      BY <1>1, SlaveSeqNums DEF S!Neighbors
    <2>2. p.seq # peer.dd_seq_num /\ p.seq = (peer.dd_seq_num + 1) % SeqSpace
      BY <1>3, <2>1, NextSeq DEF Behind
    <2> QED BY <1>1, <1>3, <1>4, <2>2, TakesNext DEF S!ExchangeInv
  <1>7. ~misled'
    BY <1>1, <1>5 DEF Misleads, Served, S!AtLeastExchange
  <1>8. /\ toSlave'.dd = Tail(toSlave.dd) /\ toSlave'.lsr = toSlave.lsr
    BY <1>1, <1>5, TakenIs DEF Types
  <1>9. /\ toMaster'.dd \in {toMaster.dd, toMaster.dd \o <<Reply'>>}
        /\ toMaster'.lsr = toMaster.lsr
    <2> DEFINE net == Sent(toMaster, "dd", <<Reply'>>)
    <2>1. toMaster' \in {toMaster, Flooded(peer, peer', net)}
      BY <1>5 DEF Reply
    <2>2. /\ net.dd \in {toMaster.dd, toMaster.dd \o <<Reply'>>}
          /\ net.lsr = toMaster.lsr /\ DOMAIN net = Types
      BY <1>1, SentDDIs
    <2> HIDE DEF net
    <2> QED BY <2>1, <2>2, FloodedIs
  <1>10. /\ Rest' = Rest /\ AtLast' = AtLast /\ MasterDD' = MasterDD
    BY <1>5 DEF Rest, AtLast, MasterDD
  <1>11. ToSet(master.left) \subseteq p.hdrs \cup ToSet(Rest)
    <2>1. CASE master.left = <<>>
      BY <1>1, <2>1 DEF Rest
    <2>2. CASE master.left # <<>>
      <3>1. ToSet(master.left) = {Head(master.left)} \cup ToSet(Tail(master.left))
        BY <1>1, <2>2, HeadAndTail DEF Masters
      <3> QED BY <1>1, <1>3, <2>2, <3>1 DEF Rest
    <2> QED BY <2>1, <2>2
  <1>12. InTurn(toMaster'.dd, Answered', {Reply'})
    <2>1. Reply \in Answered'
      <3>1. Reply \in OwnDDs
        BY <1>1, WireType DEF Reply, OwnDDs, Settled, OnWire
      <3>2. /\ ~peer.last_dd.ms /\ ~peer.last_dd.i
            /\ peer.last_dd.seq = peer.dd_seq_num
        <4>1. S!EchoSeq /\ peer.is_master /\ peer.state \in S!AtLeastExchange
          BY <1>1, SlaveConstants, S!ReplyInvImplies DEF S!ExchangeInv, Settled
        <4> QED BY <4>1 DEF S!EchoSeq, peer
      <3> QED BY <1>5, <3>1, <3>2 DEF Answered, OwnDDs, Reply, OnWire, Behind
    <2>2. toMaster.dd \in Seq(Answered')
      BY <2>1 DEF Behind
    <2>3. InTurn(toMaster.dd, Answered', {Reply'})
      BY <2>2, InTurnSent
    <2>4. InTurn(toMaster.dd \o <<Reply'>>, Answered', {Reply'})
      BY <2>2, <2>3, InTurnSent
    <2> QED BY <1>9, <2>3, <2>4
  <1>13. Ahead'
    <2>1. Theirs \subseteq peer'.listed \cup ToSet(Rest)
      BY <1>6, <1>11 DEF Behind, Accepts
    <2>2. /\ master'.state = "exchange" /\ peer'.dd_seq_num = master'.seq
          /\ toSlave'.dd \in Seq({MasterDD})
      BY <1>1, <1>2, <1>3, <1>5, <1>6, <1>8 DEF Accepts, p
    <2>3. peer'.state = "EXCHANGE" <=> ~AtLast
      BY <1>3, <1>6 DEF Accepts
    <2> QED BY <1>10, <1>12, <2>1, <2>2, <2>3 DEF Ahead
  <1>14. Settled(peer)'
    <2>1. ToSet(<<>>) = {}
      BY DEF ToSet
    <2>2. peer'.state \in S!AtLeastExchange
      BY <1>6 DEF Accepts, S!AtLeastExchange
    <2>3. peer'.dd_options = 2
      BY <1>1, <1>6 DEF Accepts, Settled
    <2> QED BY <1>6, <2>1, <2>2, <2>3 DEF Settled, Accepts
  <1>15. (lsdb[OwnNetwork] > 0 => peer.state = "FULL")'
    BY <1>1, <1>6 DEF Exchanging
  <1>16. Served'
    <2>1. p.hdrs \subseteq Theirs
      BY <1>1, <1>3 DEF Masters
    <2>2. S!Requested(peer)' \subseteq Theirs
      BY <1>6, <2>1 DEF Accepts, Served, S!Requested
    <2>3. OwnRouter \in Keys
      BY DEF Keys, RouterKeys
    <2> QED BY <1>5, <1>6, <1>7, <1>8, <1>9, <2>2, <2>3 DEF Served
  <1> QED BY <1>13, <1>14, <1>15, <1>16 DEF Going, Exchanging

LEMMA TakeDDGoes ==
  ASSUME TypeOK, S!ExchangeInv, Going, TakeDD PROVE Going'
  <1> DEFINE p == Head(toSlave.dd)
  <1>1. /\ toSlave.dd # <<>> /\ master \in Masters /\ MasterDD \in DDs
        /\ toSlave.dd \in Seq(DDs)
    BY Parts, MasterTypes DEF TakeDD, TypeOK, Packets
  <1>2. toSlave.dd \in Seq({MasterDD}) => p = MasterDD
    BY <1>1, HeadOf
  <1>3. CASE Meeting
    BY <1>3, OfferGoes DEF Going
  <1>4. CASE Exchanging /\ Behind
    <2>1. p \in Repeated \/ toSlave.dd \in Seq({MasterDD})
      BY <1>1, <1>4, InTurnHead DEF Behind
    <2>2. CASE p \in Repeated
      BY <1>4, <2>2, RepeatedGoes DEF Repeated, Behind, Going
    <2>3. CASE toSlave.dd \in Seq({MasterDD})
      BY <1>4, <2>3, NextGoes DEF Going
    <2> QED BY <2>1, <2>2, <2>3
  <1>5. CASE Exchanging /\ (Ahead \/ Done)
    <2>1. p = MasterDD /\ peer.dd_seq_num = master.seq
      BY <1>2, <1>5 DEF Ahead, Done
    <2>2. peer.state # "EXCHANGE" => master.state # "exstart"
      BY <1>5 DEF Ahead, Done
    <2>3. p.seq = peer.dd_seq_num /\ p.ms
          /\ (p.i => peer.state = "EXCHANGE")
      BY <1>1, <2>1, <2>2, MasterDDIs
    <2> QED BY <1>5, <2>3, RepeatedGoes DEF Going
  <1> QED BY <1>3, <1>4, <1>5 DEF Going, Exchanging

\* What the meeting takes of the slave.
Unmet(r, s) ==
    /\ s.state = r.state /\ s.adj = r.adj /\ s.is_master = r.is_master
    /\ s.dd_init = r.dd_init /\ s.dd_recv_no_more = r.dd_recv_no_more
    /\ s.db_summary_list = r.db_summary_list
    /\ s.link_state_request_list = r.link_state_request_list

LEMMA SameMeeting ==
  ASSUME TypeOK, Meeting, Unmet(peer, peer'), lsdb' = lsdb,
         Likewise(master, master'), master'.wants = {},
         master.state = "down" =>
            toSlave'.dd = toSlave.dd /\ toMaster'.dd = toMaster.dd,
         Passed(toSlave.dd, toSlave'.dd, MasterDD),
         NEW o \in DDs, o \in Openings \/ toMaster'.dd # toMaster.dd \o <<o>>,
         Passed(toMaster.dd, toMaster'.dd, o),
         toSlave'.lsr = <<>>, toSlave'.lsu = <<>>, toMaster'.lsr = <<>>
  PROVE  Meeting'
  <1>1. /\ master \in Masters /\ toSlave.dd \in Seq(DDs) /\ toMaster.dd \in Seq(DDs)
        /\ MasterDD \in DDs
    BY Parts, MasterTypes DEF Channel, Packets
  <1>2. MasterDD' = MasterDD /\ Openings' = Openings
    BY DEF MasterDD, Likewise, Openings, OwnDDs
  <1>3. toSlave.dd \in Seq({MasterDD}) => toSlave'.dd \in Seq({MasterDD})
    BY <1>1, PassedTurn
  <1>4. toMaster.dd \in Seq(Openings) => toMaster'.dd \in Seq(Openings)
    <2> SUFFICES ASSUME toMaster.dd \in Seq(Openings)
                 PROVE  toMaster'.dd \in Seq(Openings)
      OBVIOUS
    <2>1. CASE toMaster'.dd = toMaster.dd \o <<o>>
      BY <2>1
    <2>2. CASE toMaster'.dd # toMaster.dd \o <<o>>
      BY <2>2, HeadOf DEF Passed
    <2> QED BY <2>1, <2>2
  <1>5. /\ peer'.adj = (peer'.state # "NONE")
        /\ ~peer'.is_master /\ peer'.dd_init /\ ~peer'.dd_recv_no_more
        /\ peer'.db_summary_list = <<>>
        /\ peer'.link_state_request_list = S!NoRequests
    BY DEF Meeting, Unmet
  <1>6. /\ master'.left = Told /\ master'.state = master.state
        /\ peer'.state = peer.state /\ lsdb' = OwnOnly
    BY DEF Meeting, Likewise, Unmet
  <1> QED BY <1>2, <1>3, <1>4, <1>5, <1>6 DEF Meeting

\* t is s, or what is left when its head is taken.
Shrunk(s, t) == t = s \/ (s # <<>> /\ t = Tail(s))

\* A step on packets, which no router takes a turn by.
LEMMA QuietGoes ==
  ASSUME TypeOK, Going, UNCHANGED <<nbr, lsdb, halted, misled>>,
         Likewise(master, master'), master'.wants \subseteq master.wants,
         \/ Shrunk(toSlave.dd, toSlave'.dd)
         \/ master.state # "down" /\ Passed(toSlave.dd, toSlave'.dd, MasterDD),
         Shrunk(toMaster.dd, toMaster'.dd),
         toSlave'.lsr \in Seq(SUBSET {OwnRouter}),
         toMaster'.lsr \in Seq(SUBSET Theirs),
         Meeting => /\ toSlave'.lsr = <<>> /\ toSlave'.lsu = <<>>
                    /\ toMaster'.lsr = <<>>
  PROVE  Going'
  <1>1. peer' = peer
    BY DEF peer
  <1>2. Served'
    BY <1>1 DEF Going, Served
  <1>3. Passed(toSlave.dd, toSlave'.dd, MasterDD)
    BY DEF Shrunk, Passed
  <1>4. \A o : Passed(toMaster.dd, toMaster'.dd, o)
    BY DEF Shrunk, Passed
  <1>5. CASE Exchanging
    <2>1. Alike(peer, peer') /\ (lsdb'[OwnNetwork] > 0 => peer'.state = "FULL")
      BY <1>1, <1>5 DEF Alike, Exchanging
    <2>2. Exchanging'
      BY <1>3, <1>4, <1>5, <2>1, SameTurn
    <2> QED BY <1>2, <2>2 DEF Going
  <1>6. CASE Meeting
    <2>1. MasterDD \in DDs /\ toMaster.dd \in Seq(DDs)
      BY Parts, MasterTypes DEF Channel, Packets
    <2>2. toMaster'.dd # toMaster.dd \o <<MasterDD>>
      <3>1. Len(toMaster.dd \o <<MasterDD>>) = Len(toMaster.dd) + 1
        BY <2>1
      <3>2. toMaster.dd # <<>> => Len(Tail(toMaster.dd)) = Len(toMaster.dd) - 1
        BY <2>1, HeadOf
      <3>3. Len(toMaster.dd) \in Nat
        BY <2>1
      <3>4. CASE toMaster'.dd = toMaster.dd
        BY <3>1, <3>3, <3>4
      <3>5. CASE toMaster.dd # <<>> /\ toMaster'.dd = Tail(toMaster.dd)
        BY <3>1, <3>2, <3>3, <3>5
      <3> QED BY <3>4, <3>5 DEF Shrunk
    <2>3. /\ Unmet(peer, peer') /\ master'.wants = {}
          /\ master.state = "down" =>
                toSlave'.dd = toSlave.dd /\ toMaster'.dd = toMaster.dd
      BY <1>1, <1>6 DEF Unmet, Meeting, Shrunk
    <2>4. Meeting'
      BY <1>3, <1>4, <1>6, <2>1, <2>2, <2>3, SameMeeting
    <2> QED BY <1>2, <2>4 DEF Going
  <1> QED BY <1>5, <1>6 DEF Going

LEMMA ShrunkDD ==
  ASSUME NEW net, Channel(net), NEW type \in Types, net[type] # <<>>
  PROVE  /\ Shrunk(net.dd, Taken(net, type).dd)
         /\ Shrunk(net.lsr, Taken(net, type).lsr)
         /\ Shrunk(net.lsu, Taken(net, type).lsu)
  BY DEF Shrunk, Taken, Channel, Packets, Types

LEMMA ShrunkSeq ==
  ASSUME NEW T, NEW s \in Seq(T), NEW t, Shrunk(s, t)
  PROVE  t \in Seq(T) /\ (s = <<>> => t = <<>>)
  BY HeadOf DEF Shrunk

LEMMA SentOn ==
  ASSUME NEW T, NEW s \in Seq(T), NEW x \in T PROVE s \o <<x>> \in Seq(T)
  OBVIOUS

LEMMA SentLSIs ==
  ASSUME NEW net, Channel(net), NEW p
  PROVE  /\ Sent(net, "lsr", <<p>>).dd = net.dd
         /\ Sent(net, "lsr", <<p>>).lsr \in {net.lsr, net.lsr \o <<p>>}
         /\ Sent(net, "lsr", <<p>>).lsu = net.lsu
         /\ Sent(net, "lsu", <<p>>).dd = net.dd
         /\ Sent(net, "lsu", <<p>>).lsr = net.lsr
  BY DEF Sent, Channel, Packets, Types

LEMMA LoseGoes ==
  ASSUME TypeOK, Going, NEW type \in Types, Lose(type) PROVE Going'
  <1>1. Channel(toSlave) /\ Channel(toMaster)
    BY Parts
  <1>2. /\ UNCHANGED <<nbr, lsdb, halted, misled, master>>
        /\ \/ toSlave' = toSlave
           \/ toSlave[type] # <<>> /\ toSlave' = Taken(toSlave, type)
        /\ \/ toMaster' = toMaster
           \/ toMaster[type] # <<>> /\ toMaster' = Taken(toMaster, type)
    BY DEF Lose, slave
  <1>3. /\ Shrunk(toSlave.dd, toSlave'.dd) /\ Shrunk(toSlave.lsr, toSlave'.lsr)
        /\ Shrunk(toSlave.lsu, toSlave'.lsu)
    <2>1. CASE toSlave' = toSlave
      BY <2>1 DEF Shrunk
    <2>2. CASE toSlave[type] # <<>> /\ toSlave' = Taken(toSlave, type)
      BY <1>1, <2>2, ShrunkDD
    <2> QED BY <1>2, <2>1, <2>2
  <1>4. Shrunk(toMaster.dd, toMaster'.dd) /\ Shrunk(toMaster.lsr, toMaster'.lsr)
    <2>1. CASE toMaster' = toMaster
      BY <2>1 DEF Shrunk
    <2>2. CASE toMaster[type] # <<>> /\ toMaster' = Taken(toMaster, type)
      BY <1>1, <2>2, ShrunkDD
    <2> QED BY <1>2, <2>1, <2>2
  <1>5. /\ toSlave'.lsr \in Seq(SUBSET {OwnRouter})
        /\ toMaster'.lsr \in Seq(SUBSET Theirs)
    BY <1>3, <1>4, ShrunkSeq DEF Going, Served
  <1>6. Meeting => /\ toSlave'.lsr = <<>> /\ toSlave'.lsu = <<>>
                   /\ toMaster'.lsr = <<>>
    BY <1>3, <1>4 DEF Meeting, Shrunk
  <1>7. Likewise(master, master') /\ master'.wants \subseteq master.wants
    BY <1>2 DEF Likewise
  <1> QED BY <1>2, <1>3, <1>4, <1>5, <1>6, <1>7, QuietGoes

LEMMA OfferedGoes ==
  ASSUME TypeOK, Going, MasterSendsDD PROVE Going'
  <1>1. Channel(toSlave) /\ Channel(toMaster)
    BY Parts
  <1>2. /\ UNCHANGED <<nbr, lsdb, halted, misled, master, toMaster>>
        /\ toSlave' = Sent(toSlave, "dd", <<MasterDD>>)
        /\ master.state # "down"
    BY DEF MasterSendsDD, slave
  <1>3. /\ Passed(toSlave.dd, toSlave'.dd, MasterDD)
        /\ toSlave'.lsr = toSlave.lsr /\ toSlave'.lsu = toSlave.lsu
    <2>1. toSlave'.lsr = toSlave.lsr /\ toSlave'.lsu = toSlave.lsu
      BY <1>1, <1>2 DEF Sent, Channel, Packets, Types
    <2> QED BY <1>1, <1>2, <2>1, SentDDIs DEF Passed
  <1>4. Shrunk(toMaster.dd, toMaster'.dd) /\ Likewise(master, master')
    BY <1>2 DEF Shrunk, Likewise
  <1>5. Meeting => /\ toSlave'.lsr = <<>> /\ toSlave'.lsu = <<>>
                   /\ toMaster'.lsr = <<>>
    BY <1>2, <1>3 DEF Meeting
  <1> QED BY <1>2, <1>3, <1>4, <1>5, QuietGoes DEF Going, Served

LEMMA AskedGoes ==
  ASSUME TypeOK, Going, MasterSendsLSR PROVE Going'
  <1>1. Channel(toSlave) /\ Channel(toMaster)
    BY Parts
  <1>2. /\ UNCHANGED <<nbr, lsdb, halted, misled, master, toMaster>>
        /\ toSlave' = Sent(toSlave, "lsr", <<master.wants>>)
        /\ master.state \in {"exchange", "done"}
    BY DEF MasterSendsLSR, slave
  <1>3. Shrunk(toSlave.dd, toSlave'.dd) /\ Shrunk(toMaster.dd, toMaster'.dd)
    BY <1>1, <1>2, SentLSIs DEF Shrunk
  <1>4. toSlave'.lsr \in Seq(SUBSET {OwnRouter})
    <2>1. toSlave'.lsr \in {toSlave.lsr, toSlave.lsr \o <<master.wants>>}
      BY <1>1, <1>2, SentLSIs
    <2>2. /\ toSlave.lsr \in Seq(SUBSET {OwnRouter})
          /\ master.wants \in SUBSET {OwnRouter}
      BY DEF Going, Served
    <2> QED BY <2>1, <2>2, SentOn
  <1>5. Likewise(master, master') /\ ~Meeting
    BY <1>2 DEF Likewise, Meeting
  <1> QED BY <1>2, <1>3, <1>4, <1>5, QuietGoes DEF Going, Served

LEMMA AnsweredGoes ==
  ASSUME TypeOK, Going, MasterTakesLSR PROVE Going'
  <1>1. Channel(toSlave) /\ Channel(toMaster)
    BY Parts
  <1>2. /\ UNCHANGED <<nbr, lsdb, halted, misled>>
        /\ toMaster' = Taken(toMaster, "lsr") /\ toMaster.lsr # <<>>
    BY DEF MasterTakesLSR, slave
  <1>3. toMaster.lsr \in Seq(SUBSET Theirs) /\ Head(toMaster.lsr) \subseteq Theirs
    BY <1>2, HeadOf DEF Going, Served
  <1>4. /\ UNCHANGED master
        /\ toSlave' \in {toSlave, Sent(toSlave, "lsu", <<Head(toMaster.lsr)>>)}
    BY <1>3 DEF MasterTakesLSR
  <1>5. toSlave'.dd = toSlave.dd /\ toSlave'.lsr = toSlave.lsr
    BY <1>1, <1>4, SentLSIs
  <1>6. Shrunk(toMaster.dd, toMaster'.dd) /\ Shrunk(toMaster.lsr, toMaster'.lsr)
    BY <1>1, <1>2, ShrunkDD DEF Types
  <1>7. toMaster'.lsr \in Seq(SUBSET Theirs)
    BY <1>3, <1>6, ShrunkSeq
  <1>8. Likewise(master, master') /\ ~Meeting /\ Shrunk(toSlave.dd, toSlave'.dd)
    BY <1>2, <1>4, <1>5 DEF Likewise, Meeting, Shrunk
  <1> QED BY <1>2, <1>4, <1>5, <1>6, <1>7, <1>8, QuietGoes DEF Going, Served

LEMMA LearntGoes ==
  ASSUME TypeOK, Going, MasterTakesLSU PROVE Going'
  <1>1. Channel(toSlave) /\ Channel(toMaster) /\ master \in Masters
    BY Parts
  <1>2. /\ UNCHANGED <<nbr, lsdb, halted, misled, toSlave>>
        /\ toMaster' = Taken(toMaster, "lsu") /\ toMaster.lsu # <<>>
        /\ master' = [master EXCEPT !.wants = @ \ Head(toMaster.lsu)]
    BY DEF MasterTakesLSU, slave
  <1>3. Likewise(master, master') /\ master'.wants \subseteq master.wants
    BY <1>1, <1>2 DEF Likewise, Masters
  <1>4. toMaster'.dd = toMaster.dd /\ toMaster'.lsr = toMaster.lsr
    BY <1>1, <1>2, TakenIs DEF Types
  <1>5. Meeting => /\ toSlave'.lsr = <<>> /\ toSlave'.lsu = <<>>
                   /\ toMaster'.lsr = <<>>
    BY <1>2, <1>4 DEF Meeting
  <1>6. Shrunk(toSlave.dd, toSlave'.dd) /\ Shrunk(toMaster.dd, toMaster'.dd)
    BY <1>2, <1>4 DEF Shrunk
  <1>7. /\ toSlave'.lsr \in Seq(SUBSET {OwnRouter})
        /\ toMaster'.lsr \in Seq(SUBSET Theirs)
    BY <1>2, <1>4 DEF Going, Served
  <1> QED BY <1>2, <1>3, <1>5, <1>6, <1>7, QuietGoes

\* The slave has what it is asked for.
LEMMA ServedGoes ==
  ASSUME TypeOK, Going, TakeLSR PROVE Going'
  <1> DEFINE asked == Head(toSlave.lsr)
  <1>1. Channel(toSlave) /\ Channel(toMaster) /\ S!TypeOK
    BY Parts DEF TypeOK
  <1>2. /\ UNCHANGED <<master, misled>> /\ toSlave' = Taken(toSlave, "lsr")
        /\ toSlave.lsr # <<>>
        /\ toMaster' \in {toMaster, Sent(toMaster, "lsu", <<asked>>)}
        /\ \/ S!FromUnknown(Master) \/ S!LSRAnswered(Master, asked)
           \/ S!BadLSReq(Master, asked)
    BY DEF TakeLSR
  <1>3. ~Meeting /\ Exchanging
    BY <1>2 DEF Meeting, Going
  <1>4. asked \subseteq {OwnRouter}
    BY <1>2, HeadOf DEF Going, Served
  <1>5. \A k \in asked : S!Found(k) # {}
    <2>1. lsdb[OwnRouter] > 0 /\ OwnRouter \in RouterKeys
      BY DEF Going, Served, RouterKeys
    <2>2. OwnRouter \in S!Found(OwnRouter)
      BY <2>1 DEF S!Found
    <2> QED BY <1>4, <2>2
  <1>6. S!LSRAnswered(Master, asked)
    BY <1>2, <1>3, <1>5
       DEF S!FromUnknown, S!BadLSReq, Exchanging, Settled, S!AtLeastExchange, peer
  <1>7. UNCHANGED <<nbr, lsdb, halted>>
    BY <1>6 DEF S!LSRAnswered, S!vars
  <1>8. Shrunk(toSlave.dd, toSlave'.dd) /\ Shrunk(toSlave.lsr, toSlave'.lsr)
    BY <1>1, <1>2, ShrunkDD DEF Types
  <1>9. toSlave'.lsr \in Seq(SUBSET {OwnRouter})
    BY <1>8, ShrunkSeq DEF Going, Served
  <1>10. toMaster'.dd = toMaster.dd /\ toMaster'.lsr = toMaster.lsr
    BY <1>1, <1>2, SentLSIs
  <1>11. Likewise(master, master') /\ Shrunk(toMaster.dd, toMaster'.dd)
    BY <1>2, <1>10 DEF Likewise, Shrunk
  <1> QED BY <1>2, <1>3, <1>7, <1>8, <1>9, <1>10, <1>11, QuietGoes
      DEF Going, Served

\* An LSU brings Router-LSAs and ends requests.
LEMMA UpdatedGoes ==
  ASSUME TypeOK, Going, TakeLSU PROVE Going'
  <1> DEFINE lsas == Head(toSlave.lsu)
  <1>1. Channel(toSlave) /\ Channel(toMaster) /\ S!TypeOK /\ peer \in S!Neighbors
    BY Parts DEF TypeOK
  <1>2. /\ UNCHANGED <<master, toMaster, misled>> /\ toSlave' = Taken(toSlave, "lsu")
        /\ toSlave.lsu # <<>>
        /\ \/ S!FromUnknown(Master)
           \/ \E newer \in SUBSET lsas : S!ReceiveLSU(Master, lsas, newer)
    BY DEF TakeLSU
  <1>3. ~Meeting /\ Exchanging
    BY <1>2 DEF Meeting, Going
  <1>4. lsas \subseteq RouterKeys
    BY <1>1, <1>2, HeadOf DEF Channel, Packets
  <1>5. PICK newer \in SUBSET lsas : S!ReceiveLSU(Master, lsas, newer)
    BY <1>2, <1>3 DEF S!FromUnknown, Exchanging, Settled, S!AtLeastExchange, peer
  <1> HIDE DEF lsas
  <1>6. /\ peer' = [peer EXCEPT !.link_state_request_list =
                       [k \in S!Keys |-> IF k \in lsas /\ @[k] > 0 THEN @[k] - 1
                                                                   ELSE @[k]]]
        /\ lsdb' = [k \in S!Stored |-> IF k \in lsas \ newer THEN lsdb[k] + 1
                                                             ELSE lsdb[k]]
        /\ halted' = halted
    BY <1>1, <1>5 DEF S!ReceiveLSU, S!TypeOK, peer
  <1>7. Alike(peer, peer')
    BY <1>1, <1>6 DEF Alike, S!Neighbors
  <1>8. S!Requested(peer') \subseteq S!Requested(peer)
    <2>1. peer'.link_state_request_list =
             [k \in S!Keys |->
                IF k \in lsas /\ peer.link_state_request_list[k] > 0
                THEN peer.link_state_request_list[k] - 1
                ELSE peer.link_state_request_list[k]]
      BY <1>1, <1>6 DEF S!Neighbors
    <2>2. peer.link_state_request_list \in [S!Keys -> Nat]
      BY <1>1 DEF S!Neighbors
    <2> QED BY <2>1, <2>2 DEF S!Requested
  <1>9. lsdb'[OwnNetwork] = lsdb[OwnNetwork] /\ lsdb'[OwnRouter] > 0
    <2>1. /\ OwnNetwork \in S!Stored /\ OwnRouter \in S!Stored
          /\ OwnNetwork \notin lsas
      BY <1>4, AdjacencyAssumption, KeysAre DEF Keys, RouterKeys
    <2>2. lsdb \in [S!Stored -> Nat] /\ lsdb[OwnRouter] > 0
      BY <1>1 DEF S!TypeOK, Going, Served
    <2> QED BY <1>6, <2>1, <2>2
  <1>10. toSlave'.dd = toSlave.dd /\ toSlave'.lsr = toSlave.lsr
    BY <1>1, <1>2, TakenIs DEF Types
  <1>11. Exchanging'
    <2>1. /\ Passed(toSlave.dd, toSlave'.dd, MasterDD) /\ Likewise(master, master')
          /\ Passed(toMaster.dd, toMaster'.dd, Reply)
      BY <1>2, <1>10 DEF Passed, Likewise
    <2>2. lsdb'[OwnNetwork] > 0 => peer'.state = "FULL"
      BY <1>3, <1>7, <1>9 DEF Exchanging, Alike
    <2> QED BY <1>3, <1>7, <2>1, <2>2, SameTurn
  <1>12. S!Requested(peer)' \subseteq Theirs
    BY <1>8 DEF Going, Served, S!Requested
  <1>13. Served'
    BY <1>2, <1>6, <1>9, <1>10, <1>12 DEF Going, Served
  <1> QED BY <1>11, <1>13 DEF Going

\* Meeting, the slave declares itself master until it has an offer.
LEMMA OpeningGoes ==
  ASSUME TypeOK, S!ExchangeInv, Served, Meeting, SlaveSends,
         sender = S!At("dd", Master)
  PROVE  Going'
  <1>1. /\ Channel(toSlave) /\ Channel(toMaster) /\ S!TypeOK
        /\ peer \in S!Neighbors /\ nbr[Master] = peer
    BY Parts DEF TypeOK, peer
  <1>2. peer.state = "EXSTART" /\ master.state = "exstart"
    BY DEF S!ExchangeInv, S!TestHolds, peer, Meeting
  <1>3. /\ ~peer.is_master /\ peer.dd_init /\ peer.db_summary_list = <<>>
        /\ peer.db_summary_list \in {<<>>, <<OwnRouter>>}
    BY DEF Meeting
  <1>4. S!ProduceFails(peer) = "no"
    <2>1. ~S!Splits(peer)
      BY <1>3, ShortLists
    <2> QED BY <1>3, <2>1 DEF S!ProduceFails, S!EndsExchange
  <1>5. S!SendDD(Master)
    BY S!AtDiffers, SlaveConstants
       DEF SlaveSends, S!Send, S!SendDD, S!Visit, S!Retransmit, S!SendLSR,
           S!TestLoading, S!AssertLoading, S!LoadingDone, S!At, S!Idle
  <1> DEFINE s == S!Produced(peer)
  <1>6. S!Update(Master, s)
    BY <1>1, <1>4, <1>5 DEF S!SendDD
  <1>7. /\ ShortDD(peer, s.last_dd) /\ s.is_master = peer.is_master
        /\ s.dd_init = peer.dd_init /\ s.adj = peer.adj
        /\ s.dd_recv_no_more = peer.dd_recv_no_more
        /\ s.link_state_request_list = peer.link_state_request_list
        /\ s.state = peer.state /\ s.db_summary_list = peer.db_summary_list
    BY <1>1, <1>3, ProducedShort
  <1> HIDE DEF s
  <1>8. peer' = s /\ halted' = halted /\ lsdb' = lsdb
    BY <1>1, <1>2, <1>6, <1>7, UpdateIs
  <1>9. toMaster' = Sent(toMaster, "dd", <<Reply'>>)
    BY <1>2, <1>7, <1>8 DEF SlaveSends, Served, S!At, Flooded, Reply
  <1>10. Reply' \in DDs /\ Reply' \in Openings
    <2>1. s \in S!Neighbors
      BY <1>1, <1>3, SlaveConstants, S!ProducedType DEF s, S!TypeOK, S!WellFormed, peer
    <2>2. Reply' \in DDs
      BY <1>8, <2>1, WireType DEF Reply
    <2>3. Reply'.hdrs = {} /\ Reply'.ms
      <3>1. s.last_dd.hdrs = <<>> /\ s.last_dd.ms = TRUE
        BY <1>3, <1>7 DEF ShortDD
      <3>2. ToSet(<<>>) = {}
        BY DEF ToSet
      <3>3. Reply'.hdrs = ToSet(s.last_dd.hdrs) /\ Reply'.ms = s.last_dd.ms
        BY <1>8 DEF Reply, OnWire
      <3> QED BY <3>1, <3>2, <3>3
    <2> QED BY <2>2, <2>3 DEF Openings, OwnDDs
  <1>11. /\ Passed(toMaster.dd, toMaster'.dd, Reply')
         /\ toMaster'.lsr = toMaster.lsr
    BY <1>1, <1>9, SentDDIs DEF Passed
  <1>12. Meeting'
    <2>1. Unmet(peer, peer')
      BY <1>7, <1>8 DEF Unmet
    <2>2. /\ UNCHANGED <<master, toSlave>> /\ master.state # "down"
          /\ Likewise(master, master') /\ master'.wants = {}
          /\ Passed(toSlave.dd, toSlave'.dd, MasterDD)
          /\ toSlave'.lsr = <<>> /\ toSlave'.lsu = <<>> /\ toMaster'.lsr = <<>>
      BY <1>2, <1>11 DEF SlaveSends, Likewise, Passed, Meeting
    <2> QED BY <1>8, <1>10, <1>11, <2>1, <2>2, SameMeeting
  <1>13. Served'
    <2>1. S!Requested(peer)' = S!Requested(peer)
      BY <1>7, <1>8 DEF S!Requested
    <2> QED BY <1>8, <1>11, <2>1 DEF Served, SlaveSends
  <1> QED BY <1>12, <1>13 DEF Going

\* Any other step of its send_loop repeats what was told and asks for what is
\* requested, and may end the requests.
LEMMA SendsGoes ==
  ASSUME TypeOK, S!ExchangeInv, Going, SlaveSends,
         ~(Meeting /\ sender = S!At("dd", Master))
  PROVE  Going'
  <1>1. /\ Channel(toSlave) /\ Channel(toMaster) /\ S!TypeOK
        /\ peer \in S!Neighbors /\ nbr[Master] = peer
    BY Parts DEF TypeOK, peer
  <1>2. /\ UNCHANGED <<master, toSlave, restarts, misled>> /\ S!Send
        /\ halted = "no"
    BY DEF SlaveSends, Going, Served
  <1>3. /\ sender = S!At("dd", Master) => peer.state = "EXSTART"
        /\ sender \in {S!At("loading", Master), S!At("done", Master)} =>
              peer.state = "LOADING"
    BY <1>1 DEF S!ExchangeInv, S!TestHolds
  <1>4. sender # S!At("dd", Master)
    BY <1>3 DEF Going, Exchanging, Settled, S!AtLeastExchange
  <1>5. sender.pc # "dd"
    <2>1. sender = S!Idle \/ \E pc \in S!Pcs : sender = S!At(pc, Master)
      BY <1>1 DEF S!TypeOK, S!Senders, S!At
    <2> QED BY <1>4, <2>1 DEF S!Idle, S!At
  <1>6. ~(~peer.is_master /\ peer.state = "EXCHANGE")
    BY DEF Going, Meeting, Exchanging, Settled
  <1>7. Meeting => S!Requested(peer) = {}
    BY DEF Meeting, S!Requested, S!NoRequests
  <1>8. \/ UNCHANGED <<nbr, lsdb, halted>>
        \/ sender = S!At("done", Master) /\ S!LoadingDone(Master)
    BY <1>1, <1>2, <1>3, <1>4
       DEF S!Send, S!Visit, S!SendDD, S!Retransmit, S!SendLSR, S!TestLoading,
           S!AssertLoading, S!LoadingDone
  <1>9. CASE UNCHANGED <<nbr, lsdb, halted>>
    <2>1. toMaster' \in {toMaster, Sent(toMaster, "lsr", <<S!Requested(peer)>>)}
          /\ (S!Requested(peer) = {} => toMaster' = toMaster)
      <3>1. peer' = peer
        BY <1>9 DEF peer
      <3>2. Flooded(peer, peer', toMaster) = toMaster
        BY <3>1 DEF Flooded
      <3> QED BY <1>2, <1>5, <1>6, <1>9, <3>2 DEF SlaveSends
    <2>2. Shrunk(toMaster.dd, toMaster'.dd) /\ Shrunk(toSlave.dd, toSlave'.dd)
      BY <1>1, <1>2, <2>1, SentLSIs DEF Shrunk
    <2>3. toMaster'.lsr \in Seq(SUBSET Theirs)
      <3>1. /\ toMaster.lsr \in Seq(SUBSET Theirs)
            /\ S!Requested(peer) \in SUBSET Theirs
        BY DEF Going, Served
      <3>2. toMaster'.lsr \in {toMaster.lsr, toMaster.lsr \o <<S!Requested(peer)>>}
        BY <1>1, <2>1, SentLSIs
      <3> QED BY <3>1, <3>2, SentOn
    <2>4. Meeting => /\ toSlave'.lsr = <<>> /\ toSlave'.lsu = <<>>
                     /\ toMaster'.lsr = <<>>
      BY <1>2, <1>7, <2>1 DEF Meeting
    <2>5. Likewise(master, master') /\ master'.wants \subseteq master.wants
      BY <1>2 DEF Likewise
    <2>6. toSlave'.lsr \in Seq(SUBSET {OwnRouter})
      BY <1>2 DEF Going, Served
    <2> QED BY <1>2, <1>9, <2>2, <2>3, <2>4, <2>5, <2>6, QuietGoes
  <1>10. CASE sender = S!At("done", Master) /\ S!LoadingDone(Master)
    <2>1. peer.state = "LOADING" /\ Exchanging
      BY <1>3, <1>10 DEF Going, Meeting
    <2>2. /\ peer' = [peer EXCEPT !.state = "FULL"] /\ halted' = "no"
          /\ S!Originate({OwnRouter}, 1)
      BY <1>1, <1>2, <1>10 DEF S!LoadingDone, S!TypeOK, peer
    <2>3. /\ Alike(peer, peer') /\ peer'.state = "FULL"
          /\ peer'.link_state_request_list = peer.link_state_request_list
      BY <1>1, <2>1, <2>2 DEF Alike, S!Neighbors
    <2>4. toMaster' = Flooded(peer, peer', toMaster)
      BY <1>6, <1>10, <2>2 DEF SlaveSends, S!At
    <2>5. toMaster'.dd = toMaster.dd /\ toMaster'.lsr = toMaster.lsr
      <3>1. DOMAIN toMaster = Types
        BY <1>1 DEF Channel, Packets, Types
      <3> QED BY <2>4, <3>1, FloodedIs
    <2>6. Exchanging'
      <3>1. /\ Passed(toSlave.dd, toSlave'.dd, MasterDD)
            /\ Passed(toMaster.dd, toMaster'.dd, Reply)
            /\ Likewise(master, master')
        BY <1>2, <2>5 DEF Passed, Likewise
      <3> QED BY <2>1, <2>3, <3>1, SameTurn
    <2>7. lsdb'[OwnRouter] > 0
      <3>1. OwnRouter \in S!Stored
        BY KeysAre DEF RouterKeys
      <3>2. lsdb' \in [S!Stored -> Nat] /\ lsdb'[OwnRouter] >= lsdb[OwnRouter]
        BY <1>1, <2>2, <3>1, SlaveConstants, S!OriginateType DEF S!TypeOK
      <3> QED BY <1>1, <3>1, <3>2 DEF Going, Served, S!TypeOK
    <2>8. S!Requested(peer)' = S!Requested(peer)
      BY <2>3 DEF S!Requested
    <2>9. Served'
      BY <1>2, <2>2, <2>5, <2>7, <2>8 DEF Going, Served
    <2> QED BY <2>6, <2>9 DEF Going
  <1> QED BY <1>8, <1>9, <1>10

\* The master hears of the slave.
LEMMA HeardGoes ==
  ASSUME TypeOK, Going, MasterHears PROVE Going'
  <1>1. /\ UNCHANGED <<nbr, lsdb, halted, misled, toSlave, toMaster>>
        /\ peer' = peer /\ master \in Masters
    BY Parts DEF MasterHears, slave, peer
  <1>2. CASE master' = master
    <2>1. /\ Likewise(master, master') /\ master'.wants \subseteq master.wants
          /\ Shrunk(toSlave.dd, toSlave'.dd) /\ Shrunk(toMaster.dd, toMaster'.dd)
      BY <1>1, <1>2 DEF Likewise, Shrunk
    <2>2. Meeting => /\ toSlave'.lsr = <<>> /\ toSlave'.lsu = <<>>
                     /\ toMaster'.lsr = <<>>
      BY <1>1 DEF Meeting
    <2>3. /\ toSlave'.lsr \in Seq(SUBSET {OwnRouter})
          /\ toMaster'.lsr \in Seq(SUBSET Theirs)
      BY <1>1 DEF Going, Served
    <2> QED BY <1>1, <2>1, <2>2, <2>3, QuietGoes
  <1>3. CASE master' # master
    <2>1. Meeting
      BY <1>3 DEF MasterHears, Going, Exchanging, Settled, S!AtLeastExchange,
                  Behind, Ahead, Done
    <2>2. peer.state = "NONE" => master.state = "down"
      BY <2>1 DEF Meeting
    <2>3. peer.state # "NONE" /\ master.state = "down" /\ master' = Again
      BY <1>3, <2>2 DEF MasterHears
    <2>4. /\ master'.state = "exstart" /\ master'.left = Told
          /\ master'.wants = {}
      BY <2>3 DEF Again, Exstart
    <2>5. toSlave.dd = <<>> /\ toMaster.dd = <<>> /\ peer.state = "INIT"
      BY <2>1, <2>3 DEF Meeting
    <2>6. /\ toSlave'.dd \in Seq({MasterDD'})
          /\ toMaster'.dd \in Seq(Openings')
      BY <1>1, <2>5
    <2>7. Meeting'
      BY <1>1, <2>1, <2>4, <2>5, <2>6 DEF Meeting
    <2>8. Served'
      BY <1>1, <2>4 DEF Going, Served
    <2> QED BY <2>7, <2>8 DEF Going
  <1> QED BY <1>2, <1>3

LEMMA ReplyIs ==
  ASSUME TypeOK, S!ExchangeInv, Exchanging
  PROVE  /\ Reply \in OwnDDs /\ ~Reply.ms /\ ~Reply.i /\ ~Reply.m
         /\ Reply.seq = peer.dd_seq_num
  <1>1. peer \in S!Neighbors /\ Settled(peer)
    BY Parts DEF Exchanging
  <1>2. Reply \in OwnDDs
    BY <1>1, WireType DEF Reply, OwnDDs, Settled, OnWire
  <1>3. S!EchoSeq /\ peer.is_master /\ peer.state \in S!AtLeastExchange
    BY <1>1, SlaveConstants, S!ReplyInvImplies DEF S!ExchangeInv, Settled
  <1>4. /\ ~peer.last_dd.ms /\ ~peer.last_dd.i
        /\ peer.last_dd.seq = peer.dd_seq_num
    BY <1>3 DEF S!EchoSeq, peer
  <1>5. /\ Reply.ms = peer.last_dd.ms /\ Reply.i = peer.last_dd.i
        /\ Reply.m = peer.last_dd.m /\ Reply.seq = peer.last_dd.seq
    BY DEF Reply, OnWire
  <1> QED BY <1>1, <1>2, <1>4, <1>5 DEF Settled

\* A DD that the master does not wait for is taken and no more.
LEMMA IgnoredGoes ==
  ASSUME TypeOK, Going, MasterTakesDD, master' = master PROVE Going'
  <1>1. /\ UNCHANGED <<nbr, lsdb, halted, misled, toSlave>>
        /\ toMaster' = Taken(toMaster, "dd") /\ toMaster.dd # <<>>
        /\ Channel(toMaster)
    BY Parts DEF MasterTakesDD, slave
  <1>2. /\ Shrunk(toMaster.dd, toMaster'.dd) /\ toMaster'.lsr = toMaster.lsr
        /\ Shrunk(toSlave.dd, toSlave'.dd)
    BY <1>1, TakenIs DEF Types, Shrunk
  <1>3. Likewise(master, master') /\ master'.wants \subseteq master.wants
    BY DEF Likewise
  <1>4. Meeting => /\ toSlave'.lsr = <<>> /\ toSlave'.lsu = <<>>
                   /\ toMaster'.lsr = <<>>
    BY <1>1, <1>2 DEF Meeting
  <1>5. /\ toSlave'.lsr \in Seq(SUBSET {OwnRouter})
        /\ toMaster'.lsr \in Seq(SUBSET Theirs)
    BY <1>1, <1>2 DEF Going, Served
  <1> QED BY <1>1, <1>2, <1>3, <1>4, <1>5, QuietGoes

\* The master's turn: it goes on to the next DD, or ends the exchange.
LEMMA MasterGoes ==
  ASSUME TypeOK, S!ExchangeInv, Served, Exchanging, Ahead, MasterTakesDD,
         toMaster.dd \in Seq({Reply})
  PROVE  /\ Going'
         /\ master'.state = "done" => peer.state # "EXCHANGE"
  <1> DEFINE p == Head(toMaster.dd)
             heard == [master EXCEPT !.state = "exchange",
                                     !.wants = @ \cup (p.hdrs \ Theirs),
                                     !.seq = (@ + 1) % SeqSpace]
             done == [heard EXCEPT !.state = "done", !.seq = master.seq]
             next == [heard EXCEPT !.left = IF @ = <<>> THEN @ ELSE Tail(@)]
  <1>1. /\ UNCHANGED <<nbr, lsdb, halted, misled, toSlave, restarts>>
        /\ toMaster' = Taken(toMaster, "dd") /\ toMaster.dd # <<>>
        /\ Channel(toSlave) /\ Channel(toMaster) /\ master \in Masters
        /\ peer' = peer /\ peer \in S!Neighbors /\ MasterDD \in DDs
        /\ toSlave.dd \in Seq({MasterDD})
    BY Parts, MasterTypes DEF MasterTakesDD, slave, peer, Ahead
  <1>2. p = Reply /\ Tail(toMaster.dd) \in Seq({Reply})
    BY <1>1, HeadOf
  <1>3. /\ ~p.ms /\ ~p.i /\ ~p.m /\ p.seq = master.seq
        /\ p.hdrs \subseteq {OwnRouter}
    BY <1>2, ReplyIs DEF Ahead, OwnDDs
  <1>4. master' = CASE master.state = "exstart" -> heard
                    [] master.state = "exchange" /\ AtLast -> done
                    [] master.state = "exchange" /\ ~AtLast -> next
    <2>1. CASE master.state = "exstart"
      BY <1>3, <2>1 DEF MasterTakesDD
    <2>2. CASE master.state = "exchange"
      <3>1. master' = IF Len(master.left) <= 1 /\ ~p.m THEN done ELSE next
        BY <1>3, <2>2 DEF MasterTakesDD
      <3> HIDE DEF p, done, next
      <3>2. master' = IF AtLast THEN done ELSE next
        BY <1>3, <3>1 DEF AtLast
      <3> QED BY <2>2, <3>2
    <2> QED BY <2>1, <2>2 DEF Ahead
  <1>5. heard.wants \subseteq {OwnRouter}
    BY <1>1, <1>3 DEF Served, Masters
  <1> HIDE DEF p
  <1>6. toMaster'.dd \in Seq({Reply}) /\ toMaster'.lsr = toMaster.lsr
    BY <1>1, <1>2, TakenIs DEF Types
  <1>7. Reply' = Reply /\ Settled(peer)' /\ Repeated' = Repeated
        /\ (lsdb[OwnNetwork] > 0 => peer.state = "FULL")'
    BY <1>1 DEF Reply, Exchanging, Settled, Repeated
  <1>8. master'.wants \subseteq {OwnRouter} => Served'
    BY <1>1, <1>6 DEF Served
  <1>9. ASSUME master' \in {heard, next}, peer.state = "EXCHANGE",
               master'.left = Rest
        PROVE  Going'
    <2>1. /\ master'.state = "exchange" /\ master'.wants = heard.wants
          /\ master'.seq = (master.seq + 1) % SeqSpace
      BY <1>1, <1>9 DEF Masters
    <2>2. InTurn(toSlave.dd, Repeated, {MasterDD'})
      <3>1. MasterDD \in Repeated
        BY <1>1, MasterDDIs DEF Repeated, Ahead
      <3>2. toSlave.dd \in Seq(Repeated)
        BY <1>1, <3>1
      <3> QED BY <3>2, InTurnSent
    <2>3. Behind'
      BY <1>1, <1>6, <1>7, <1>9, <2>1, <2>2 DEF Behind, Ahead
    <2>4. Served'
      BY <1>5, <1>8, <2>1
    <2> QED BY <1>7, <2>3, <2>4 DEF Going, Exchanging
  <1>10. CASE master.state = "exstart"
    <2>1. heard.left = Rest
      BY <1>1, <1>10 DEF Rest, Masters
    <2>2. master' = heard /\ peer.state = "EXCHANGE"
      BY <1>4, <1>10 DEF Ahead
    <2>3. heard.state = "exchange"
      BY <1>1 DEF Masters
    <2> QED BY <1>9, <2>1, <2>2, <2>3
  <1>11. CASE master.state = "exchange" /\ ~AtLast
    <2>1. next.left = Rest
      BY <1>1, <1>11 DEF Rest, Masters
    <2>2. master' = next /\ peer.state = "EXCHANGE"
      BY <1>4, <1>11 DEF Ahead
    <2>3. next.state = "exchange"
      BY <1>1 DEF Masters
    <2> QED BY <1>9, <2>1, <2>2, <2>3
  <1>12. CASE master.state = "exchange" /\ AtLast
    <2>1. /\ master' = done /\ peer.state # "EXCHANGE"
      BY <1>4, <1>12 DEF Ahead
    <2>2. /\ done.state = "done" /\ done.wants = heard.wants
          /\ done.seq = master.seq /\ done.left = master.left
      BY <1>1 DEF Masters
    <2>3. ToSet(Rest) = {}
      <3>1. Rest = <<>>
        <4>1. CASE master.left = <<>>
          BY <1>12, <4>1 DEF Rest
        <4>2. CASE master.left # <<>>
          <5> DEFINE l == master.left
          <5>1. l \in Seq(Theirs) /\ l # <<>> /\ Len(l) <= 1
            BY <1>1, <1>12, <4>2 DEF AtLast, Masters
          <5> HIDE DEF l
          <5>2. /\ Tail(l) \in Seq(Theirs) /\ Len(Tail(l)) = Len(l) - 1
                /\ Len(l) \in Nat
            BY <5>1, HeadOf
          <5>3. Len(Tail(l)) \in Nat
            BY <5>2
          <5>4. Len(Tail(l)) = 0
            BY <5>1, <5>2, <5>3
          <5>5. Tail(l) = <<>>
            BY <5>2, <5>4, EmptySeq
          <5> QED BY <1>12, <4>2, <5>5 DEF Rest, l
        <4> QED BY <4>1, <4>2
      <3> QED BY <3>1 DEF ToSet
    <2>4. MasterDD' = MasterDD
      BY <1>12, <2>1, <2>2 DEF MasterDD
    <2>5. Done'
      BY <1>1, <1>6, <1>7, <2>1, <2>2, <2>3, <2>4 DEF Done, Ahead
    <2>6. Served'
      BY <1>5, <1>8, <2>1, <2>2
    <2> QED BY <1>7, <2>1, <2>5, <2>6 DEF Going, Exchanging
  <1> QED BY <1>10, <1>11, <1>12 DEF Ahead

LEMMA MasterTakesGoes ==
  ASSUME TypeOK, S!ExchangeInv, Going, MasterTakesDD
  PROVE  /\ Going'
         /\ master'.state = "done" /\ master.state # "done"
              => peer.state # "EXCHANGE"
  <1> DEFINE p == Head(toMaster.dd)
  <1>1. /\ toMaster.dd # <<>> /\ toMaster.dd \in Seq(DDs) /\ master \in Masters
        /\ peer \in S!Neighbors
    BY Parts DEF MasterTakesDD, TypeOK, Packets
  <1>2. ASSUME master' = master
        PROVE  /\ Going'
               /\ ~(master'.state = "done" /\ master.state # "done")
    BY <1>2, IgnoredGoes
  <1>3. CASE Meeting
    <2>1. p.ms /\ master.state = "exstart"
      BY <1>1, <1>3, HeadOf DEF Meeting, Openings
    <2>2. master' = master
      BY <2>1 DEF MasterTakesDD
    <2> QED BY <1>2, <2>2
  <1>4. ASSUME Exchanging PROVE toMaster.dd \in Seq({Reply}) =>
                                  p = Reply /\ ~p.ms /\ ~p.i
                                  /\ p.seq = peer.dd_seq_num
    BY <1>1, <1>4, ReplyIs, HeadOf
  <1>5. CASE Exchanging /\ Behind
    <2>1. ~p.ms /\ ~p.i /\ p.seq = peer.dd_seq_num /\ master.state = "exchange"
      BY <1>4, <1>5 DEF Behind
    <2>2. peer.dd_seq_num \in 0 .. SeqSpace - 1
      BY <1>1, SlaveSeqNums DEF S!Neighbors
    <2>3. (p.seq + 1) % SeqSpace = master.seq /\ p.seq # master.seq
      BY <1>5, <2>1, <2>2, NextSeq DEF Behind
    <2>4. master' = master
      BY <2>1, <2>3 DEF MasterTakesDD
    <2> QED BY <1>2, <2>4
  <1>6. CASE Exchanging /\ Ahead /\ toMaster.dd \in Seq({Reply})
    BY <1>6, MasterGoes DEF Going
  <1>7. CASE Exchanging /\ Ahead /\ toMaster.dd \notin Seq({Reply})
    <2>1. p \in IF master.state = "exstart" THEN Openings ELSE Answered
      BY <1>1, <1>7, InTurnHead DEF Ahead
    <2>2. CASE master.state = "exstart"
      <3>1. p.ms
        BY <2>1, <2>2 DEF Openings
      <3>2. master' = master
        BY <2>2, <3>1 DEF MasterTakesDD
      <3> QED BY <1>2, <3>2
    <2>3. CASE master.state = "exchange"
      <3>1. /\ ~p.ms /\ ~p.i /\ (p.seq + 1) % SeqSpace = master.seq
            /\ p.seq \in 0 .. SeqSpace - 1
        BY <2>1, <2>3 DEF Answered, OwnDDs, DDs
      <3>2. p.seq # master.seq
        BY <3>1, NextSeq
      <3>3. master' = master
        BY <2>3, <3>1, <3>2 DEF MasterTakesDD
      <3> QED BY <1>2, <3>3
    <2> QED BY <1>7, <2>2, <2>3 DEF Ahead
  <1>8. CASE Exchanging /\ Done
    <2>1. ~p.ms /\ ~p.i /\ p.seq = master.seq /\ master.state = "done"
      BY <1>4, <1>8 DEF Done
    <2>2. master' = master
      BY <2>1 DEF MasterTakesDD
    <2> QED BY <1>2, <2>2
  <1> QED BY <1>3, <1>5, <1>6, <1>7, <1>8 DEF Going, Exchanging

\* A step of anyone but a restart.
LEMMA StepGoes ==
  ASSUME TypeOK, S!ExchangeInv, Going, Next, ~RestartSlave, ~RestartMaster
  PROVE  /\ Going'
         /\ master'.state = "done" /\ master.state # "done"
              => peer.state # "EXCHANGE"
  <1>1. CASE SlaveReceives \/ SlaveSends
    <2>1. master' = master
      BY <1>1 DEF SlaveReceives, HearHello, TakeDD, TakeLSR, TakeLSU, SlaveSends
    <2>2. Going'
      BY <1>1, HelloGoes, TakeDDGoes, ServedGoes, UpdatedGoes, OpeningGoes,
         SendsGoes DEF SlaveReceives, Going
    <2> QED BY <2>1, <2>2
  <1>2. CASE MasterTakesDD
    BY <1>2, MasterTakesGoes
  <1>3. CASE MasterHears
    <2>1. master'.state # "done" \/ master' = master
      BY <1>3 DEF MasterHears, Again, Down, Exstart
    <2> QED BY <1>3, <2>1, HeardGoes
  <1>4. CASE MasterSendsDD
    BY <1>4, OfferedGoes DEF MasterSendsDD
  <1>5. CASE MasterSendsLSR
    BY <1>5, AskedGoes DEF MasterSendsLSR
  <1>6. CASE MasterTakesLSR
    <2>1. master'.state # "done" \/ master' = master
      BY <1>6 DEF MasterTakesLSR, Again, Exstart
    <2> QED BY <1>6, <2>1, AnsweredGoes
  <1>7. CASE MasterTakesLSU
    <2>1. master \in Masters
      BY Parts
    <2>2. master'.state = master.state
      BY <1>7, <2>1 DEF MasterTakesLSU, Masters
    <2> QED BY <1>7, <2>2, LearntGoes
  <1>8. ASSUME NEW type \in Types, Lose(type)
        PROVE  Going' /\ master' = master
    BY <1>8, LoseGoes DEF Lose
  <1> QED BY <1>1, <1>2, <1>3, <1>4, <1>5, <1>6, <1>7, <1>8 DEF Next, MasterActs

LEMMA StutterGoes ==
  ASSUME TypeOK, Going, UNCHANGED vars PROVE Going'
  <1>1. /\ UNCHANGED <<nbr, lsdb, halted, misled>>
        /\ UNCHANGED <<master, toSlave, toMaster>>
    BY DEF vars, slave
  <1>2. /\ Likewise(master, master') /\ master'.wants \subseteq master.wants
        /\ Shrunk(toSlave.dd, toSlave'.dd) /\ Shrunk(toMaster.dd, toMaster'.dd)
    BY <1>1 DEF Likewise, Shrunk
  <1>3. Meeting => /\ toSlave'.lsr = <<>> /\ toSlave'.lsu = <<>>
                   /\ toMaster'.lsr = <<>>
    BY <1>1 DEF Meeting
  <1>4. /\ toSlave'.lsr \in Seq(SUBSET {OwnRouter})
        /\ toMaster'.lsr \in Seq(SUBSET Theirs)
    BY <1>1 DEF Going, Served
  <1> QED BY <1>1, <1>2, <1>3, <1>4, QuietGoes

LEMMA InitGoes == Init => Going
  <1> SUFFICES ASSUME Init PROVE Going
    OBVIOUS
  <1>1. PICK seq \in S!SeqNums : peer = S!NewNeighbor(seq)
    BY DEF Init, Fresh, peer
  <1>2. /\ peer.state = "NONE" /\ peer.adj = FALSE /\ peer.is_master = FALSE
        /\ peer.dd_init = TRUE /\ peer.dd_recv_no_more = FALSE
        /\ peer.db_summary_list = <<>>
        /\ peer.link_state_request_list = S!NoRequests
    BY <1>1 DEF S!NewNeighbor
  <1>3. /\ toSlave = [type \in Types |-> <<>>] /\ toMaster = toSlave
        /\ toSlave.dd = <<>> /\ toSlave.lsr = <<>> /\ toSlave.lsu = <<>>
        /\ toMaster.dd = <<>> /\ toMaster.lsr = <<>>
    BY DEF Init, Types
  <1>4. /\ master.state = "down" /\ master.left = Told /\ master.wants = {}
        /\ lsdb = OwnOnly /\ halted = "no" /\ ~misled
    BY DEF Init, Down, Exstart
  <1>5. lsdb[OwnRouter] > 0
    <2>1. OwnRouter \in S!Stored
      BY KeysAre DEF RouterKeys
    <2> QED BY <1>4, <2>1 DEF OwnOnly
  <1>6. S!Requested(peer) = {}
    BY <1>2 DEF S!Requested, S!NoRequests
  <1>7. peer.adj = (peer.state # "NONE")
    BY <1>2
  <1>8. Meeting
    BY <1>2, <1>3, <1>4, <1>7 DEF Meeting
  <1>9. <<>> \in Seq(SUBSET {OwnRouter}) /\ <<>> \in Seq(SUBSET Theirs)
    OBVIOUS
  <1>10. /\ toSlave.lsr \in Seq(SUBSET {OwnRouter})
         /\ toMaster.lsr \in Seq(SUBSET Theirs)
    BY <1>3, <1>9
  <1>11. /\ master.wants \subseteq {OwnRouter}
         /\ S!Requested(peer) \subseteq Theirs
    BY <1>4, <1>6
  <1>12. Served
    BY <1>4, <1>5, <1>10, <1>11 DEF Served
  <1> QED BY <1>8, <1>12 DEF Going

LEMMA NoRestart ==
  ASSUME TypeOK, Next, restarts' = 0
  PROVE  restarts = 0 /\ ~RestartSlave /\ ~RestartMaster
  <1>1. restarts \in Nat
    <2>1. restarts \in 0 .. MaxRestarts /\ MaxRestarts \in Nat
      BY AdjacencyAssumption DEF TypeOK
    <2> QED BY <2>1
  <1>2. RestartSlave \/ RestartMaster => restarts' = restarts + 1
    BY DEF RestartSlave, RestartMaster
  <1>3. ~RestartSlave /\ ~RestartMaster
    BY <1>1, <1>2
  <1>4. restarts' = restarts
    BY <1>3 DEF Next, SlaveReceives, HearHello, TakeDD, TakeLSR, TakeLSU,
                SlaveSends, MasterActs, MasterHears, MasterSendsDD,
                MasterTakesDD, MasterSendsLSR, MasterTakesLSR, MasterTakesLSU,
                Lose
  <1> QED BY <1>3, <1>4

LEMMA FirstNext ==
  ASSUME TypeOK, S!ExchangeInv, First, [Next]_vars
  PROVE  /\ First'
         /\ restarts' = 0 /\ master'.state = "done" /\ master.state # "done"
              => peer.state # "EXCHANGE"
  <1>1. CASE Next
    BY <1>1, NoRestart, StepGoes DEF First
  <1>2. CASE UNCHANGED vars
    <2>1. UNCHANGED <<restarts, master>>
      BY <1>2 DEF vars
    <2> QED BY <1>2, <2>1, StutterGoes DEF First
  <1> QED BY <1>1, <1>2

LEMMA FirstHolds == Spec => [](TypeOK /\ S!ExchangeInv /\ First)
  <1>1. Init => TypeOK /\ S!ExchangeInv /\ First
    BY InitType, InitGoes DEF First
  <1>2. TypeOK /\ S!ExchangeInv /\ First /\ [Next]_vars
          => (TypeOK /\ S!ExchangeInv /\ First)'
    BY FirstNext, NextType, SlaveNext, StutterType
  <1> QED BY <1>1, <1>2, PTL DEF Spec

-----------------------------------------------------------------------------
(* Theorems.                                                               *)

\* Every variable has its type: whatever is lost or comes late, the channels
\* hold what the two routers may have sent and never more than there is room
\* for.
THEOREM TypeCorrect == Spec => []TypeOK
  BY Typed, PTL

\* The router of this model is the one of Exchange: each step of the slave is
\* one of its steps with well formed packets, or a start.
THEOREM SlaveIsExchange == Spec => [][S!Next \/ RestartSlave]_slave
  <1>1. TypeOK /\ [Next]_vars => [S!Next \/ RestartSlave]_slave
    <2> SUFFICES ASSUME TypeOK, [Next]_vars
                 PROVE  [S!Next \/ RestartSlave]_slave
      OBVIOUS
    <2>1. CASE Next
      BY <2>1, SlaveSteps
    <2>2. CASE UNCHANGED vars
      BY <2>2 DEF vars
    <2> QED BY <2>1, <2>2
  <1> QED BY <1>1, Typed, PTL DEF Spec

\* No assertion fails in the first adjacency of two routers, however many
\* LSAs they tell and however many packets are lost: process_dd, produce_dd
\* and process_lsr are only called with what they expect.
THEOREM NothingFails == Spec => []NoFailure
  <1>1. First => NoFailure
    BY DEF First, Going, Served, NoFailure
  <1> QED BY <1>1, FirstHolds, PTL

\* In it, FULL on both sides means that the slave has all the master told.
THEOREM FirstSynced == Spec => [](restarts = 0 => Synced)
  <1>1. TypeOK /\ S!ExchangeInv /\ First => (restarts = 0 => Synced)
    <2> SUFFICES ASSUME TypeOK, S!ExchangeInv, Going, Full
                 PROVE  Theirs \subseteq S!InDb
      BY DEF First, Synced
    <2>1. Theirs \subseteq peer.listed
      BY DEF Going, Full, Meeting, Exchanging, Behind, Ahead, Done
    <2>2. peer.listed \subseteq S!InDb
      BY DEF S!ExchangeInv, S!Drained, Full, peer
    <2> QED BY <2>1, <2>2
  <1> QED BY <1>1, FirstHolds, PTL

\* In it, the slave ends the exchange before the master does.
THEOREM FirstSlaveFirst ==
  Spec => [][restarts' = 0 /\ master'.state = "done" /\ master.state # "done"
             => peer.state # "EXCHANGE"]_vars
  <1>1. TypeOK /\ S!ExchangeInv /\ First /\ [Next]_vars =>
          [restarts' = 0 /\ master'.state = "done" /\ master.state # "done"
           => peer.state # "EXCHANGE"]_vars
    BY FirstNext
  <1> QED BY <1>1, FirstHolds, PTL DEF Spec

=============================================================================
