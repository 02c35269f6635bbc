----------------------------- MODULE Adjacency -----------------------------
(***************************************************************************)
(* The router of Exchange as a slave, together with its master: another    *)
(* router, with a higher router ID, that keeps to RFC 2328 and does not    *)
(* run this program.  Packets of one type stay in order and may be lost.   *)
(* Either router may be started again.                                     *)
(*                                                                         *)
(* What the slave sends is what produce_dd, process_lsr, produce_lsr and   *)
(* flood_lsa give to send_packet.  Hellos come at any time and list a      *)
(* neighbour once it was heard of.  The DR is elected, and is one of the   *)
(* two, so that they are to be adjacent; both have a Router-LSA of their   *)
(* own.                                                                    *)
(***************************************************************************)
EXTENDS Integers, FiniteSets, SequencesExt

CONSTANTS
    OwnRouter,   \* key of the slave's Router-LSA
    OwnNetwork,  \* key of the slave's Network-LSA
    Theirs,      \* keys of the master's Router-LSAs
    Told,        \* the same in the order it tells them, one a DD
    MaxHdr,      \* dd_max_lsahdr_num
    SeqSpace,    \* DD sequence numbers are modulo this
    MaxFlight,   \* bound: packets of one type on their way to one router
    MaxRestarts  \* bound: how often a router is started again

RouterKeys == {OwnRouter} \cup Theirs
Keys == RouterKeys \cup {OwnNetwork}
Master == "master"

\* A DD as its receiver reads it.
DDs == [ms : BOOLEAN, m : BOOLEAN, i : BOOLEAN, seq : 0 .. SeqSpace - 1,
        options : {2}, hdrs : SUBSET Keys]

ASSUME AdjacencyAssumption ==
    /\ OwnRouter \notin Theirs /\ OwnNetwork \notin RouterKeys
    /\ Told \in Seq(Theirs) /\ ToSet(Told) = Theirs
    /\ SeqSpace \in Nat \ {0, 1} /\ MaxHdr \in Nat \ {0}
    /\ MaxFlight \in Nat \ {0} /\ MaxRestarts \in Nat

VARIABLES
    nbr, lsdb, amDR, sender, halted,  \* the slave, see Exchange
    master,                           \* the master
    toSlave, toMaster,                \* packets on their way, by type
    restarts,                         \* how often a router started again
    misled                            \* history: the slave took some other DD
                                      \* of the master for its offer

slave == <<nbr, lsdb, amDR, sender, halted>>
vars == <<slave, master, toSlave, toMaster, restarts, misled>>

\* The router of Exchange, with what is proved of it.  A handler is one step
\* here: no thread is ever inside produce_dd.
S == INSTANCE ExchangeProofs WITH
        Nbr <- {Master}, HigherNbr <- {Master}, NetworkKeys <- {OwnNetwork},
        SummaryKeys <- {}, OtherKeys <- {}, Options <- {2},
        LsId <- [k \in Keys |-> k],
        Packets <- DDs, Asks <- SUBSET Keys, Updates <- SUBSET Keys,
        MaxInst <- 1, MaxRequest <- 1, MaxSummary <- Cardinality(RouterKeys) + 1,
        making <- [t \in {"recv", "send"} |-> [pc |-> "away"]]

peer == nbr[Master]

-----------------------------------------------------------------------------
(* Packets.                                                                *)

Types == {"dd", "lsr", "lsu"}

\* Mutant: there is always room.
SentUnbounded(net, type, packets) == [net EXCEPT ![type] = @ \o packets]
\* A packet that finds no room is lost.
Sent(net, type, packets) ==
    [net EXCEPT ![type] =
        IF Len(@ \o packets) <= MaxFlight THEN @ \o packets ELSE @]
Taken(net, type) == [net EXCEPT ![type] = Tail(@)]

OnWire(dd) ==
    [ms |-> dd.ms, m |-> dd.m, i |-> dd.i, seq |-> dd.seq, options |-> 2,
     hdrs |-> ToSet(dd.hdrs)]

\* Mutant: a duplicate is dropped, as by a master.
AnswersOnce(r, s, p) ==
    /\ s.is_master /\ s.state \in S!AtLeastExchange
    /\ r.recv_dd_seq_num # p.seq
\* Does the slave answer DD p, which takes what it keeps of the master from r
\* to s?  Not after the exchange, unless p is a duplicate.
Answers(r, s, p) ==
    /\ s.is_master /\ s.state \in S!AtLeastExchange
    /\ r.state \in {"LOADING", "FULL"} => r.recv_dd_seq_num = p.seq

\* Does p open a session without being an offer, or open and end it at once?
Misleads(r, s, p) ==
    /\ r.state \notin S!AtLeastExchange /\ s.state \in S!AtLeastExchange
    /\ ~p.i \/ s.state # "EXCHANGE"

\* What it sends for reaching FULL: its new Router-LSA, unless it is the DR.
\* flood_lsa sends to every interface that is not.
Flooded(r, s, net) ==
    IF s.state = "FULL" /\ r.state # "FULL" /\ ~amDR
    THEN Sent(net, "lsu", <<{OwnRouter}>>) ELSE net

-----------------------------------------------------------------------------
(* The slave.                                                              *)

HearHello ==
    /\ S!ReceiveHello(Master, master.state # "down", TRUE, 0, FALSE)
    /\ UNCHANGED <<master, toSlave, toMaster, restarts, misled>>

TakeDD ==
    /\ toSlave.dd # <<>>
    /\ LET p == Head(toSlave.dd) IN
       /\ S!FromUnknown(Master) \/ S!ReceiveDD(Master, p)
       /\ toMaster' =
             IF halted' = "no" /\ Answers(peer, peer', p)
             THEN Flooded(peer, peer',
                          Sent(toMaster, "dd", <<OnWire(peer'.last_dd)>>))
             ELSE toMaster
       /\ misled' = (misled \/ Misleads(peer, peer', p))
    /\ toSlave' = Taken(toSlave, "dd")
    /\ UNCHANGED <<master, restarts>>

TakeLSR ==
    /\ toSlave.lsr # <<>>
    /\ LET asked == Head(toSlave.lsr) IN
       /\ \/ S!FromUnknown(Master)
          \/ S!LSRAnswered(Master, asked)
          \/ S!BadLSReq(Master, asked)
       /\ toMaster' = IF halted' = "no" /\ peer.state \in S!AtLeastExchange
                      THEN Sent(toMaster, "lsu", <<asked>>) ELSE toMaster
    /\ toSlave' = Taken(toSlave, "lsr")
    /\ UNCHANGED <<master, restarts, misled>>

TakeLSU ==
    /\ toSlave.lsu # <<>>
    /\ LET lsas == Head(toSlave.lsu) IN
       \/ S!FromUnknown(Master)
       \/ \E newer \in SUBSET lsas : S!ReceiveLSU(Master, lsas, newer)
    /\ toSlave' = Taken(toSlave, "lsu")
    /\ UNCHANGED <<master, toMaster, restarts, misled>>

SlaveSends ==
    /\ S!Send
    /\ toMaster' =
          IF halted' # "no" THEN toMaster ELSE
          CASE sender.pc = "dd" ->
                  Flooded(peer, peer',
                          Sent(toMaster, "dd", <<OnWire(peer'.last_dd)>>))
            [] sender.pc = "rxmt" /\ ~peer.is_master /\ peer.state = "EXCHANGE" ->
                  Sent(toMaster, "dd", <<OnWire(peer.last_dd)>>)
            [] sender.pc = "lsr" /\ S!Requested(peer) # {} ->
                  Sent(toMaster, "lsr", <<S!Requested(peer)>>)
            [] OTHER -> Flooded(peer, peer', toMaster)
    /\ UNCHANGED <<master, toSlave, restarts, misled>>

-----------------------------------------------------------------------------
(* The master, by RFC 2328, sections 10.3 to 10.9.                         *)

\* left: what it has still to tell, the head first, from the DD it sends now
\* on; wants: what it has to request; knows: the slave's LSAs it has.
Exstart(seq) ==
    [state |-> "exstart", seq |-> seq, left |-> Told, wants |-> {}]
Down(seq) == [Exstart(seq) EXCEPT !.state = "down"]

\* Every session has a new number.
Again == Exstart((master.seq + 1) % SeqSpace)

MasterDD ==
    [ms |-> TRUE, i |-> master.state = "exstart", seq |-> master.seq,
     options |-> 2,
     m |-> master.state = "exstart" \/ Len(master.left) > 1,
     hdrs |-> IF master.state = "exstart" \/ master.left = <<>> THEN {}
              ELSE {Head(master.left)}]

\* A Hello of the slave that lists the master, or does not.
MasterHears ==
    /\ halted = "no" /\ sender = S!Idle
    /\ master' = CASE peer.state # "NONE" /\ master.state = "down" -> Again
                   [] peer.state = "NONE" /\ master.state # "down" ->
                         Down(master.seq)
                   [] OTHER -> master
    /\ UNCHANGED <<slave, toSlave, toMaster, restarts, misled>>

\* An offer until it is accepted, a DD until it is answered.
MasterSendsDD ==
    /\ master.state \in {"exstart", "exchange"}
    /\ toSlave' = Sent(toSlave, "dd", <<MasterDD>>)
    /\ UNCHANGED <<slave, master, toMaster, restarts, misled>>

MasterTakesDD ==
    /\ toMaster.dd # <<>>
    /\ LET p == Head(toMaster.dd)
           heard == [master EXCEPT !.state = "exchange",
                                   !.wants = @ \cup (p.hdrs \ Theirs),
                                   !.seq = (@ + 1) % SeqSpace]
       IN
       master' =
          CASE master.state = "exstart" /\ ~p.ms /\ ~p.i /\ p.seq = master.seq ->
                  heard
            [] master.state = "exchange" /\ ~p.ms /\ ~p.i /\ p.seq = master.seq ->
                  IF Len(master.left) <= 1 /\ ~p.m
                  THEN [heard EXCEPT !.state = "done", !.seq = master.seq]
                  ELSE [heard EXCEPT !.left = IF @ = <<>> THEN @ ELSE Tail(@)]
            [] master.state = "exchange"
               /\ (p.ms \/ p.i \/ (p.seq # master.seq
                                   /\ (p.seq + 1) % SeqSpace # master.seq)) -> Again
            [] master.state = "done" /\ (p.ms \/ p.i \/ p.seq # master.seq) -> Again
            [] OTHER -> master
    /\ toMaster' = Taken(toMaster, "dd")
    /\ UNCHANGED <<slave, toSlave, restarts, misled>>

MasterSendsLSR ==
    /\ master.state \in {"exchange", "done"} /\ master.wants # {}
    /\ toSlave' = Sent(toSlave, "lsr", <<master.wants>>)
    /\ UNCHANGED <<slave, master, toMaster, restarts, misled>>

MasterTakesLSR ==
    /\ toMaster.lsr # <<>>
    /\ IF master.state \in {"exchange", "done"}
       THEN IF Head(toMaster.lsr) \subseteq Theirs
            THEN /\ toSlave' = Sent(toSlave, "lsu", <<Head(toMaster.lsr)>>)
                 /\ UNCHANGED master
            ELSE master' = Again /\ UNCHANGED toSlave
       ELSE UNCHANGED <<master, toSlave>>
    /\ toMaster' = Taken(toMaster, "lsr")
    /\ UNCHANGED <<slave, restarts, misled>>

MasterTakesLSU ==
    /\ toMaster.lsu # <<>>
    /\ master' = [master EXCEPT !.wants = @ \ Head(toMaster.lsu)]
    /\ toMaster' = Taken(toMaster, "lsu")
    /\ UNCHANGED <<slave, toSlave, restarts, misled>>

-----------------------------------------------------------------------------
(* Both, and the network.                                                  *)

Lose(type) ==
    /\ \/ toSlave[type] # <<>>
          /\ toSlave' = Taken(toSlave, type) /\ UNCHANGED toMaster
       \/ toMaster[type] # <<>>
          /\ toMaster' = Taken(toMaster, type) /\ UNCHANGED toSlave
    /\ UNCHANGED <<slave, master, restarts, misled>>

\* The slave as it starts: it has met no neighbour.
Fresh == [{Master} -> {S!NewNeighbor(seq) : seq \in S!SeqNums}]
OwnOnly == [k \in S!Stored |-> IF k = OwnRouter THEN 1 ELSE 0]

RestartSlave ==
    /\ restarts < MaxRestarts /\ restarts' = restarts + 1
    /\ nbr' \in Fresh /\ lsdb' = OwnOnly /\ amDR' \in BOOLEAN
    /\ sender' = S!Idle /\ halted' = "no"
    /\ UNCHANGED <<master, toSlave, toMaster, misled>>

RestartMaster ==
    /\ restarts < MaxRestarts /\ restarts' = restarts + 1
    /\ master' = Down(master.seq)
    /\ UNCHANGED <<slave, toSlave, toMaster, misled>>

Init ==
    /\ nbr \in Fresh /\ lsdb = OwnOnly /\ amDR \in BOOLEAN
    /\ sender = S!Idle /\ halted = "no"
    /\ master = Down(0)
    /\ toSlave = [type \in Types |-> <<>>] /\ toMaster = toSlave
    /\ restarts = 0
    /\ misled = FALSE

SlaveReceives == HearHello \/ TakeDD \/ TakeLSR \/ TakeLSU
MasterActs ==
    \/ MasterHears \/ MasterSendsDD \/ MasterTakesDD
    \/ MasterSendsLSR \/ MasterTakesLSR \/ MasterTakesLSU

Next ==
    \/ (sender = S!Idle /\ SlaveReceives) \/ SlaveSends
    \/ MasterActs
    \/ \E type \in Types : Lose(type)
    \/ RestartSlave \/ RestartMaster

\* Both routers send again what is not answered, Hellos go on, and of the
\* packets of one type that come again and again not all are lost.
Fairness ==
    /\ WF_vars(SlaveSends) /\ WF_vars(HearHello)
    /\ SF_vars(TakeDD) /\ SF_vars(TakeLSR) /\ SF_vars(TakeLSU)
    /\ SF_vars(MasterHears)
    /\ WF_vars(MasterSendsDD) /\ WF_vars(MasterSendsLSR)
    /\ SF_vars(MasterTakesDD) /\ SF_vars(MasterTakesLSR) /\ SF_vars(MasterTakesLSU)

Spec == Init /\ [][Next]_vars /\ Fairness

-----------------------------------------------------------------------------
(* Properties.                                                             *)

Packets ==
    [dd : Seq(DDs), lsr : Seq(SUBSET Keys), lsu : Seq(SUBSET RouterKeys)]

\* Every variable has its type, and no channel holds more than MaxFlight.
TypeOK ==
    /\ S!TypeOK
    /\ master \in [state : {"down", "exstart", "exchange", "done"},
                   seq : S!SeqNums, left : Seq(Theirs),
                   wants : SUBSET Keys]
    /\ toSlave \in Packets /\ toMaster \in Packets
    /\ \A type \in Types :
          Len(toSlave[type]) <= MaxFlight /\ Len(toMaster[type]) <= MaxFlight
    /\ restarts \in 0 .. MaxRestarts
    /\ misled \in BOOLEAN

\* Both have ended the exchange and asked for nothing in vain.
Full == peer.state = "FULL" /\ master.state = "done" /\ master.wants = {}

\* docs/3-implement.md:80: the slave ends the exchange before the master
\* does, which is why process_dd lets only the slave's produce_dd end it.
SlaveFirst ==
    [][master'.state = "done" /\ master.state # "done"
       => peer.state # "EXCHANGE"]_vars

\* No assertion fails and no iterator is used unset in the first adjacency of
\* two routers, whatever is lost: process_dd, produce_dd and process_lsr are
\* called with what their assertions expect.
NoFailure == restarts = 0 => halted = "no"

\* FULL on both sides means equal databases: the slave has what the master
\* told, however often DDs, LSRs and LSUs were lost or came twice.
Synced == Full /\ ~misled => Theirs \subseteq S!InDb

\* The adjacency forms, again after a restart of either router, although
\* anything may be lost: the slave's repeated reply, the timers of send_loop
\* and the restarts of the exchange see to it.  Not if the slave is misled or
\* dies.
Forms == <>[](Full \/ halted # "no" \/ misled)
=============================================================================
