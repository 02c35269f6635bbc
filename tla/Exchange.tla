------------------------------ MODULE Exchange ------------------------------
(***************************************************************************)
(* The database exchange of one router with the neighbours of one          *)
(* interface: the neighbour state machine (neighbor.cpp), the handlers of  *)
(* Hello, DD, LSR and LSU packets (packet.cpp) and the part of send_loop   *)
(* (transit.cpp) that serves a neighbour.                                  *)
(*                                                                         *)
(* The program has two threads: recv_loop runs one packet handler at a     *)
(* time, send_loop visits the neighbours.  Here a handler is one step, a   *)
(* visit is a sequence of steps, and no packet is handled in the middle of *)
(* a visit: this is the behaviour the code is written for.  No lock holds  *)
(* the threads to it, and what they do inside each other's handlers and    *)
(* visits is the subject of ExchangeThreads.tla.                           *)
(*                                                                         *)
(* The other routers are the environment: any packet, in any order, from   *)
(* the sets below.  An LSA is its key (type, link state ID, advertising    *)
(* router): what an instance contains, and which of two is newer, is a     *)
(* choice here and the subject of LSDB.tla.  A DR election is a choice     *)
(* here and the subject of Interface.tla.                                  *)
(***************************************************************************)
EXTENDS Integers, FiniteSets, SequencesExt

CONSTANTS
    Nbr,          \* neighbours of the interface
    HigherNbr,    \* those whose router ID is higher than ours
    RouterKeys,   \* keys of Router-LSAs
    NetworkKeys,  \* keys of Network-LSAs
    SummaryKeys,  \* keys of Summary-LSAs
    OtherKeys,    \* keys of the types process_lsu does not handle
    OwnRouter,    \* key of our Router-LSA
    OwnNetwork,   \* key of our Network-LSA on this interface
    LsId,         \* LsId[k]: link state ID and advertising router of k
    MaxHdr,       \* dd_max_lsahdr_num
    SeqSpace,       \* DD sequence numbers are modulo this (2^32)
    Options,      \* values of the options byte
    Packets,      \* DDs the neighbours may send
    Asks,         \* sets of LSAs a received LSR may ask for
    Updates,      \* sets of LSAs a received LSU may carry
    MaxInst,      \* bound: instances of one key in the database
    MaxRequest,   \* bound: requests for one key in a request list
    MaxSummary    \* bound: headers in a summary list

Stored == RouterKeys \cup NetworkKeys \cup SummaryKeys
Keys == Stored \cup OtherKeys
SeqNums == 0 .. SeqSpace - 1

ASSUME ConstantsAssumption ==
    /\ HigherNbr \subseteq Nbr
    /\ OwnRouter \in RouterKeys /\ OwnNetwork \in NetworkKeys
    /\ Packets \subseteq [ms : BOOLEAN, m : BOOLEAN, i : BOOLEAN, seq : SeqNums,
                          options : Options, hdrs : SUBSET Keys]
    /\ Asks \subseteq SUBSET Keys /\ Updates \subseteq SUBSET Keys
    /\ Options # {} /\ SeqSpace \in Nat \ {0} /\ MaxHdr \in Nat \ {0}
    /\ MaxInst \in Nat \ {0} /\ MaxRequest \in Nat /\ MaxSummary \in Nat

VARIABLES
    nbr,     \* nbr[n]: the Neighbor object of n
    lsdb,    \* lsdb[k]: instances of k in this_lsdb's lists
    amDR,    \* the interface's designated_router is its own address
    sender,  \* where send_loop is
    halted   \* why the process died, "no" while it runs

vars == <<nbr, lsdb, amDR, sender, halted>>

-----------------------------------------------------------------------------
(* State of a neighbour.                                                   *)

States == {"NONE", "INIT", "TWOWAY", "EXSTART", "EXCHANGE", "LOADING", "FULL"}
AtLeastExchange == {"EXCHANGE", "LOADING", "FULL"}
AtLeastExstart == {"EXSTART"} \cup AtLeastExchange

SentDDs == [ms : BOOLEAN, m : BOOLEAN, i : BOOLEAN, seq : SeqNums,
            hdrs : Seq(Stored)]

\* The send iterator: 0 is end(), which survives every list operation, a
\* positive number is the position of an element, and NoIter an iterator
\* that was never set or whose element is gone: using it is undefined and
\* kills the process.
NoIter == -1

NoRequests == [k \in Keys |-> 0]

\* listed is history, no guard reads it: the headers of the DDs accepted since
\* the current negotiation.
Neighbors ==
    [state : States, adj : BOOLEAN, is_master : BOOLEAN,
     dd_seq_num : SeqNums, recv_dd_seq_num : SeqNums,
     dd_options : Options, dd_init : BOOLEAN, dd_recv_no_more : BOOLEAN,
     db_summary_list : Seq(Stored), db_summary_send_iter : Int,
     link_state_request_list : [Keys -> Nat], last_dd : SentDDs,
     listed : SUBSET Keys]

\* A new Neighbor; recv_dd_seq_num, dd_options and last_dd_data are not
\* initialized.  Only the first is read before it is written in a way that
\* matters here, the others start with any fixed value.
NewNeighbor(seq) ==
    [state |-> "NONE", adj |-> FALSE, is_master |-> FALSE,
     dd_seq_num |-> 0, recv_dd_seq_num |-> seq,
     dd_options |-> CHOOSE o \in Options : TRUE, dd_init |-> TRUE,
     dd_recv_no_more |-> FALSE, db_summary_list |-> <<>>,
     db_summary_send_iter |-> NoIter,
     link_state_request_list |-> NoRequests,
     last_dd |-> [ms |-> FALSE, m |-> FALSE, i |-> FALSE, seq |-> 0,
                  hdrs |-> <<>>],
     listed |-> {}]

\* A Neighbor object whose iterator is unusable or points into its list.
WellFormed(r) ==
    /\ r \in Neighbors
    /\ r.db_summary_send_iter \in {NoIter} \cup 0 .. Len(r.db_summary_list)

Requested(r) == {k \in Keys : r.link_state_request_list[k] > 0}
InDb == {k \in Stored : lsdb[k] > 0}

-----------------------------------------------------------------------------
(* The neighbour events, as functions of the Neighbor object.              *)

\* dd_seq_num and is_master start over: event_2way_received, event_adj_ok,
\* event_seq_number_mismatch.
Restart(r) ==
    [r EXCEPT !.state = "EXSTART", !.dd_seq_num = 0, !.is_master = FALSE]

ClearLists(r) ==
    [r EXCEPT !.db_summary_list = <<>>,
              !.db_summary_send_iter = IF @ = 0 THEN 0 ELSE NoIter,
              !.link_state_request_list = NoRequests,
              !.listed = {}]

SeqNumberMismatch(r) == ClearLists(Restart(r))

HelloReceived(r) ==
    IF r.state = "NONE" THEN [r EXCEPT !.state = "INIT"] ELSE r

TwoWayReceived(r) ==
    IF r.state # "INIT" THEN r
    ELSE IF r.adj THEN Restart(r) ELSE [r EXCEPT !.state = "TWOWAY"]

OneWayReceived(r) ==
    IF r.state = "INIT" THEN r ELSE ClearLists([r EXCEPT !.state = "INIT"])

\* Falling back to TWOWAY leaves the lists as they are.
AdjOk(r) ==
    CASE r.state = "TWOWAY" /\ r.adj -> Restart(r)
      [] r.state \in AtLeastExstart /\ ~r.adj -> [r EXCEPT !.state = "TWOWAY"]
      [] OTHER -> r

\* The order in which the database lists its headers: by type, and within a
\* type in the order of arrival, which is not kept here.
Rank(k) ==
    IF k \in RouterKeys THEN 1 ELSE IF k \in NetworkKeys THEN 2 ELSE 3
HeaderLists ==
    {s \in SeqOf(Stored, MaxSummary) :
        /\ \A k \in Stored :
              Cardinality({j \in DOMAIN s : s[j] = k}) = lsdb[k]
        /\ \A j, l \in DOMAIN s : j < l => Rank(s[j]) <= Rank(s[l])}

\* hdrs are appended to whatever the list still holds.
NegotiationDone(r, hdrs) ==
    [r EXCEPT !.state = "EXCHANGE", !.db_summary_list = @ \o hdrs,
              !.listed = {}]

\* Mutant: FULL without waiting for what was requested.
ExchangeDoneUnloaded(r) == [r EXCEPT !.state = "FULL"]
ExchangeDone(r) ==
    [r EXCEPT !.state = IF Requested(r) = {} THEN "FULL" ELSE "LOADING"]

-----------------------------------------------------------------------------
(* Our side of the exchange: produce_dd.                                   *)

\* Mutant: the last step may leave the list.
AdvancedPastEnd(r) == r.db_summary_send_iter + MaxHdr
\* std::advance over a list of n headers goes through end() back to begin().
Advanced(r) ==
    (r.db_summary_send_iter + MaxHdr) % (Len(r.db_summary_list) + 1)

\* Headers from begin() up to an iterator.
Before(r, iter) ==
    IF iter = 0 THEN r.db_summary_list
    ELSE SubSeq(r.db_summary_list, 1, iter - 1)

Truncated(s) == SubSeq(s, 1, IF Len(s) < MaxHdr THEN Len(s) ELSE MaxHdr)

\* Mutant: a list that just fits counts as too long.
SplitsWhenFull(r) == ~r.dd_init /\ Len(r.db_summary_list) >= MaxHdr
Splits(r) == ~r.dd_init /\ Len(r.db_summary_list) > MaxHdr
SendsRest(r) == ~r.dd_init /\ Len(r.db_summary_list) <= MaxHdr

\* Mutant: the roles are exchanged.
EndsExchangeMaster(r) == SendsRest(r) /\ ~r.is_master /\ r.dd_recv_no_more
\* A slave that heard the master's last DD ends the exchange by this DD.
EndsExchange(r) == SendsRest(r) /\ r.is_master /\ r.dd_recv_no_more

ProduceFails(r) ==
    CASE Splits(r) /\ r.db_summary_send_iter = NoIter -> "iterator"
      [] EndsExchange(r) /\ r.state # "EXCHANGE" -> "exchange_done"
      [] OTHER -> "no"

\* The length of a split DD says MaxHdr headers whatever was copied: fewer
\* leave stale bytes at the end, which are no header of ours.
ProducedDD(r) ==
    [ms |-> ~r.is_master, m |-> Splits(r), i |-> r.dd_init,
     seq |-> r.dd_seq_num,
     hdrs |-> CASE Splits(r) -> Truncated(Before(r, Advanced(r)))
                [] SendsRest(r) -> r.db_summary_list
                [] OTHER -> <<>>]

\* Mutant: the iterator is not moved.
SentInPlace(r) == [r EXCEPT !.last_dd = ProducedDD(r)]
Sent(r) ==
    [r EXCEPT !.last_dd = ProducedDD(r),
              !.db_summary_send_iter = CASE Splits(r) -> Advanced(r)
                                         [] SendsRest(r) -> 0
                                         [] OTHER -> @]

\* Mutant: the list is not cleared when the exchange ends.
ProducedUncleared(r) == IF EndsExchange(r) THEN ExchangeDone(Sent(r)) ELSE Sent(r)
Produced(r) ==
    IF EndsExchange(r)
    THEN [ExchangeDone(Sent(r)) EXCEPT !.db_summary_list = <<>>]
    ELSE Sent(r)

-----------------------------------------------------------------------------
(* Their side: the body of process_dd after its switch.                    *)

\* The headers up to the iterator count as acknowledged.
Acknowledged(r) == Before(r, r.db_summary_send_iter)
Erased(r) ==
    [r EXCEPT !.db_summary_list =
                  SubSeq(@, Len(Acknowledged(r)) + 1, Len(@)),
              !.db_summary_send_iter = IF @ = 0 THEN 0 ELSE 1]

\* Mutant: what the last DD lists is not requested.
HeardUnlessLast(r, p) ==
    [r EXCEPT !.dd_recv_no_more = ~p.m,
              !.link_state_request_list =
                  [k \in Keys |-> IF p.m /\ k \in p.hdrs \ InDb THEN @[k] + 1
                                                                 ELSE @[k]],
              !.listed = @ \cup p.hdrs]
\* Every listed LSA that the database has no instance of is requested.
Heard(r, p) ==
    [r EXCEPT !.dd_recv_no_more = ~p.m,
              !.link_state_request_list =
                  [k \in Keys |-> IF k \in p.hdrs \ InDb THEN @[k] + 1
                                                         ELSE @[k]],
              !.listed = @ \cup p.hdrs]

-----------------------------------------------------------------------------
(* What a step does to the router as a whole.                              *)

Failures == {"election", "unknown_neighbor", "iterator", "exchange_done",
             "bad_lsreq", "lsa_type", "loading_done"}

Running == halted = "no"

\* A failed assertion or an invalid memory access ends the process.
Halt(why) == halted' = why /\ UNCHANGED <<nbr, lsdb, amDR, sender>>

\* MAKE_ROUTER_LSA and MAKE_NETWORK_LSA, run so many times: the first
\* instance is added, a later one replaces its predecessor, unless the
\* database holds one that is not older (ours from before a restart): then
\* both stay.
Originate(keys, times) ==
    \E kept \in [keys -> 0 .. times] :
        /\ \A k \in keys : lsdb[k] = 0 => kept[k] > 0
        /\ lsdb' = [k \in Stored |-> IF k \in keys THEN lsdb[k] + kept[k]
                                                   ELSE lsdb[k]]
        /\ \A k \in keys : lsdb'[k] <= MaxInst

\* The exchange with n goes on from r.  Reaching FULL through
\* event_exchange_done originates LSAs.
Update(n, r) ==
    /\ nbr' = [nbr EXCEPT ![n] = r]
    /\ IF r.state = "FULL" /\ nbr[n].state # "FULL"
       THEN Originate({OwnRouter} \cup IF amDR THEN {OwnNetwork} ELSE {}, 1)
       ELSE UNCHANGED lsdb
    /\ UNCHANGED <<amDR, halted>>

\* Mutant: the packet is sent and not stored.
ReplyUnstored(n, r) ==
    IF ProduceFails(r) = "no"
    THEN Update(n, [Produced(r) EXCEPT !.last_dd = r.last_dd]) /\ UNCHANGED sender
    ELSE Halt(ProduceFails(r))
\* produce_dd and send_packet, storing the packet for retransmission.
Reply(n, r) ==
    IF ProduceFails(r) = "no" THEN Update(n, Produced(r)) /\ UNCHANGED sender
                              ELSE Halt(ProduceFails(r))

-----------------------------------------------------------------------------
(* recv_loop: process_hello.                                               *)

\* seen: the Hello lists us.  adj: estab_adj(), which only looks at the DR
\* and BDR that the neighbour's last Hello declared.  elections: how many of
\* event_backup_seen and event_neighbor_change it triggers.  changed: one
\* gives the interface another DR or BDR, and every neighbour that is at
\* least TWOWAY is examined; to do so twice is the same.
ReceiveHello(n, seen, adj, elections, changed) ==
    LET known == HelloReceived([nbr[n] EXCEPT !.adj = adj])
        next  == IF seen THEN TwoWayReceived(known) ELSE OneWayReceived(known)
    IN
    /\ Running
    /\ ~seen => elections = 0
    /\ elections = 0 => ~changed
    /\ nbr' = [m \in Nbr |->
                 LET r == IF m = n THEN next ELSE nbr[m]
                 IN  IF changed THEN AdjOk(r) ELSE r]
    /\ IF changed THEN amDR' \in BOOLEAN ELSE UNCHANGED amDR
    /\ IF elections = 0 THEN UNCHANGED lsdb
                        ELSE Originate({OwnRouter}, elections)
    /\ UNCHANGED <<sender, halted>>

\* event_neighbor_change does not expect a WAITING interface, and an
\* election may find no BDR.
HelloFatal(n) ==
    /\ Running
    /\ Halt("election")

-----------------------------------------------------------------------------
(* recv_loop: process_dd, an action per way through it.                    *)

\* Every way but the first notes the packet's sequence number.
Noted(n, p) == [nbr[n] EXCEPT !.recv_dd_seq_num = p.seq]
Duplicate(n, p) == nbr[n].recv_dd_seq_num = p.seq

\* The neighbour as the EXSTART case of the switch finds it, in INIT by way
\* of event_2way_received.
Entered(n, p) == TwoWayReceived(Noted(n, p))
Opened(n, p) == [Entered(n, p) EXCEPT !.dd_options = p.options]

\* assert(nbr != nullptr): no Hello came before this packet.
FromUnknown(n) ==
    /\ Running
    /\ nbr[n].state = "NONE"
    /\ Halt("unknown_neighbor")

DDTooEarly(n, p) ==
    /\ Running
    /\ Entered(n, p).state = "TWOWAY"
    /\ Update(n, Entered(n, p))
    /\ UNCHANGED sender

\* The macro DD_FLAG_ALL makes the test of the flags true of every packet.
AcceptsMaster(n) == n \in HigherNbr
AcceptsSlave(n, p) ==
    /\ n \notin HigherNbr
    /\ ~p.ms /\ ~p.i /\ p.seq = Opened(n, p).dd_seq_num

DDUnanswered(n, p) ==
    /\ Running
    /\ Entered(n, p).state = "EXSTART"
    /\ ~AcceptsMaster(n) /\ ~AcceptsSlave(n, p)
    /\ Update(n, Opened(n, p))
    /\ UNCHANGED sender

BecomeSlave(n, p) ==
    /\ Running
    /\ Entered(n, p).state = "EXSTART"
    /\ AcceptsMaster(n)
    /\ \E hdrs \in HeaderLists :
          /\ Len(Opened(n, p).db_summary_list \o hdrs) <= MaxSummary
          /\ Reply(n, NegotiationDone([Opened(n, p) EXCEPT
                                          !.is_master = TRUE,
                                          !.dd_seq_num = p.seq,
                                          !.dd_init = FALSE], hdrs))

\* The part of process_dd after the switch.
Accept(n, r, p) ==
    LET s == Heard(Erased(r), p) IN
    IF r.db_summary_send_iter = NoIter THEN Halt("iterator")
    ELSE /\ \A k \in Keys : s.link_state_request_list[k] <= MaxRequest
         /\ IF ~s.is_master /\ s.db_summary_list = <<>> /\ s.dd_recv_no_more
            THEN Update(n, ExchangeDone(s)) /\ UNCHANGED sender
            ELSE Reply(n, s)

\* Sequence number after the packet was accepted: the slave takes the
\* master's next one, the master counts.
Advance(r) == [r EXCEPT !.dd_seq_num = (@ + 1) % SeqSpace]
Expected(r) ==
    IF r.is_master THEN Advance(r).dd_seq_num ELSE r.dd_seq_num

\* The slave's first reply goes on to the EXCHANGE case of the switch.
BecomeMaster(n, p) ==
    /\ Running
    /\ Entered(n, p).state = "EXSTART"
    /\ AcceptsSlave(n, p)
    /\ \E hdrs \in HeaderLists :
          LET r == NegotiationDone([Opened(n, p) EXCEPT
                                       !.is_master = FALSE,
                                       !.dd_init = FALSE], hdrs)
          IN  /\ Len(r.db_summary_list) <= MaxSummary
              /\ IF Duplicate(n, p)
                 THEN Update(n, r) /\ UNCHANGED sender
                 ELSE Accept(n, Advance(r), p)

\* Mutant: the reply is produced anew.
DDDuplicateProduced(n, p) ==
    /\ Running
    /\ nbr[n].state = "EXCHANGE" /\ Duplicate(n, p)
    /\ IF nbr[n].is_master THEN Reply(n, nbr[n]) ELSE UNCHANGED vars
\* A slave repeats its last DD, which is no change of state.
DDDuplicate(n, p) ==
    /\ Running
    /\ nbr[n].state = "EXCHANGE" /\ Duplicate(n, p)
    /\ UNCHANGED vars

Mismatch(r, p) == p.ms # r.is_master \/ p.i

DDMismatch(n, p) ==
    /\ Running
    /\ nbr[n].state = "EXCHANGE" /\ ~Duplicate(n, p)
    /\ \/ Mismatch(nbr[n], p)
       \/ p.options # nbr[n].dd_options
       \/ p.seq # Expected(nbr[n])
    /\ Update(n, SeqNumberMismatch(Noted(n, p)))
    /\ UNCHANGED sender

DDAccepted(n, p) ==
    /\ Running
    /\ nbr[n].state = "EXCHANGE" /\ ~Duplicate(n, p)
    /\ ~Mismatch(nbr[n], p)
    /\ p.options = nbr[n].dd_options /\ p.seq = Expected(nbr[n])
    /\ Accept(n, Advance(Noted(n, p)), p)

\* After the exchange only the roles and the I flag are looked at.
DDAfterExchange(n, p) ==
    /\ Running
    /\ nbr[n].state \in {"LOADING", "FULL"}
    /\ Update(n, IF Mismatch(nbr[n], p) THEN SeqNumberMismatch(Noted(n, p))
                                        ELSE Noted(n, p))
    /\ UNCHANGED sender

ReceiveDD(n, p) ==
    \/ DDTooEarly(n, p)
    \/ DDUnanswered(n, p)
    \/ BecomeSlave(n, p)
    \/ BecomeMaster(n, p)
    \/ DDDuplicate(n, p)
    \/ DDMismatch(n, p)
    \/ DDAccepted(n, p)
    \/ DDAfterExchange(n, p)

-----------------------------------------------------------------------------
(* recv_loop: process_lsr and process_lsu.                                 *)

\* Only Router-LSAs are looked up, by link state ID and advertising router.
Found(k) == {r \in RouterKeys : LsId[r] = LsId[k] /\ lsdb[r] > 0}

\* The reply is sent at once and nothing of it is kept.
LSRAnswered(n, asked) ==
    /\ Running
    /\ nbr[n].state # "NONE"
    /\ nbr[n].state \in AtLeastExchange => \A k \in asked : Found(k) # {}
    /\ UNCHANGED vars

\* event_bad_lsreq runs, and then the null pointer it was called for is
\* used: by a second call, whose assertion fails, or by produce_lsu.
BadLSReq(n, asked) ==
    /\ Running
    /\ nbr[n].state \in AtLeastExchange
    /\ \E k \in asked : Found(k) = {}
    /\ Halt("bad_lsreq")

\* newer: the LSAs that replace an instance in the database; every other
\* one is added to the instances that are there.
ReceiveLSU(n, lsas, newer) ==
    /\ Running
    /\ nbr[n].state # "NONE"
    /\ lsas \cap OtherKeys = {}
    /\ newer \subseteq lsas \cap InDb
    /\ lsdb' = [k \in Stored |-> IF k \in lsas \ newer THEN lsdb[k] + 1
                                                       ELSE lsdb[k]]
    /\ \A k \in Stored : lsdb'[k] <= MaxInst
    /\ nbr' = [nbr EXCEPT ![n].link_state_request_list =
                  [k \in Keys |-> IF k \in lsas /\ @[k] > 0 THEN @[k] - 1
                                                            ELSE @[k]]]
    /\ UNCHANGED <<amDR, sender, halted>>

\* assert(false && "Not implemented yet")
LSUOtherType(n, lsas) ==
    /\ Running
    /\ nbr[n].state # "NONE"
    /\ lsas \cap OtherKeys # {}
    /\ Halt("lsa_type")

-----------------------------------------------------------------------------
(* send_loop: its visit to neighbour n when n's rxmt_timer expires.        *)

Idle == [pc |-> "idle"]
At(pc, n) == [pc |-> pc, nbr |-> n]
Pcs == {"dd", "rxmt", "lsr", "empty", "loading", "done"}
Senders == {Idle} \cup [pc : Pcs, nbr : Nbr]

Visit(n) ==
    /\ Running
    /\ sender = Idle
    /\ nbr[n].state # "NONE"
    /\ sender' = At(IF nbr[n].state = "EXSTART" THEN "dd" ELSE "rxmt", n)
    /\ UNCHANGED <<nbr, lsdb, amDR, halted>>

\* The state was EXSTART when it was tested.
SendDD(n) ==
    /\ Running
    /\ sender = At("dd", n)
    /\ IF ProduceFails(nbr[n]) = "no"
       THEN Update(n, Produced(nbr[n])) /\ sender' = At("rxmt", n)
       ELSE Halt(ProduceFails(nbr[n]))

\* A master in EXCHANGE repeats its last DD; then the state is tested again.
Retransmit(n) ==
    /\ Running
    /\ sender = At("rxmt", n)
    /\ sender' = IF nbr[n].state \in {"EXCHANGE", "LOADING"}
                 THEN At("lsr", n) ELSE Idle
    /\ UNCHANGED <<nbr, lsdb, amDR, halted>>

\* produce_lsr under link_state_request_list_mtx: send all requests at once,
\* or find that there is none.
SendLSR(n) ==
    /\ Running
    /\ sender = At("lsr", n)
    /\ sender' = IF Requested(nbr[n]) = {} THEN At("empty", n) ELSE Idle
    /\ UNCHANGED <<nbr, lsdb, amDR, halted>>

\* The rest of produce_lsr runs without the lock.
TestLoading(n) ==
    /\ Running
    /\ sender = At("empty", n)
    /\ sender' = IF nbr[n].state = "LOADING" THEN At("loading", n) ELSE Idle
    /\ UNCHANGED <<nbr, lsdb, amDR, halted>>

\* event_loading_done: its assertion, then its assignment and a new
\* Router-LSA.
AssertLoading(n) ==
    /\ Running
    /\ sender = At("loading", n)
    /\ IF nbr[n].state = "LOADING"
       THEN sender' = At("done", n) /\ UNCHANGED <<nbr, lsdb, amDR, halted>>
       ELSE Halt("loading_done")

LoadingDone(n) ==
    /\ Running
    /\ sender = At("done", n)
    /\ nbr' = [nbr EXCEPT ![n].state = "FULL"]
    /\ Originate({OwnRouter}, 1)
    /\ sender' = Idle
    /\ UNCHANGED <<amDR, halted>>

-----------------------------------------------------------------------------
(* The router: packets are handled between the visits of send_loop.        *)

Init ==
    /\ nbr \in [Nbr -> {NewNeighbor(seq) : seq \in SeqNums}]
    /\ lsdb = [k \in Stored |-> 0]
    /\ amDR = FALSE
    /\ sender = Idle
    /\ halted = "no"

Receive ==
    \E n \in Nbr :
        \/ FromUnknown(n)
        \/ \E seen, adj, changed \in BOOLEAN, elections \in 0 .. 2 :
              ReceiveHello(n, seen, adj, elections, changed)
        \/ HelloFatal(n)
        \/ \E p \in Packets : ReceiveDD(n, p)
        \/ \E asked \in Asks : LSRAnswered(n, asked) \/ BadLSReq(n, asked)
        \/ \E lsas \in Updates :
              \/ \E newer \in SUBSET lsas : ReceiveLSU(n, lsas, newer)
              \/ LSUOtherType(n, lsas)

Send ==
    \E n \in Nbr :
        \/ Visit(n)
        \/ SendDD(n)
        \/ Retransmit(n)
        \/ SendLSR(n)
        \/ TestLoading(n)
        \/ AssertLoading(n)
        \/ LoadingDone(n)

Next == (sender = Idle /\ Receive) \/ Send

Spec == Init /\ [][Next]_vars

-----------------------------------------------------------------------------
(* Properties.                                                             *)

\* Every variable has its type.
TypeOK ==
    /\ nbr \in [Nbr -> Neighbors]
    /\ \A n \in Nbr : WellFormed(nbr[n])
    /\ lsdb \in [Stored -> Nat]
    /\ amDR \in BOOLEAN
    /\ sender \in Senders
    /\ halted \in {"no"} \cup Failures

\* No LSA a neighbour listed in this session is forgotten: it is in the
\* database or on the request list, whoever else brings or replaces LSAs
\* meanwhile (process_dd's test of the database, process_lsu's removal from
\* the list, the clears).
Covered == \A n \in Nbr : nbr[n].listed \subseteq InDb \cup Requested(nbr[n])

\* The reply a slave keeps for retransmission answers the last packet it
\* accepted, with the flags of a reply: last_dd_data and dd_seq_num are
\* written apart, in process_dd and in send_loop's visit.
EchoSeq ==
    \A n \in Nbr :
        nbr[n].is_master /\ nbr[n].state \in AtLeastExchange
        => /\ nbr[n].last_dd.seq = nbr[n].dd_seq_num
           /\ ~nbr[n].last_dd.ms /\ ~nbr[n].last_dd.i

\* A slave in EXCHANGE holds a send iterator into its current list, so that
\* process_dd's erase is defined, although clear() and a new negotiation
\* leave the iterator of the session before.
SlaveIterValid ==
    \A n \in Nbr :
        nbr[n].is_master /\ nbr[n].state = "EXCHANGE"
        => nbr[n].db_summary_send_iter \in 0 .. Len(nbr[n].db_summary_list)

\* When what a slave has left to tell fits one DD, exactly the headers of its
\* last DD are erased by the master's next one.
SlaveAcked ==
    \A n \in Nbr :
        /\ nbr[n].is_master /\ nbr[n].state = "EXCHANGE"
        /\ Len(nbr[n].db_summary_list) <= MaxHdr
        => /\ nbr[n].last_dd.hdrs = nbr[n].db_summary_list
           /\ Acknowledged(nbr[n]) = nbr[n].last_dd.hdrs

\* A neighbour in FULL listed nothing this session that the database lacks.
FullSynced ==
    \A n \in Nbr : nbr[n].state = "FULL" => nbr[n].listed \subseteq InDb

\* No header waits to be told once the exchange is done: event_exchange_done
\* runs on both sides after the list is empty or is told in full.
SummaryDrained ==
    \A n \in Nbr :
        nbr[n].state \in {"LOADING", "FULL"} => nbr[n].db_summary_list = <<>>

\* A slave's reply to one sequence number is the same DD however often the
\* packet comes: the kept reply changes in a session only with dd_seq_num.
SameSeqSameDD ==
    [][\A n \in Nbr :
          /\ nbr[n].is_master /\ nbr[n].state \in AtLeastExchange
          /\ nbr'[n].is_master /\ nbr'[n].state \in AtLeastExchange
          /\ nbr'[n].last_dd # nbr[n].last_dd
          => nbr'[n].dd_seq_num = (nbr[n].dd_seq_num + 1) % SeqSpace]_vars

=============================================================================
