--------------------------- MODULE ExchangeProofs ---------------------------
(***************************************************************************)
(* Theorems about Exchange, for any neighbours, LSAs, packets and bounds:  *)
(* first the type invariant, function by function of the Neighbor object,  *)
(* then what holds whatever send_loop is at when a packet is handled, then *)
(* what rests on the tests of its visit.  Last come the theorems about     *)
(* ExchangeThreads, where both threads may be in produce_dd.               *)
(***************************************************************************)
EXTENDS ExchangeThreads, SequenceTheorems, TLAPS

-----------------------------------------------------------------------------
(* Every function of Exchange keeps a Neighbor object well formed.         *)

LEMMA ZeroSeq == 0 \in SeqNums
  BY ConstantsAssumption DEF SeqNums

\* The successor of a sequence number wraps around (uint32_t).
LEMMA SuccSeq == ASSUME NEW s \in SeqNums PROVE (s + 1) % SeqSpace \in SeqNums
  BY ConstantsAssumption DEF SeqNums

LEMMA NoRequestsType == NoRequests \in [Keys -> Nat]
  BY DEF NoRequests

LEMMA RestartType ==
  ASSUME NEW r, WellFormed(r) PROVE WellFormed(Restart(r))
  <1>1. Restart(r) \in Neighbors
    BY ZeroSeq DEF Restart, WellFormed, Neighbors, States
  <1>2. /\ Restart(r).db_summary_list = r.db_summary_list
        /\ Restart(r).db_summary_send_iter = r.db_summary_send_iter
    BY DEF Restart, WellFormed, Neighbors
  <1> QED BY <1>1, <1>2 DEF WellFormed

LEMMA ClearListsType ==
  ASSUME NEW r, WellFormed(r) PROVE WellFormed(ClearLists(r))
  <1>1. <<>> \in Seq(Stored) /\ Len(<<>>) = 0
    OBVIOUS
  <1>2. r.db_summary_send_iter \in Int
    BY DEF WellFormed, Neighbors
  <1> DEFINE iter == IF r.db_summary_send_iter = 0 THEN 0 ELSE NoIter
  <1>3. iter \in Int /\ iter \in {NoIter} \cup 0 .. 0
    BY <1>2 DEF NoIter
  <1>4. {} \in SUBSET Keys
    OBVIOUS
  <1>5. ClearLists(r) \in Neighbors
    BY <1>1, <1>3, <1>4, NoRequestsType DEF ClearLists, WellFormed, Neighbors
  <1>6. /\ ClearLists(r).db_summary_list = <<>>
        /\ ClearLists(r).db_summary_send_iter = iter
    BY DEF ClearLists, WellFormed, Neighbors
  <1> QED BY <1>1, <1>3, <1>5, <1>6 DEF WellFormed

\* Setting the state alone.
LEMMA StateType ==
  ASSUME NEW r, WellFormed(r), NEW s \in States
  PROVE  WellFormed([r EXCEPT !.state = s])
  BY DEF WellFormed, Neighbors

LEMMA MismatchType ==
  ASSUME NEW r, WellFormed(r) PROVE WellFormed(SeqNumberMismatch(r))
  BY RestartType, ClearListsType DEF SeqNumberMismatch

LEMMA HelloType ==
  ASSUME NEW r, WellFormed(r)
  PROVE  /\ WellFormed(HelloReceived(r))
         /\ WellFormed(TwoWayReceived(r))
         /\ WellFormed(OneWayReceived(r))
         /\ WellFormed(AdjOk(r))
  <1>1. "INIT" \in States /\ "TWOWAY" \in States
    BY DEF States
  <1>2. /\ WellFormed([r EXCEPT !.state = "INIT"])
        /\ WellFormed([r EXCEPT !.state = "TWOWAY"])
    BY <1>1, StateType
  <1>3. WellFormed(HelloReceived(r))
    BY <1>2 DEF HelloReceived
  <1>4. WellFormed(TwoWayReceived(r))
    BY <1>2, RestartType DEF TwoWayReceived
  <1>5. WellFormed(OneWayReceived(r))
    BY <1>2, ClearListsType DEF OneWayReceived
  <1>6. WellFormed(AdjOk(r))
    BY <1>2, RestartType DEF AdjOk
  <1> QED BY <1>3, <1>4, <1>5, <1>6

LEMMA ExchangeDoneType ==
  ASSUME NEW r, WellFormed(r) PROVE WellFormed(ExchangeDone(r))
  <1>1. (IF Requested(r) = {} THEN "FULL" ELSE "LOADING") \in States
    BY DEF States
  <1> QED BY <1>1, StateType DEF ExchangeDone

\* A header list of the database is a sequence of stored keys.
LEMMA HeaderListsType ==
  ASSUME NEW hdrs \in HeaderLists PROVE hdrs \in Seq(Stored)
  <1>1. PICK m \in 0 .. MaxSummary : hdrs \in [1 .. m -> Stored]
    BY DEF HeaderLists, SeqOf
  <1> QED BY <1>1

LEMMA NegotiationDoneType ==
  ASSUME NEW r, WellFormed(r), NEW hdrs \in Seq(Stored)
  PROVE  WellFormed(NegotiationDone(r, hdrs))
  <1>1. r.db_summary_list \in Seq(Stored)
    BY DEF WellFormed, Neighbors
  <1> DEFINE list == r.db_summary_list \o hdrs
  <1>2. list \in Seq(Stored) /\ Len(list) >= Len(r.db_summary_list)
    BY <1>1
  <1>3. "EXCHANGE" \in States /\ {} \in SUBSET Keys
    BY DEF States
  <1>4. NegotiationDone(r, hdrs) \in Neighbors
    BY <1>2, <1>3 DEF NegotiationDone, WellFormed, Neighbors
  <1>5. /\ NegotiationDone(r, hdrs).db_summary_list = list
        /\ NegotiationDone(r, hdrs).db_summary_send_iter
             = r.db_summary_send_iter
    BY DEF NegotiationDone, WellFormed, Neighbors
  <1>6. Len(list) \in Nat /\ Len(r.db_summary_list) \in Nat
    BY <1>1, <1>2
  <1> HIDE DEF list
  <1> QED BY <1>2, <1>4, <1>5, <1>6 DEF WellFormed, NoIter

-----------------------------------------------------------------------------
(* produce_dd.                                                             *)

\* The headers before an iterator are a prefix of the list.
LEMMA BeforeType ==
  ASSUME NEW r, WellFormed(r), NEW i \in 0 .. Len(r.db_summary_list)
  PROVE  /\ Before(r, i) \in Seq(Stored)
         /\ Len(Before(r, i)) = IF i = 0 THEN Len(r.db_summary_list) ELSE i - 1
  <1>1. r.db_summary_list \in Seq(Stored)
    BY DEF WellFormed, Neighbors
  <1>2. CASE i = 0
    BY <1>1, <1>2 DEF Before
  <1>3. CASE i # 0
    <2>1. i - 1 \in 0 .. Len(r.db_summary_list)
      BY <1>1, <1>3
    <2>2. SubSeq(r.db_summary_list, 1, i - 1) \in Seq(Stored)
      BY <1>1, <2>1, SubSeqProperties
    <2>3. Len(SubSeq(r.db_summary_list, 1, i - 1)) = i - 1
      BY <1>1, <2>1, SubSeqProperties
    <2> QED BY <1>3, <2>2, <2>3 DEF Before
  <1> QED BY <1>2, <1>3

LEMMA TruncatedType ==
  ASSUME NEW s \in Seq(Stored) PROVE Truncated(s) \in Seq(Stored)
  <1> DEFINE m == IF Len(s) < MaxHdr THEN Len(s) ELSE MaxHdr
  <1>1. m \in 0 .. Len(s)
    BY ConstantsAssumption
  <1>2. SubSeq(s, 1, m) \in Seq(Stored)
    BY <1>1, SubSeqProperties
  <1> QED BY <1>2 DEF Truncated

\* Advancing the iterator stays within the list or at its end.
LEMMA AdvancedType ==
  ASSUME NEW r, WellFormed(r)
  PROVE  Advanced(r) \in 0 .. Len(r.db_summary_list)
  <1>1. r.db_summary_send_iter \in Int /\ Len(r.db_summary_list) \in Nat
    BY DEF WellFormed, Neighbors
  <1> QED BY <1>1, ConstantsAssumption DEF Advanced

LEMMA ProducedDDType ==
  ASSUME NEW r, WellFormed(r) PROVE ProducedDD(r) \in SentDDs
  <1>1. r.db_summary_list \in Seq(Stored)
    BY DEF WellFormed, Neighbors
  <1>2. Truncated(Before(r, Advanced(r))) \in Seq(Stored)
    BY AdvancedType, BeforeType, TruncatedType
  <1> DEFINE hdrs == CASE Splits(r) -> Truncated(Before(r, Advanced(r)))
                       [] SendsRest(r) -> r.db_summary_list
                       [] OTHER -> <<>>
  <1>3. hdrs \in Seq(Stored)
    BY <1>1, <1>2
  <1>4. (~r.is_master) \in BOOLEAN /\ Splits(r) \in BOOLEAN
    BY DEF Splits
  <1>5. r.dd_init \in BOOLEAN /\ r.dd_seq_num \in SeqNums
    BY DEF WellFormed, Neighbors
  <1> HIDE DEF hdrs
  <1>6. ProducedDD(r) = [ms |-> ~r.is_master, m |-> Splits(r),
                         i |-> r.dd_init, seq |-> r.dd_seq_num,
                         hdrs |-> hdrs]
    BY DEF ProducedDD, hdrs
  <1> QED BY <1>3, <1>4, <1>5, <1>6 DEF SentDDs

LEMMA ProducedType ==
  ASSUME NEW r, WellFormed(r) PROVE WellFormed(Produced(r))
  <1> DEFINE iter == CASE Splits(r) -> Advanced(r)
                       [] SendsRest(r) -> 0
                       [] OTHER -> r.db_summary_send_iter
             s == [r EXCEPT !.last_dd = ProducedDD(r),
                            !.db_summary_send_iter = iter]
             t == ExchangeDone(s)
  <1>1. /\ iter \in {NoIter} \cup 0 .. Len(r.db_summary_list)
        /\ SendsRest(r) => iter = 0
    BY AdvancedType DEF WellFormed, Neighbors, Splits, SendsRest
  <1>2. iter \in Int
    BY <1>1 DEF NoIter
  <1>3. WellFormed(s)
    <2> HIDE DEF iter
    <2>1. s \in Neighbors
      BY <1>2, ProducedDDType DEF WellFormed, Neighbors
    <2>2. /\ s.db_summary_list = r.db_summary_list
          /\ s.db_summary_send_iter = iter
      BY DEF WellFormed, Neighbors
    <2> QED BY <1>1, <2>1, <2>2 DEF WellFormed
  <1>4. CASE EndsExchange(r)
    <2>1. WellFormed(t)
      BY <1>3, ExchangeDoneType
    <2>2. t.db_summary_send_iter = 0
      BY <1>1, <1>3, <1>4 DEF EndsExchange, ExchangeDone, WellFormed, Neighbors
    <2>3. <<>> \in Seq(Stored) /\ Len(<<>>) = 0
      OBVIOUS
    <2> HIDE DEF t
    <2>4. WellFormed([t EXCEPT !.db_summary_list = <<>>])
      <3> DEFINE u == [t EXCEPT !.db_summary_list = <<>>]
      <3>1. u \in Neighbors
        BY <2>1, <2>3 DEF WellFormed, Neighbors
      <3>2. u.db_summary_list = <<>> /\ u.db_summary_send_iter = 0
        BY <2>1, <2>2 DEF WellFormed, Neighbors
      <3> QED BY <2>3, <3>1, <3>2 DEF WellFormed
    <2>5. Produced(r) = [t EXCEPT !.db_summary_list = <<>>]
      BY <1>4 DEF Produced, Sent, t
    <2> QED BY <2>4, <2>5
  <1>5. CASE ~EndsExchange(r)
    BY <1>3, <1>5 DEF Produced, Sent
  <1> QED BY <1>4, <1>5

-----------------------------------------------------------------------------
(* process_dd.                                                             *)

LEMMA ErasedType ==
  ASSUME NEW r, WellFormed(r), r.db_summary_send_iter # NoIter
  PROVE  WellFormed(Erased(r))
  <1> DEFINE n == Len(r.db_summary_list)
             a == Len(Acknowledged(r))
             list == SubSeq(r.db_summary_list, a + 1, n)
             iter == IF r.db_summary_send_iter = 0 THEN 0 ELSE 1
  <1>1. /\ r.db_summary_list \in Seq(Stored) /\ n \in Nat
        /\ r.db_summary_send_iter \in 0 .. n
    BY DEF WellFormed, Neighbors
  <1>2. a = IF r.db_summary_send_iter = 0 THEN n
                                          ELSE r.db_summary_send_iter - 1
    BY <1>1, BeforeType DEF Acknowledged
  <1>3. a + 1 \in 1 .. n + 1
    BY <1>1, <1>2
  <1>4. list \in Seq(Stored) /\ Len(list) = n - a
    BY <1>1, <1>3, SubSeqProperties
  <1>5. iter \in 0 .. Len(list)
    BY <1>1, <1>2, <1>4
  <1> HIDE DEF n, a, list, iter
  <1>6. Erased(r) = [r EXCEPT !.db_summary_list = list,
                              !.db_summary_send_iter = iter]
    BY DEF Erased, n, a, list, iter, WellFormed, Neighbors
  <1>7. iter \in Int
    BY <1>4, <1>5
  <1>8. Erased(r) \in Neighbors
    BY <1>4, <1>6, <1>7 DEF WellFormed, Neighbors
  <1>9. /\ Erased(r).db_summary_list = list
        /\ Erased(r).db_summary_send_iter = iter
    BY <1>6 DEF WellFormed, Neighbors
  <1> QED BY <1>5, <1>8, <1>9 DEF WellFormed

LEMMA HeardType ==
  ASSUME NEW r, WellFormed(r), NEW p \in Packets PROVE WellFormed(Heard(r, p))
  <1> DEFINE reqs == [k \in Keys |-> IF k \in p.hdrs \ InDb
                                     THEN r.link_state_request_list[k] + 1
                                     ELSE r.link_state_request_list[k]]
  <1>1. p.hdrs \in SUBSET Keys /\ p.m \in BOOLEAN
    BY ConstantsAssumption
  <1>2. reqs \in [Keys -> Nat]
    BY DEF WellFormed, Neighbors
  <1>3. r.listed \cup p.hdrs \in SUBSET Keys
    BY <1>1 DEF WellFormed, Neighbors
  <1>4. (~p.m) \in BOOLEAN
    OBVIOUS
  <1>5. Heard(r, p) \in Neighbors
    BY <1>2, <1>3, <1>4 DEF Heard, WellFormed, Neighbors
  <1>6. /\ Heard(r, p).db_summary_list = r.db_summary_list
        /\ Heard(r, p).db_summary_send_iter = r.db_summary_send_iter
    BY DEF Heard, WellFormed, Neighbors
  <1> QED BY <1>5, <1>6 DEF WellFormed

LEMMA NotedType ==
  ASSUME NEW n \in Nbr, NEW p \in Packets, WellFormed(nbr[n])
  PROVE  /\ WellFormed(Noted(n, p))
         /\ WellFormed(Entered(n, p))
         /\ WellFormed(Opened(n, p))
  <1>1. p.seq \in SeqNums /\ p.options \in Options
    BY ConstantsAssumption
  <1>2. WellFormed(Noted(n, p))
    BY <1>1 DEF Noted, WellFormed, Neighbors
  <1>3. WellFormed(Entered(n, p))
    BY <1>2, HelloType DEF Entered
  <1>4. WellFormed(Opened(n, p))
    <2> DEFINE e == Entered(n, p)
    <2> HIDE DEF e
    <2>1. WellFormed(e)
      BY <1>3 DEF e
    <2>2. WellFormed([e EXCEPT !.dd_options = p.options])
      BY <1>1, <2>1 DEF WellFormed, Neighbors
    <2> QED BY <2>2 DEF Opened, e
  <1> QED BY <1>2, <1>3, <1>4

LEMMA AdvanceType ==
  ASSUME NEW r, WellFormed(r) PROVE WellFormed(Advance(r))
  <1>1. r.dd_seq_num \in SeqNums
    BY DEF WellFormed, Neighbors
  <1>2. (r.dd_seq_num + 1) % SeqSpace \in SeqNums
    BY <1>1, SuccSeq
  <1> QED BY <1>2 DEF Advance, WellFormed, Neighbors

\* The object EXCHANGE starts from, as slave and as master.
LEMMA NegotiatedType ==
  ASSUME NEW r, WellFormed(r), NEW b \in BOOLEAN, NEW s \in SeqNums,
         NEW hdrs \in HeaderLists
  PROVE  /\ WellFormed(NegotiationDone([r EXCEPT !.is_master = b,
                                                 !.dd_seq_num = s,
                                                 !.dd_init = FALSE], hdrs))
         /\ WellFormed(NegotiationDone([r EXCEPT !.is_master = b,
                                                 !.dd_init = FALSE], hdrs))
  <1>1. WellFormed([r EXCEPT !.is_master = b, !.dd_seq_num = s,
                             !.dd_init = FALSE])
    BY DEF WellFormed, Neighbors
  <1>2. WellFormed([r EXCEPT !.is_master = b, !.dd_init = FALSE])
    BY DEF WellFormed, Neighbors
  <1> QED BY <1>1, <1>2, HeaderListsType, NegotiationDoneType

-----------------------------------------------------------------------------
(* The type invariant.                                                     *)

LEMMA OriginateType ==
  ASSUME lsdb \in [Stored -> Nat], NEW keys, NEW times \in Nat,
         Originate(keys, times)
  PROVE  lsdb' \in [Stored -> Nat] /\ \A k \in Stored : lsdb'[k] >= lsdb[k]
  BY DEF Originate

\* An update of one neighbour by a well formed object.
LEMMA UpdateType ==
  ASSUME TypeOK, NEW n \in Nbr, NEW r, WellFormed(r), Update(n, r),
         sender' \in Senders
  PROVE  TypeOK' /\ \A k \in Stored : lsdb'[k] >= lsdb[k]
  <1>1. nbr' \in [Nbr -> Neighbors] /\ \A m \in Nbr : WellFormed(nbr'[m])
    BY DEF TypeOK, Update, WellFormed
  <1>2. lsdb' \in [Stored -> Nat] /\ \A k \in Stored : lsdb'[k] >= lsdb[k]
    BY OriginateType DEF TypeOK, Update
  <1>3. (\A m \in Nbr : WellFormed(nbr[m]))'
    BY <1>1 DEF WellFormed
  <1> QED BY <1>1, <1>2, <1>3 DEF TypeOK, Update

LEMMA HaltType ==
  ASSUME TypeOK, NEW why \in Failures, Halt(why) PROVE TypeOK'
  BY DEF TypeOK, Halt, WellFormed

LEMMA ReplyType ==
  ASSUME TypeOK, NEW n \in Nbr, NEW r, WellFormed(r), Reply(n, r)
  PROVE  TypeOK'
  <1>1. CASE ProduceFails(r) = "no"
    BY <1>1, ProducedType, UpdateType DEF Reply, TypeOK
  <1>2. CASE ProduceFails(r) # "no"
    <2>1. ProduceFails(r) \in Failures
      BY <1>2 DEF ProduceFails, Failures
    <2> QED BY <1>2, <2>1, HaltType DEF Reply
  <1> QED BY <1>1, <1>2

LEMMA AcceptType ==
  ASSUME TypeOK, NEW n \in Nbr, NEW r, WellFormed(r), NEW p \in Packets,
         Accept(n, r, p)
  PROVE  TypeOK'
  <1>1. CASE r.db_summary_send_iter = NoIter
    <2>1. "iterator" \in Failures
      BY DEF Failures
    <2> QED BY <1>1, <2>1, HaltType DEF Accept
  <1>2. CASE r.db_summary_send_iter # NoIter
    <2> DEFINE s == Heard(Erased(r), p)
    <2>1. WellFormed(s)
      BY <1>2, ErasedType, HeardType
    <2>2. WellFormed(ExchangeDone(s))
      BY <2>1, ExchangeDoneType
    <2>3. \/ Update(n, ExchangeDone(s)) /\ UNCHANGED sender
          \/ Reply(n, s)
      BY <1>2 DEF Accept
    <2> HIDE DEF s
    <2> QED BY <2>1, <2>2, <2>3, UpdateType, ReplyType DEF TypeOK
  <1> QED BY <1>1, <1>2

LEMMA ReceiveHelloType ==
  ASSUME TypeOK, NEW n \in Nbr, NEW seen \in BOOLEAN, NEW adj \in BOOLEAN,
         NEW elections \in 0 .. 2, NEW changed \in BOOLEAN,
         ReceiveHello(n, seen, adj, elections, changed)
  PROVE  TypeOK'
  <1> DEFINE known == HelloReceived([nbr[n] EXCEPT !.adj = adj])
             next == IF seen THEN TwoWayReceived(known)
                             ELSE OneWayReceived(known)
             After(m) == LET r == IF m = n THEN next ELSE nbr[m]
                         IN  IF changed THEN AdjOk(r) ELSE r
  <1>1. \A m \in Nbr : WellFormed(nbr[m])
    BY DEF TypeOK
  <1>2. WellFormed([nbr[n] EXCEPT !.adj = adj])
    BY <1>1 DEF WellFormed, Neighbors
  <1>3. WellFormed(next)
    BY <1>2, HelloType
  <1> HIDE DEF next
  <1>4. \A m \in Nbr : WellFormed(After(m))
    BY <1>1, <1>3, HelloType
  <1>5. nbr' = [m \in Nbr |-> After(m)]
    BY DEF ReceiveHello, next
  <1> HIDE DEF After
  <1>6. nbr' \in [Nbr -> Neighbors] /\ \A m \in Nbr : WellFormed(nbr'[m])
    BY <1>4, <1>5 DEF WellFormed
  <1>7. (\A m \in Nbr : WellFormed(nbr[m]))'
    BY <1>6 DEF WellFormed
  <1>8. lsdb' \in [Stored -> Nat] /\ amDR' \in BOOLEAN
    BY OriginateType DEF ReceiveHello, TypeOK
  <1> QED BY <1>6, <1>7, <1>8 DEF ReceiveHello, TypeOK

LEMMA ReceiveDDType ==
  ASSUME TypeOK, NEW n \in Nbr, NEW p \in Packets, ReceiveDD(n, p)
  PROVE  TypeOK'
  <1>1. /\ WellFormed(nbr[n]) /\ WellFormed(Noted(n, p))
        /\ WellFormed(Entered(n, p)) /\ WellFormed(Opened(n, p))
    BY NotedType DEF TypeOK
  <1>2. sender \in Senders
    BY DEF TypeOK
  <1>3. p.seq \in SeqNums
    BY ConstantsAssumption
  <1>4. CASE DDTooEarly(n, p)
    BY <1>1, <1>2, <1>4, UpdateType DEF DDTooEarly
  <1>5. CASE DDUnanswered(n, p)
    BY <1>1, <1>2, <1>5, UpdateType DEF DDUnanswered
  <1>6. CASE BecomeSlave(n, p)
    BY <1>1, <1>3, <1>6, NegotiatedType, ReplyType DEF BecomeSlave
  <1>7. CASE BecomeMaster(n, p)
    <2>1. PICK hdrs \in HeaderLists :
            LET r == NegotiationDone([Opened(n, p) EXCEPT
                                         !.is_master = FALSE,
                                         !.dd_init = FALSE], hdrs)
            IN  \/ Update(n, r) /\ UNCHANGED sender
                \/ Accept(n, Advance(r), p)
      BY <1>7 DEF BecomeMaster
    <2> DEFINE r == NegotiationDone([Opened(n, p) EXCEPT
                                         !.is_master = FALSE,
                                         !.dd_init = FALSE], hdrs)
    <2>2. WellFormed(r)
      BY <1>1, <1>3, NegotiatedType
    <2> HIDE DEF r
    <2>3. WellFormed(Advance(r))
      BY <2>2, AdvanceType
    <2>4. \/ Update(n, r) /\ UNCHANGED sender
          \/ Accept(n, Advance(r), p)
      BY <2>1 DEF r
    <2> QED BY <1>2, <2>2, <2>3, <2>4, UpdateType, AcceptType
  <1>8. CASE DDDuplicate(n, p)
    BY <1>8 DEF DDDuplicate, TypeOK, vars, WellFormed
  <1>9. CASE DDMismatch(n, p)
    BY <1>1, <1>2, <1>9, MismatchType, UpdateType DEF DDMismatch
  <1>10. CASE DDAccepted(n, p)
    BY <1>1, <1>10, AdvanceType, AcceptType DEF DDAccepted
  <1>11. CASE DDAfterExchange(n, p)
    BY <1>1, <1>2, <1>11, MismatchType, UpdateType DEF DDAfterExchange
  <1> QED BY <1>4, <1>5, <1>6, <1>7, <1>8, <1>9, <1>10, <1>11 DEF ReceiveDD

LEMMA ReceiveLSUType ==
  ASSUME TypeOK, NEW n \in Nbr, NEW lsas \in Updates, NEW newer,
         ReceiveLSU(n, lsas, newer)
  PROVE  TypeOK'
  <1> DEFINE reqs == [k \in Keys |->
                        IF k \in lsas /\ nbr[n].link_state_request_list[k] > 0
                        THEN nbr[n].link_state_request_list[k] - 1
                        ELSE nbr[n].link_state_request_list[k]]
             r == [nbr[n] EXCEPT !.link_state_request_list = reqs]
  <1>1. nbr[n] \in Neighbors /\ WellFormed(nbr[n])
    BY DEF TypeOK
  <1>2. reqs \in [Keys -> Nat]
    BY <1>1 DEF Neighbors
  <1>3. nbr' = [nbr EXCEPT ![n] = r]
    BY <1>1 DEF ReceiveLSU, TypeOK, Neighbors
  <1> HIDE DEF reqs
  <1>4. WellFormed(r)
    BY <1>1, <1>2 DEF WellFormed, Neighbors
  <1> HIDE DEF r
  <1>5. nbr' \in [Nbr -> Neighbors] /\ \A m \in Nbr : WellFormed(nbr'[m])
    BY <1>3, <1>4 DEF TypeOK, WellFormed
  <1>6. (\A m \in Nbr : WellFormed(nbr[m]))'
    BY <1>5 DEF WellFormed
  <1>7. lsdb' \in [Stored -> Nat]
    BY DEF ReceiveLSU, TypeOK
  <1> QED BY <1>5, <1>6, <1>7 DEF ReceiveLSU, TypeOK

LEMMA ReceiveType ==
  ASSUME TypeOK, Receive PROVE TypeOK'
  <1>1. PICK n \in Nbr :
          \/ FromUnknown(n)
          \/ HelloFatal(n)
          \/ \E seen, adj, changed \in BOOLEAN, elections \in 0 .. 2 :
                ReceiveHello(n, seen, adj, elections, changed)
          \/ \E p \in Packets : ReceiveDD(n, p)
          \/ \E asked \in Asks : LSRAnswered(n, asked) \/ BadLSReq(n, asked)
          \/ \E lsas \in Updates :
                \/ \E newer \in SUBSET lsas : ReceiveLSU(n, lsas, newer)
                \/ LSUOtherType(n, lsas)
    BY DEF Receive
  <1>2. {"election", "unknown_neighbor", "bad_lsreq", "lsa_type"} \subseteq Failures
    BY DEF Failures
  <1>3. CASE FromUnknown(n) \/ HelloFatal(n)
    BY <1>2, <1>3, HaltType DEF FromUnknown, HelloFatal
  <1>4. CASE \E seen, adj, changed \in BOOLEAN, elections \in 0 .. 2 :
                ReceiveHello(n, seen, adj, elections, changed)
    BY <1>4, ReceiveHelloType
  <1>5. CASE \E p \in Packets : ReceiveDD(n, p)
    BY <1>5, ReceiveDDType
  <1>6. CASE \E asked \in Asks : LSRAnswered(n, asked) \/ BadLSReq(n, asked)
    <2>1. CASE \E asked \in Asks : BadLSReq(n, asked)
      BY <1>2, <2>1, HaltType DEF BadLSReq
    <2>2. CASE \E asked \in Asks : LSRAnswered(n, asked)
      BY <2>2 DEF LSRAnswered, TypeOK, vars, WellFormed
    <2> QED BY <1>6, <2>1, <2>2
  <1>7. CASE \E lsas \in Updates : \E newer :
                ReceiveLSU(n, lsas, newer) \/ LSUOtherType(n, lsas)
    BY <1>2, <1>7, ReceiveLSUType, HaltType DEF LSUOtherType
  <1> QED BY <1>1, <1>3, <1>4, <1>5, <1>6, <1>7

LEMMA SendType ==
  ASSUME TypeOK, Send PROVE TypeOK'
  <1>1. PICK n \in Nbr :
          \/ Visit(n) \/ SendDD(n) \/ Retransmit(n) \/ SendLSR(n)
          \/ TestLoading(n) \/ AssertLoading(n) \/ LoadingDone(n)
    BY DEF Send
  <1>2. Idle \in Senders /\ \A pc \in Pcs : At(pc, n) \in Senders
    BY DEF Senders, At
  <1>3. WellFormed(nbr[n])
    BY DEF TypeOK
  <1>4. CASE Visit(n) \/ Retransmit(n) \/ SendLSR(n) \/ TestLoading(n)
    <2>1. sender' \in Senders
      BY <1>2, <1>4 DEF Visit, Retransmit, SendLSR, TestLoading, Pcs
    <2> QED BY <1>4, <2>1
        DEF Visit, Retransmit, SendLSR, TestLoading, TypeOK, WellFormed
  <1>5. CASE SendDD(n)
    <2>1. CASE ProduceFails(nbr[n]) = "no"
      <3>1. sender' \in Senders
        BY <1>2, <1>5, <2>1 DEF SendDD, Pcs
      <3> QED BY <1>3, <1>5, <2>1, <3>1, ProducedType, UpdateType DEF SendDD
    <2>2. CASE ProduceFails(nbr[n]) # "no"
      <3>1. ProduceFails(nbr[n]) \in Failures
        BY <2>2 DEF ProduceFails, Failures
      <3> QED BY <1>5, <2>2, <3>1, HaltType DEF SendDD
    <2> QED BY <2>1, <2>2
  <1>6. CASE AssertLoading(n)
    <2>1. CASE nbr[n].state = "LOADING"
      <3>1. sender' \in Senders
        BY <1>2, <1>6, <2>1 DEF AssertLoading, Pcs
      <3> QED BY <1>6, <2>1, <3>1 DEF AssertLoading, TypeOK, WellFormed
    <2>2. CASE nbr[n].state # "LOADING"
      <3>1. "loading_done" \in Failures
        BY DEF Failures
      <3> QED BY <1>6, <2>2, <3>1, HaltType DEF AssertLoading
    <2> QED BY <2>1, <2>2
  <1>7. CASE LoadingDone(n)
    <2> DEFINE r == [nbr[n] EXCEPT !.state = "FULL"]
    <2>1. WellFormed(r)
      BY <1>3, StateType DEF States
    <2>2. nbr' = [nbr EXCEPT ![n] = r]
      BY <1>7 DEF LoadingDone
    <2> HIDE DEF r
    <2>3. nbr' \in [Nbr -> Neighbors] /\ \A m \in Nbr : WellFormed(nbr'[m])
      BY <2>1, <2>2 DEF TypeOK, WellFormed
    <2>4. (\A m \in Nbr : WellFormed(nbr[m]))'
      BY <2>3 DEF WellFormed
    <2>5. lsdb' \in [Stored -> Nat] /\ sender' \in Senders
      BY <1>2, <1>7, OriginateType DEF LoadingDone, TypeOK
    <2> QED BY <1>7, <2>3, <2>4, <2>5 DEF LoadingDone, TypeOK
  <1> QED BY <1>1, <1>4, <1>5, <1>6, <1>7

\* A router that has met no neighbour, whatever its database holds.
Started ==
    /\ nbr \in [Nbr -> {NewNeighbor(seq) : seq \in SeqNums}]
    /\ lsdb \in [Stored -> Nat] /\ amDR \in BOOLEAN
    /\ sender = Idle /\ halted = "no"

LEMMA InitStarted == Init => Started
  <1>1. [k \in Stored |-> 0] \in [Stored -> Nat]
    OBVIOUS
  <1> QED BY <1>1 DEF Init, Started

LEMMA StartedType == Started => TypeOK
  <1> SUFFICES ASSUME Started PROVE TypeOK
    OBVIOUS
  <1>1. \A s \in SeqNums : WellFormed(NewNeighbor(s))
    <2> SUFFICES ASSUME NEW s \in SeqNums PROVE WellFormed(NewNeighbor(s))
      OBVIOUS
    <2>1. (CHOOSE o \in Options : TRUE) \in Options
      BY ConstantsAssumption
    <2>2. <<>> \in Seq(Stored) /\ Len(<<>>) = 0 /\ {} \in SUBSET Keys
      OBVIOUS
    <2>3. [ms |-> FALSE, m |-> FALSE, i |-> FALSE, seq |-> 0, hdrs |-> <<>>]
             \in SentDDs
      BY <2>2, ZeroSeq DEF SentDDs
    <2>4. NewNeighbor(s) \in Neighbors
      BY <2>1, <2>2, <2>3, ZeroSeq, NoRequestsType
         DEF NewNeighbor, Neighbors, States, NoIter
    <2> QED BY <2>4 DEF WellFormed, NewNeighbor
  <1>2. nbr \in [Nbr -> Neighbors] /\ \A n \in Nbr : WellFormed(nbr[n])
    BY <1>1 DEF Started, WellFormed
  <1>3. Idle \in Senders
    BY DEF Senders
  <1> QED BY <1>2, <1>3 DEF Started, TypeOK

LEMMA InitType == Init => TypeOK
  BY InitStarted, StartedType

\* Any step of either thread keeps the types.
LEMMA NextType == TypeOK /\ [Next]_vars => TypeOK'
  <1> SUFFICES ASSUME TypeOK, [Next]_vars PROVE TypeOK'
    OBVIOUS
  <1>1. CASE UNCHANGED vars
    BY <1>1 DEF vars, TypeOK, WellFormed
  <1>2. CASE Next
    BY <1>2, ReceiveType, SendType DEF Next
  <1> QED BY <1>1, <1>2

\* Every reachable state is well typed: in particular dd_seq_num wraps with
\* uint32_t and the send iterator, unless it is unusable, stays within the
\* summary list through erasing, appending and clearing.
THEOREM TypeCorrect == Spec => []TypeOK
  BY InitType, NextType, PTL DEF Spec
-----------------------------------------------------------------------------
(* What each step keeps, whatever send_loop is at: EchoSeq, SlaveIterValid *)
(* and SlaveAcked.  Each is a statement about one Neighbor object (and the *)
(* database, which only grows).  EchoSeq is not inductive as it stands:    *)
(* LoadingDone may put FULL in any state, so the reply has to match for a  *)
(* slave in every state, and dd_init has to be down.                       *)

Kept(r) == r.listed \subseteq InDb \cup Requested(r)

\* dd_init is down for a slave: its DDs carry no I.
Slave(r) == r.is_master => ~r.dd_init

Replies(r) ==
    /\ Slave(r)
    /\ r.is_master => /\ r.last_dd.seq = r.dd_seq_num
                      /\ ~r.last_dd.ms /\ ~r.last_dd.i
    /\ r.is_master /\ r.state = "EXCHANGE" =>
          /\ r.db_summary_send_iter # NoIter
          /\ Len(r.db_summary_list) <= MaxHdr =>
                /\ r.last_dd.hdrs = r.db_summary_list
                /\ r.db_summary_send_iter = 0

Good(r) == Kept(r) /\ Replies(r)
ReplyInv == TypeOK /\ \A n \in Nbr : Good(nbr[n])

\* What the neighbour owes is the same, or nothing was listed.
LEMMA KeptLemma ==
  ASSUME NEW r, NEW s, Kept(r),
         \/ s.listed = {}
         \/ /\ s.listed = r.listed
            /\ s.link_state_request_list = r.link_state_request_list
  PROVE  Kept(s)
  BY DEF Kept, Requested

LEMMA RestartGood ==
  ASSUME NEW r, WellFormed(r), Good(r) PROVE Good(Restart(r))
  <1>1. /\ Restart(r).listed = r.listed /\ ~Restart(r).is_master
        /\ Restart(r).link_state_request_list = r.link_state_request_list
    BY DEF Restart, WellFormed, Neighbors
  <1> QED BY <1>1, KeptLemma DEF Good, Replies, Slave

\* Leaving EXCHANGE for a state below it, with or without clearing.
LEMMA LeaveGood ==
  ASSUME NEW r, WellFormed(r), Good(r), NEW s, s # "EXCHANGE"
  PROVE  /\ Good([r EXCEPT !.state = s])
         /\ Good(ClearLists([r EXCEPT !.state = s]))
  <1> DEFINE t == [r EXCEPT !.state = s]
  <1>1. /\ t.state = s /\ t.listed = r.listed
        /\ t.link_state_request_list = r.link_state_request_list
        /\ t.is_master = r.is_master /\ t.dd_init = r.dd_init
        /\ t.last_dd = r.last_dd /\ t.dd_seq_num = r.dd_seq_num
    BY DEF WellFormed, Neighbors
  <1>2. /\ ClearLists(t).listed = {} /\ ClearLists(t).state = s
        /\ ClearLists(t).is_master = r.is_master
        /\ ClearLists(t).dd_init = r.dd_init
        /\ ClearLists(t).last_dd = r.last_dd
        /\ ClearLists(t).dd_seq_num = r.dd_seq_num
    BY DEF ClearLists, WellFormed, Neighbors
  <1>3. Kept(t) /\ Kept(ClearLists(t))
    BY <1>1, <1>2, KeptLemma DEF Good
  <1> HIDE DEF t
  <1>4. Replies(t) /\ Replies(ClearLists(t))
    BY <1>1, <1>2 DEF Good, Replies, Slave
  <1> QED BY <1>3, <1>4 DEF Good, t

LEMMA MismatchGood ==
  ASSUME NEW r, WellFormed(r), Good(r) PROVE Good(SeqNumberMismatch(r))
  <1>1. /\ SeqNumberMismatch(r).listed = {}
        /\ ~SeqNumberMismatch(r).is_master
    BY DEF SeqNumberMismatch, ClearLists, Restart, WellFormed, Neighbors
  <1> QED BY <1>1, KeptLemma DEF Good, Replies, Slave

LEMMA HelloGood ==
  ASSUME NEW r, WellFormed(r), Good(r)
  PROVE  /\ Good(HelloReceived(r)) /\ Good(TwoWayReceived(r))
         /\ Good(OneWayReceived(r)) /\ Good(AdjOk(r))
  <1>1. /\ Good([r EXCEPT !.state = "INIT"])
        /\ Good([r EXCEPT !.state = "TWOWAY"])
        /\ Good(ClearLists([r EXCEPT !.state = "INIT"]))
    BY LeaveGood
  <1>2. Good(Restart(r))
    BY RestartGood
  <1> QED BY <1>1, <1>2
      DEF HelloReceived, TwoWayReceived, OneWayReceived, AdjOk

\* Fields that neither Kept nor Replies speak of.
LEMMA NotedGood ==
  ASSUME NEW n \in Nbr, NEW p \in Packets, WellFormed(nbr[n]), Good(nbr[n])
  PROVE  Good(Noted(n, p)) /\ Good(Entered(n, p)) /\ Good(Opened(n, p))
  <1>1. WellFormed(Noted(n, p)) /\ WellFormed(Entered(n, p))
    BY NotedType
  <1>2. Good(Noted(n, p))
    BY DEF Noted, Good, Kept, Requested, Replies, Slave, WellFormed, Neighbors
  <1>3. Good(Entered(n, p))
    BY <1>1, <1>2, HelloGood DEF Entered
  <1>4. Good(Opened(n, p))
    <2> DEFINE e == Entered(n, p)
    <2>1. WellFormed(e) /\ Good(e)
      BY <1>1, <1>3
    <2> HIDE DEF e
    <2>2. Good([e EXCEPT !.dd_options = p.options])
      BY <2>1 DEF Good, Kept, Requested, Replies, Slave, WellFormed, Neighbors
    <2> QED BY <2>2 DEF Opened, e
  <1> QED BY <1>2, <1>3, <1>4

\* produce_dd makes the kept reply match, whatever it was before.
LEMMA ProducedGood ==
  ASSUME NEW r, WellFormed(r), Kept(r), Slave(r) PROVE Good(Produced(r))
  <1> DEFINE iter == CASE Splits(r) -> Advanced(r)
                       [] SendsRest(r) -> 0
                       [] OTHER -> r.db_summary_send_iter
             s == [r EXCEPT !.last_dd = ProducedDD(r),
                            !.db_summary_send_iter = iter]
             t == [ExchangeDone(s) EXCEPT !.db_summary_list = <<>>]
  <1>1. Produced(r) = IF EndsExchange(r) THEN t ELSE s
    BY DEF Produced, Sent
  <1>2. /\ s.listed = r.listed
        /\ s.link_state_request_list = r.link_state_request_list
        /\ s.is_master = r.is_master /\ s.dd_init = r.dd_init
        /\ s.dd_seq_num = r.dd_seq_num /\ s.last_dd = ProducedDD(r)
        /\ s.db_summary_list = r.db_summary_list
        /\ s.db_summary_send_iter = iter
    BY DEF WellFormed, Neighbors
  <1>3. /\ t.listed = r.listed
        /\ t.link_state_request_list = r.link_state_request_list
        /\ t.is_master = r.is_master /\ t.dd_init = r.dd_init
        /\ t.dd_seq_num = r.dd_seq_num /\ t.last_dd = ProducedDD(r)
        /\ t.state # "EXCHANGE"
    BY DEF ExchangeDone, WellFormed, Neighbors
  <1>4. Kept(s) /\ Kept(t)
    BY <1>2, <1>3, KeptLemma
  <1>5. /\ ProducedDD(r).seq = r.dd_seq_num
        /\ ProducedDD(r).ms = ~r.is_master /\ ProducedDD(r).i = r.dd_init
        /\ SendsRest(r) => ProducedDD(r).hdrs = r.db_summary_list
    BY DEF ProducedDD, Splits, SendsRest, WellFormed, Neighbors
  <1>6. r.is_master => /\ ~r.dd_init
                       /\ Splits(r) \/ SendsRest(r)
                       /\ SendsRest(r) <=> Len(r.db_summary_list) <= MaxHdr
    BY ConstantsAssumption DEF Slave, Splits, SendsRest, WellFormed, Neighbors
  <1>7. r.is_master => /\ iter # NoIter
                       /\ SendsRest(r) => iter = 0
    BY <1>6, AdvancedType, ConstantsAssumption
       DEF NoIter, Splits, SendsRest, WellFormed, Neighbors
  <1> HIDE DEF iter, s, t
  <1>8. Replies(s)
    BY <1>2, <1>5, <1>6, <1>7 DEF Replies, Slave
  <1>9. Replies(t)
    BY <1>3, <1>5, <1>6 DEF Replies, Slave
  <1> QED BY <1>1, <1>4, <1>8, <1>9 DEF Good

\* The steps before a reply keep Kept; none of them raises dd_init.
LEMMA ErasedKept ==
  ASSUME NEW r, WellFormed(r), Kept(r), Slave(r)
  PROVE  Kept(Erased(r)) /\ Slave(Erased(r))
  <1>1. /\ Erased(r).listed = r.listed
        /\ Erased(r).link_state_request_list = r.link_state_request_list
        /\ Erased(r).is_master = r.is_master /\ Erased(r).dd_init = r.dd_init
    BY DEF Erased, WellFormed, Neighbors
  <1> QED BY <1>1, KeptLemma DEF Slave

LEMMA AdvanceKept ==
  ASSUME NEW r, WellFormed(r), Kept(r), Slave(r)
  PROVE  Kept(Advance(r)) /\ Slave(Advance(r))
  <1>1. /\ Advance(r).listed = r.listed
        /\ Advance(r).link_state_request_list = r.link_state_request_list
        /\ Advance(r).is_master = r.is_master
        /\ Advance(r).dd_init = r.dd_init
    BY DEF Advance, WellFormed, Neighbors
  <1> QED BY <1>1, KeptLemma DEF Slave

\* Every header of the packet is in the database or is requested from now on.
LEMMA HeardKept ==
  ASSUME NEW r, WellFormed(r), Kept(r), Slave(r), NEW p \in Packets
  PROVE  Kept(Heard(r, p)) /\ Slave(Heard(r, p))
  <1> DEFINE reqs == [k \in Keys |-> IF k \in p.hdrs \ InDb
                                     THEN r.link_state_request_list[k] + 1
                                     ELSE r.link_state_request_list[k]]
  <1>1. p.hdrs \subseteq Keys
    BY ConstantsAssumption
  <1>2. /\ Heard(r, p).listed = r.listed \cup p.hdrs
        /\ Heard(r, p).link_state_request_list = reqs
        /\ Heard(r, p).is_master = r.is_master
        /\ Heard(r, p).dd_init = r.dd_init
    BY DEF Heard, WellFormed, Neighbors
  <1>3. r.link_state_request_list \in [Keys -> Nat]
    BY DEF WellFormed, Neighbors
  <1>4. \A k \in Keys : k \in p.hdrs \ InDb => reqs[k] > 0
    BY <1>3
  <1>5. \A k \in Keys : r.link_state_request_list[k] > 0 => reqs[k] > 0
    BY <1>3
  <1> HIDE DEF reqs
  <1>6. Requested(r) \subseteq Requested(Heard(r, p))
    BY <1>2, <1>5 DEF Requested
  <1>7. p.hdrs \subseteq InDb \cup Requested(Heard(r, p))
    BY <1>1, <1>2, <1>4 DEF Requested
  <1> QED BY <1>2, <1>6, <1>7 DEF Kept, Slave

\* A master that is done sends no reply.
LEMMA ExchangeDoneGood ==
  ASSUME NEW r, WellFormed(r), Kept(r), ~r.is_master
  PROVE  Good(ExchangeDone(r))
  <1>1. /\ ExchangeDone(r).listed = r.listed
        /\ ExchangeDone(r).link_state_request_list
             = r.link_state_request_list
        /\ ~ExchangeDone(r).is_master
    BY DEF ExchangeDone, WellFormed, Neighbors
  <1> QED BY <1>1, KeptLemma DEF Good, Replies, Slave

\* A session starts with nothing listed and dd_init down.
LEMMA NegotiatedKept ==
  ASSUME NEW r, WellFormed(r), NEW b \in BOOLEAN, NEW s \in SeqNums, NEW hdrs
  PROVE  LET t == NegotiationDone([r EXCEPT !.is_master = b,
                                            !.dd_seq_num = s,
                                            !.dd_init = FALSE], hdrs)
             u == NegotiationDone([r EXCEPT !.is_master = b,
                                            !.dd_init = FALSE], hdrs)
         IN  /\ Kept(t) /\ Slave(t)
             /\ Kept(u) /\ Slave(u) /\ u.is_master = b
  BY DEF NegotiationDone, Kept, Slave, WellFormed, Neighbors

\* What is kept stays kept while the database grows.
LEMMA GrowthGood ==
  ASSUME TypeOK, \A k \in Stored : lsdb'[k] >= lsdb[k],
         lsdb' \in [Stored -> Nat]
  PROVE  InDb \subseteq InDb'
  BY DEF InDb, TypeOK

LEMMA UpdateGood ==
  ASSUME ReplyInv, NEW n \in Nbr, NEW r, WellFormed(r), Good(r),
         Update(n, r), sender' \in Senders
  PROVE  ReplyInv'
  <1>1. TypeOK' /\ \A k \in Stored : lsdb'[k] >= lsdb[k]
    BY UpdateType DEF ReplyInv
  <1>2. InDb \subseteq InDb'
    BY <1>1, GrowthGood DEF ReplyInv, TypeOK
  <1>3. \A m \in Nbr : Good(nbr'[m])
    BY DEF ReplyInv, TypeOK, Update
  <1>4. \A m \in Nbr : Good(nbr[m])'
    BY <1>2, <1>3 DEF Good, Kept, Requested, Replies, Slave
  <1> QED BY <1>1, <1>4 DEF ReplyInv

LEMMA HaltGood ==
  ASSUME ReplyInv, NEW why \in Failures, Halt(why) PROVE ReplyInv'
  <1>1. TypeOK'
    BY HaltType DEF ReplyInv
  <1>2. \A m \in Nbr : Good(nbr[m])'
    BY DEF ReplyInv, Halt, Good, Kept, InDb, Requested, Replies, Slave
  <1> QED BY <1>1, <1>2 DEF ReplyInv

LEMMA StutterGood ==
  ASSUME ReplyInv, UNCHANGED <<nbr, lsdb>>, TypeOK' PROVE ReplyInv'
  BY DEF ReplyInv, Good, Kept, InDb, Requested, Replies, Slave

LEMMA ReplyGood ==
  ASSUME ReplyInv, NEW n \in Nbr, NEW r, WellFormed(r), Kept(r), Slave(r),
         Reply(n, r)
  PROVE  ReplyInv'
  <1>1. CASE ProduceFails(r) = "no"
    <2>1. sender' \in Senders
      BY <1>1 DEF Reply, ReplyInv, TypeOK
    <2> QED BY <1>1, <2>1, ProducedType, ProducedGood, UpdateGood DEF Reply
  <1>2. CASE ProduceFails(r) # "no"
    <2>1. ProduceFails(r) \in Failures
      BY <1>2 DEF ProduceFails, Failures
    <2> QED BY <1>2, <2>1, HaltGood DEF Reply
  <1> QED BY <1>1, <1>2

LEMMA AcceptGood ==
  ASSUME ReplyInv, NEW n \in Nbr, NEW r, WellFormed(r), Kept(r), Slave(r),
         NEW p \in Packets, Accept(n, r, p)
  PROVE  ReplyInv'
  <1>1. CASE r.db_summary_send_iter = NoIter
    <2>1. "iterator" \in Failures
      BY DEF Failures
    <2> QED BY <1>1, <2>1, HaltGood DEF Accept
  <1>2. CASE r.db_summary_send_iter # NoIter
    <2> DEFINE s == Heard(Erased(r), p)
    <2>1. WellFormed(s)
      BY <1>2, ErasedType, HeardType
    <2>2. Kept(s) /\ Slave(s)
      BY <1>2, ErasedType, ErasedKept, HeardKept
    <2>3. \/ ~s.is_master /\ Update(n, ExchangeDone(s)) /\ UNCHANGED sender
          \/ Reply(n, s)
      BY <1>2 DEF Accept
    <2> HIDE DEF s
    <2>4. CASE Reply(n, s)
      BY <2>1, <2>2, <2>4, ReplyGood
    <2>5. CASE ~s.is_master /\ Update(n, ExchangeDone(s)) /\ UNCHANGED sender
      <3>1. sender' \in Senders
        BY <2>5 DEF ReplyInv, TypeOK
      <3> QED BY <2>1, <2>2, <2>5, <3>1, ExchangeDoneType, ExchangeDoneGood,
                 UpdateGood
    <2> QED BY <2>3, <2>4, <2>5
  <1> QED BY <1>1, <1>2

LEMMA ReceiveHelloGood ==
  ASSUME ReplyInv, NEW n \in Nbr, NEW seen \in BOOLEAN, NEW adj \in BOOLEAN,
         NEW elections \in 0 .. 2, NEW changed \in BOOLEAN,
         ReceiveHello(n, seen, adj, elections, changed)
  PROVE  ReplyInv'
  <1> DEFINE base == [nbr[n] EXCEPT !.adj = adj]
             known == HelloReceived(base)
             next == IF seen THEN TwoWayReceived(known)
                             ELSE OneWayReceived(known)
             After(m) == LET r == IF m = n THEN next ELSE nbr[m]
                         IN  IF changed THEN AdjOk(r) ELSE r
  <1>1. \A m \in Nbr : WellFormed(nbr[m]) /\ Good(nbr[m])
    BY DEF ReplyInv, TypeOK
  <1>2. WellFormed(base)
    BY <1>1 DEF WellFormed, Neighbors
  <1>3. Good(base)
    BY <1>1 DEF Good, Kept, Requested, Replies, Slave, WellFormed, Neighbors
  <1> HIDE DEF base
  <1>4. WellFormed(next) /\ Good(next)
    BY <1>2, <1>3, HelloType, HelloGood
  <1> HIDE DEF next
  <1>5. \A m \in Nbr : Good(After(m))
    BY <1>1, <1>4, HelloGood
  <1>6. nbr' = [m \in Nbr |-> After(m)]
    BY DEF ReceiveHello, next, base
  <1> HIDE DEF After
  <1>7. TypeOK'
    BY ReceiveHelloType DEF ReplyInv
  <1>8. \A k \in Stored : lsdb'[k] >= lsdb[k]
    BY OriginateType DEF ReceiveHello, ReplyInv, TypeOK
  <1>9. InDb \subseteq InDb'
    BY <1>7, <1>8, GrowthGood DEF ReplyInv, TypeOK
  <1>10. \A m \in Nbr : Good(nbr'[m])
    BY <1>5, <1>6
  <1>11. \A m \in Nbr : Good(nbr[m])'
    BY <1>9, <1>10 DEF Good, Kept, Requested, Replies, Slave
  <1> QED BY <1>7, <1>11 DEF ReplyInv

LEMMA ReceiveDDGood ==
  ASSUME ReplyInv, NEW n \in Nbr, NEW p \in Packets, ReceiveDD(n, p)
  PROVE  ReplyInv'
  <1>1. WellFormed(nbr[n]) /\ Good(nbr[n]) /\ sender \in Senders
    BY DEF ReplyInv, TypeOK
  <1>2. /\ WellFormed(Noted(n, p)) /\ WellFormed(Entered(n, p))
        /\ WellFormed(Opened(n, p))
    BY <1>1, NotedType
  <1>3. Good(Noted(n, p)) /\ Good(Entered(n, p)) /\ Good(Opened(n, p))
    BY <1>1, NotedGood
  <1>4. p.seq \in SeqNums
    BY ConstantsAssumption
  <1>5. CASE DDTooEarly(n, p)
    BY <1>1, <1>2, <1>3, <1>5, UpdateGood DEF DDTooEarly
  <1>6. CASE DDUnanswered(n, p)
    BY <1>1, <1>2, <1>3, <1>6, UpdateGood DEF DDUnanswered
  <1>7. CASE BecomeSlave(n, p)
    <2>1. PICK hdrs \in HeaderLists :
            Reply(n, NegotiationDone([Opened(n, p) EXCEPT
                                         !.is_master = TRUE,
                                         !.dd_seq_num = p.seq,
                                         !.dd_init = FALSE], hdrs))
      BY <1>7 DEF BecomeSlave
    <2> DEFINE r == NegotiationDone([Opened(n, p) EXCEPT
                                         !.is_master = TRUE,
                                         !.dd_seq_num = p.seq,
                                         !.dd_init = FALSE], hdrs)
    <2>2. WellFormed(r) /\ Kept(r) /\ Slave(r)
      BY <1>2, <1>4, NegotiatedType, NegotiatedKept
    <2> HIDE DEF r
    <2>3. Reply(n, r)
      BY <2>1 DEF r
    <2> QED BY <2>2, <2>3, ReplyGood
  <1>8. CASE BecomeMaster(n, p)
    <2>1. PICK hdrs \in HeaderLists :
            LET r == NegotiationDone([Opened(n, p) EXCEPT
                                         !.is_master = FALSE,
                                         !.dd_init = FALSE], hdrs)
            IN  \/ Update(n, r) /\ UNCHANGED sender
                \/ Accept(n, Advance(r), p)
      BY <1>8 DEF BecomeMaster
    <2> DEFINE r == NegotiationDone([Opened(n, p) EXCEPT
                                         !.is_master = FALSE,
                                         !.dd_init = FALSE], hdrs)
    <2>2. WellFormed(r) /\ Kept(r) /\ Slave(r) /\ ~r.is_master
      BY <1>2, <1>4, NegotiatedType, NegotiatedKept
    <2>3. \/ Update(n, r) /\ UNCHANGED sender
          \/ Accept(n, Advance(r), p)
      BY <2>1
    <2> HIDE DEF r
    <2>4. Good(r)
      BY <2>2 DEF Good, Replies
    <2>5. WellFormed(Advance(r)) /\ Kept(Advance(r)) /\ Slave(Advance(r))
      BY <2>2, AdvanceType, AdvanceKept
    <2> QED BY <1>1, <2>2, <2>3, <2>4, <2>5, UpdateGood, AcceptGood
  <1>9. CASE DDDuplicate(n, p)
    <2>1. TypeOK'
      BY ReceiveDDType DEF ReplyInv
    <2> QED BY <1>9, <2>1, StutterGood DEF DDDuplicate, vars
  <1>10. CASE DDMismatch(n, p)
    BY <1>1, <1>2, <1>3, <1>10, MismatchType, MismatchGood, UpdateGood
       DEF DDMismatch
  <1>11. CASE DDAccepted(n, p)
    <2>1. /\ WellFormed(Advance(Noted(n, p)))
          /\ Kept(Advance(Noted(n, p))) /\ Slave(Advance(Noted(n, p)))
      BY <1>2, <1>3, AdvanceType, AdvanceKept DEF Good, Replies
    <2> QED BY <1>11, <2>1, AcceptGood DEF DDAccepted
  <1>12. CASE DDAfterExchange(n, p)
    BY <1>1, <1>2, <1>3, <1>12, MismatchType, MismatchGood, UpdateGood
       DEF DDAfterExchange
  <1> QED BY <1>5, <1>6, <1>7, <1>8, <1>9, <1>10, <1>11, <1>12 DEF ReceiveDD

\* A request goes only when its LSA comes.
LEMMA ReceiveLSUGood ==
  ASSUME ReplyInv, NEW n \in Nbr, NEW lsas \in Updates, NEW newer,
         newer \subseteq lsas, ReceiveLSU(n, lsas, newer)
  PROVE  ReplyInv'
  <1> DEFINE old == nbr[n].link_state_request_list
             reqs == [k \in Keys |-> IF k \in lsas /\ old[k] > 0
                                     THEN old[k] - 1 ELSE old[k]]
             r == [nbr[n] EXCEPT !.link_state_request_list = reqs]
  <1>1. nbr[n] \in Neighbors /\ Good(nbr[n]) /\ old \in [Keys -> Nat]
    BY DEF ReplyInv, TypeOK, Neighbors
  <1>2. nbr' = [nbr EXCEPT ![n] = r]
    BY <1>1 DEF ReceiveLSU, ReplyInv, TypeOK, Neighbors
  <1>3. lsas \subseteq Keys /\ lsas \subseteq Stored
    BY ConstantsAssumption DEF ReceiveLSU, Keys
  <1>4. \A k \in Stored : /\ lsdb[k] \in Nat
                          /\ lsdb'[k] = IF k \in lsas \ newer
                                        THEN lsdb[k] + 1 ELSE lsdb[k]
    BY DEF ReceiveLSU, ReplyInv, TypeOK
  <1>5. InDb \subseteq InDb' /\ lsas \subseteq InDb'
    BY <1>3, <1>4 DEF ReceiveLSU, InDb
  <1>6. \A k \in Keys : k \notin lsas => reqs[k] = old[k]
    OBVIOUS
  <1>7. /\ r.link_state_request_list = reqs /\ r.listed = nbr[n].listed
        /\ r.is_master = nbr[n].is_master /\ r.dd_init = nbr[n].dd_init
        /\ r.last_dd = nbr[n].last_dd /\ r.dd_seq_num = nbr[n].dd_seq_num
        /\ r.db_summary_list = nbr[n].db_summary_list
        /\ r.db_summary_send_iter = nbr[n].db_summary_send_iter
        /\ r.state = nbr[n].state
    BY <1>1 DEF Neighbors
  <1> HIDE DEF reqs, r
  <1>8. Replies(r)
    BY <1>1, <1>7 DEF Good, Replies, Slave
  <1>9. r.listed \subseteq InDb' \cup Requested(r)
    <2>1. nbr[n].listed \subseteq InDb \cup Requested(nbr[n])
      BY <1>1 DEF Good, Kept
    <2>2. Requested(nbr[n]) \subseteq lsas \cup Requested(r)
      BY <1>6, <1>7 DEF Requested
    <2> QED BY <1>5, <1>7, <2>1, <2>2
  <1>10. \A m \in Nbr :
            Replies(nbr'[m])
            /\ nbr'[m].listed \subseteq InDb' \cup Requested(nbr'[m])
    <2> SUFFICES ASSUME NEW m \in Nbr
                 PROVE  Replies(nbr'[m])
                        /\ nbr'[m].listed \subseteq InDb' \cup Requested(nbr'[m])
      OBVIOUS
    <2>1. CASE m = n
      BY <1>1, <1>2, <1>8, <1>9, <2>1 DEF ReplyInv, TypeOK
    <2>2. CASE m # n
      BY <1>2, <1>5, <2>2 DEF ReplyInv, TypeOK, Good, Kept
    <2> QED BY <2>1, <2>2
  <1>11. \A m \in Nbr : Good(nbr[m])'
    BY <1>10 DEF Good, Kept, Requested, Replies, Slave
  <1>12. TypeOK'
    BY ReceiveLSUType DEF ReplyInv
  <1> QED BY <1>11, <1>12 DEF ReplyInv

LEMMA ReceiveGood ==
  ASSUME ReplyInv, Receive PROVE ReplyInv'
  <1>1. PICK n \in Nbr :
          \/ FromUnknown(n)
          \/ HelloFatal(n)
          \/ \E seen, adj, changed \in BOOLEAN, elections \in 0 .. 2 :
                ReceiveHello(n, seen, adj, elections, changed)
          \/ \E p \in Packets : ReceiveDD(n, p)
          \/ \E asked \in Asks : LSRAnswered(n, asked) \/ BadLSReq(n, asked)
          \/ \E lsas \in Updates :
                \/ \E newer \in SUBSET lsas : ReceiveLSU(n, lsas, newer)
                \/ LSUOtherType(n, lsas)
    BY DEF Receive
  <1>2. {"election", "unknown_neighbor", "bad_lsreq", "lsa_type"} \subseteq Failures
    BY DEF Failures
  <1>3. TypeOK'
    BY ReceiveType DEF ReplyInv
  <1>4. CASE FromUnknown(n) \/ HelloFatal(n)
    BY <1>2, <1>4, HaltGood DEF FromUnknown, HelloFatal
  <1>5. CASE \E seen, adj, changed \in BOOLEAN, elections \in 0 .. 2 :
                ReceiveHello(n, seen, adj, elections, changed)
    BY <1>5, ReceiveHelloGood
  <1>6. CASE \E p \in Packets : ReceiveDD(n, p)
    BY <1>6, ReceiveDDGood
  <1>7. CASE \E asked \in Asks : LSRAnswered(n, asked) \/ BadLSReq(n, asked)
    <2>1. CASE \E asked \in Asks : BadLSReq(n, asked)
      BY <1>2, <2>1, HaltGood DEF BadLSReq
    <2>2. CASE \E asked \in Asks : LSRAnswered(n, asked)
      BY <1>3, <2>2, StutterGood DEF LSRAnswered, vars
    <2> QED BY <1>7, <2>1, <2>2
  <1>8. CASE \E lsas \in Updates :
                \/ \E newer \in SUBSET lsas : ReceiveLSU(n, lsas, newer)
                \/ LSUOtherType(n, lsas)
    BY <1>2, <1>8, ReceiveLSUGood, HaltGood DEF LSUOtherType
  <1> QED BY <1>1, <1>4, <1>5, <1>6, <1>7, <1>8

LEMMA SendGood ==
  ASSUME ReplyInv, Send PROVE ReplyInv'
  <1>1. PICK n \in Nbr :
          \/ Visit(n) \/ SendDD(n) \/ Retransmit(n) \/ SendLSR(n)
          \/ TestLoading(n) \/ AssertLoading(n) \/ LoadingDone(n)
    BY DEF Send
  <1>2. TypeOK'
    BY SendType DEF ReplyInv
  <1>3. WellFormed(nbr[n]) /\ Good(nbr[n])
    BY DEF ReplyInv, TypeOK
  <1>4. CASE \/ Visit(n) \/ Retransmit(n) \/ SendLSR(n) \/ TestLoading(n)
             \/ AssertLoading(n)
    BY <1>2, <1>4, StutterGood
       DEF Visit, Retransmit, SendLSR, TestLoading, AssertLoading, Halt
  <1>5. CASE SendDD(n)
    <2>1. CASE ProduceFails(nbr[n]) = "no"
      <3>1. sender' \in Senders
        BY <1>2 DEF TypeOK
      <3>2. Good(Produced(nbr[n])) /\ WellFormed(Produced(nbr[n]))
        BY <1>3, ProducedGood, ProducedType DEF Good, Replies
      <3> QED BY <1>5, <2>1, <3>1, <3>2, UpdateGood DEF SendDD
    <2>2. CASE ProduceFails(nbr[n]) # "no"
      <3>1. ProduceFails(nbr[n]) \in Failures
        BY <2>2 DEF ProduceFails, Failures
      <3> QED BY <1>5, <2>2, <3>1, HaltGood DEF SendDD
    <2> QED BY <2>1, <2>2
  <1>6. CASE LoadingDone(n)
    <2> DEFINE r == [nbr[n] EXCEPT !.state = "FULL"]
    <2>1. Good(r)
      BY <1>3, LeaveGood
    <2>2. nbr' = [nbr EXCEPT ![n] = r]
      BY <1>6 DEF LoadingDone
    <2> HIDE DEF r
    <2>3. \A m \in Nbr : Good(nbr'[m])
      BY <2>1, <2>2 DEF ReplyInv, TypeOK
    <2>4. \A k \in Stored : lsdb'[k] >= lsdb[k]
      BY <1>6, OriginateType DEF LoadingDone, ReplyInv, TypeOK
    <2>5. InDb \subseteq InDb'
      BY <1>2, <2>4, GrowthGood DEF ReplyInv, TypeOK
    <2>6. \A m \in Nbr : Good(nbr[m])'
      BY <2>3, <2>5 DEF Good, Kept, Requested, Replies, Slave
    <2> QED BY <1>2, <2>6 DEF ReplyInv
  <1> QED BY <1>1, <1>4, <1>5, <1>6

LEMMA StartedGood == Started => ReplyInv
  <1> SUFFICES ASSUME Started PROVE ReplyInv
    OBVIOUS
  <1>1. \A n \in Nbr : ~nbr[n].is_master /\ nbr[n].listed = {}
    BY DEF Started, NewNeighbor
  <1> QED BY <1>1, StartedType DEF ReplyInv, Good, Kept, Replies, Slave

LEMMA InitGood == Init => ReplyInv
  BY InitStarted, StartedGood

LEMMA NextGood == ReplyInv /\ [Next]_vars => ReplyInv'
  <1> SUFFICES ASSUME ReplyInv, [Next]_vars PROVE ReplyInv'
    OBVIOUS
  <1>1. CASE UNCHANGED vars
    BY <1>1, NextType, StutterGood DEF vars, ReplyInv
  <1>2. CASE Next
    BY <1>2, ReceiveGood, SendGood DEF Next
  <1> QED BY <1>1, <1>2

LEMMA ReplyInvImplies ==
  ReplyInv => Covered /\ EchoSeq /\ SlaveIterValid /\ SlaveAcked
  <1> SUFFICES ASSUME ReplyInv
               PROVE  Covered /\ EchoSeq /\ SlaveIterValid /\ SlaveAcked
    OBVIOUS
  <1>1. \A n \in Nbr : WellFormed(nbr[n]) /\ Good(nbr[n])
    BY DEF ReplyInv, TypeOK
  <1>2. Covered
    BY <1>1 DEF Covered, Good, Kept
  <1>3. EchoSeq
    BY <1>1 DEF EchoSeq, Good, Replies
  <1>4. SlaveIterValid
    BY <1>1 DEF SlaveIterValid, Good, Replies, WellFormed
  <1>5. SlaveAcked
    BY <1>1 DEF SlaveAcked, Good, Replies, Acknowledged, Before
  <1> QED BY <1>2, <1>3, <1>4, <1>5

\* The DD a slave keeps for retransmission answers the last packet it
\* accepted.
THEOREM ReplyMatches == Spec => []EchoSeq
  BY InitGood, NextGood, ReplyInvImplies, PTL DEF Spec

\* A slave's erase of acknowledged headers is defined.
THEOREM IteratorUsable == Spec => []SlaveIterValid
  BY InitGood, NextGood, ReplyInvImplies, PTL DEF Spec

\* It erases what the slave's last DD told when that was all.
THEOREM SlaveErasesWhatItTold == Spec => []SlaveAcked
  BY InitGood, NextGood, ReplyInvImplies, PTL DEF Spec

-----------------------------------------------------------------------------
(* What rests on the tests of send_loop's visit: FullSynced,               *)
(* SummaryDrained and SameSeqSameDD.  The invariant ties sender to the     *)
(* neighbour it is at: what send_loop has tested still holds when it acts  *)
(* upon it.                                                                *)

Drained(r) ==
    /\ r.state = "FULL" => r.listed \subseteq InDb
    /\ r.state \in {"LOADING", "FULL"} => r.db_summary_list = <<>>

TestHolds ==
    \A n \in Nbr :
        /\ sender = At("dd", n) => nbr[n].state = "EXSTART"
        /\ sender \in {At("empty", n), At("loading", n), At("done", n)} =>
              Requested(nbr[n]) = {}
        /\ sender \in {At("loading", n), At("done", n)} =>
              nbr[n].state = "LOADING"

ExchangeInv == ReplyInv /\ (\A n \in Nbr : Drained(nbr[n])) /\ TestHolds

\* What SameSeqSameDD says of one neighbour, r before and s after.
SameReply(r, s) ==
    /\ r.is_master /\ r.state \in AtLeastExchange
    /\ s.is_master /\ s.state \in AtLeastExchange
    /\ s.last_dd # r.last_dd
    => s.dd_seq_num = (r.dd_seq_num + 1) % SeqSpace

\* An event that lists nothing and tells nothing new leaves its neighbour
\* where it was or below EXCHANGE.
Backs(r, s) ==
    /\ s.last_dd = r.last_dd
    /\ \/ s.state \notin AtLeastExchange
       \/ /\ s.state = r.state
          /\ s.listed = r.listed /\ s.db_summary_list = r.db_summary_list

LEMMA BacksOn ==
  ASSUME NEW r, NEW s, NEW t, Backs(r, s), Backs(s, t) PROVE Backs(r, t)
  BY DEF Backs

LEMMA BacksDrained ==
  ASSUME NEW r, NEW s, Drained(r), Backs(r, s)
  PROVE  Drained(s) /\ SameReply(r, s)
  BY DEF Drained, Backs, SameReply, AtLeastExchange

LEMMA RestartBacks ==
  ASSUME NEW r, WellFormed(r)
  PROVE  Backs(r, Restart(r)) /\ Backs(r, SeqNumberMismatch(r))
  BY DEF Backs, SeqNumberMismatch, Restart, ClearLists, AtLeastExchange,
         WellFormed, Neighbors

LEMMA HelloBacks ==
  ASSUME NEW r, WellFormed(r)
  PROVE  /\ Backs(r, HelloReceived(r)) /\ Backs(r, TwoWayReceived(r))
         /\ Backs(r, OneWayReceived(r)) /\ Backs(r, AdjOk(r))
  <1>1. Backs(r, r) /\ Backs(r, Restart(r))
    BY RestartBacks DEF Backs
  <1>2. /\ Backs(r, [r EXCEPT !.state = "INIT"])
        /\ Backs(r, [r EXCEPT !.state = "TWOWAY"])
        /\ Backs(r, ClearLists([r EXCEPT !.state = "INIT"]))
    BY DEF Backs, ClearLists, AtLeastExchange, WellFormed, Neighbors
  <1> QED BY <1>1, <1>2
      DEF HelloReceived, TwoWayReceived, OneWayReceived, AdjOk

LEMMA NotedBacks ==
  ASSUME NEW n \in Nbr, NEW p \in Packets, WellFormed(nbr[n])
  PROVE  /\ Backs(nbr[n], Noted(n, p)) /\ Backs(nbr[n], Entered(n, p))
         /\ Backs(nbr[n], Opened(n, p))
  <1>1. WellFormed(Noted(n, p)) /\ WellFormed(Entered(n, p))
    BY NotedType
  <1>2. Backs(nbr[n], Noted(n, p))
    BY DEF Backs, Noted, WellFormed, Neighbors
  <1>3. Backs(nbr[n], Entered(n, p))
    BY <1>1, <1>2, HelloBacks, BacksOn DEF Entered
  <1>4. Backs(Entered(n, p), Opened(n, p))
    <2> DEFINE e == Entered(n, p)
    <2> HIDE DEF e
    <2>1. WellFormed(e)
      BY <1>1 DEF e
    <2>2. Backs(e, [e EXCEPT !.dd_options = p.options])
      BY <2>1 DEF Backs, WellFormed, Neighbors
    <2> QED BY <2>2 DEF Opened, e
  <1> QED BY <1>2, <1>3, <1>4, BacksOn

\* A DD finds the neighbour in EXSTART only if it was below EXCHANGE.
LEMMA EnteredFrom ==
  ASSUME NEW n \in Nbr, NEW p \in Packets, WellFormed(nbr[n]),
         Entered(n, p).state = "EXSTART"
  PROVE  nbr[n].state \notin AtLeastExchange
  <1>1. Noted(n, p).state = nbr[n].state
    BY DEF Noted, WellFormed, Neighbors
  <1>2. Noted(n, p).state # "INIT" => Entered(n, p).state = Noted(n, p).state
    BY DEF Entered, TwoWayReceived
  <1> QED BY <1>1, <1>2 DEF AtLeastExchange

\* produce_dd ends the exchange with an empty list and nothing forgotten.
LEMMA ProducedDrained ==
  ASSUME NEW r, WellFormed(r), Kept(r), r.state \notin {"LOADING", "FULL"}
  PROVE  /\ Drained(Produced(r))
         /\ Produced(r).dd_seq_num = r.dd_seq_num
         /\ Requested(Produced(r)) = Requested(r)
  <1> DEFINE s == Sent(r)
             t == [ExchangeDone(s) EXCEPT !.db_summary_list = <<>>]
  <1>1. /\ s.state = r.state /\ s.listed = r.listed
        /\ s.link_state_request_list = r.link_state_request_list
        /\ s.dd_seq_num = r.dd_seq_num
    BY DEF Sent, WellFormed, Neighbors
  <1>2. Requested(s) = Requested(r)
    BY <1>1 DEF Requested
  <1>3. /\ t.state = IF Requested(s) = {} THEN "FULL" ELSE "LOADING"
        /\ t.db_summary_list = <<>> /\ t.listed = r.listed
        /\ t.link_state_request_list = r.link_state_request_list
        /\ t.dd_seq_num = r.dd_seq_num
    BY <1>1 DEF ExchangeDone, Sent, WellFormed, Neighbors
  <1>4. Produced(r) = IF EndsExchange(r) THEN t ELSE s
    BY DEF Produced
  <1> HIDE DEF s, t
  <1>5. Drained(s)
    BY <1>1 DEF Drained
  <1>6. Drained(t)
    BY <1>2, <1>3 DEF Drained, Kept
  <1>7. Requested(t) = Requested(r)
    BY <1>3 DEF Requested
  <1> QED BY <1>1, <1>2, <1>3, <1>4, <1>5, <1>6, <1>7

LEMMA ExchangeDoneDrained ==
  ASSUME NEW r, WellFormed(r), Kept(r), r.db_summary_list = <<>>
  PROVE  Drained(ExchangeDone(r)) /\ ExchangeDone(r).is_master = r.is_master
  <1>1. /\ ExchangeDone(r).state
             = IF Requested(r) = {} THEN "FULL" ELSE "LOADING"
        /\ ExchangeDone(r).listed = r.listed
        /\ ExchangeDone(r).db_summary_list = <<>>
        /\ ExchangeDone(r).is_master = r.is_master
    BY DEF ExchangeDone, WellFormed, Neighbors
  <1> QED BY <1>1 DEF Drained, Kept

-----------------------------------------------------------------------------
(* The steps.                                                              *)

\* All neighbours after a step: one may have changed, and the database grew.
LEMMA DrainedNext ==
  ASSUME ReplyInv, ReplyInv', NEW n \in Nbr,
         \A m \in Nbr : Drained(nbr[m]),
         \A m \in Nbr \ {n} : nbr'[m] = nbr[m],
         Drained(nbr'[n]),
         \A k \in Stored : lsdb'[k] >= lsdb[k]
  PROVE  \A m \in Nbr : Drained(nbr[m])'
  <1>1. InDb \subseteq InDb'
    BY GrowthGood DEF ReplyInv, TypeOK
  <1>2. \A m \in Nbr : Drained(nbr'[m])
    OBVIOUS
  <1> QED BY <1>1, <1>2 DEF Drained

\* A step of recv_loop finds send_loop between two visits.
LEMMA IdleHolds ==
  ASSUME sender' = Idle PROVE TestHolds'
  BY DEF TestHolds, Idle, At

\* What a step gives: the invariant without the part on sender, and SameReply.
Serves ==
    /\ \A m \in Nbr : Drained(nbr[m])'
    /\ \A m \in Nbr : SameReply(nbr[m], nbr'[m])

LEMMA UpdateServes ==
  ASSUME ExchangeInv, ReplyInv', NEW n \in Nbr, NEW r, Update(n, r),
         Drained(r), SameReply(nbr[n], r)
  PROVE  Serves
  <1>1. nbr \in [Nbr -> Neighbors] /\ lsdb \in [Stored -> Nat]
    BY DEF ExchangeInv, ReplyInv, TypeOK
  <1>2. nbr'[n] = r /\ \A m \in Nbr \ {n} : nbr'[m] = nbr[m]
    BY <1>1 DEF Update
  <1>3. \A k \in Stored : lsdb'[k] >= lsdb[k]
    BY <1>1, OriginateType DEF Update
  <1>4. \A m \in Nbr : Drained(nbr[m])'
    BY <1>2, <1>3, DrainedNext DEF ExchangeInv
  <1>5. \A m \in Nbr : SameReply(nbr[m], nbr'[m])
    BY <1>2 DEF SameReply
  <1> QED BY <1>4, <1>5 DEF Serves

LEMMA StutterServes ==
  ASSUME ExchangeInv, UNCHANGED <<nbr, lsdb>> PROVE Serves
  BY DEF ExchangeInv, Serves, Drained, InDb, SameReply

LEMMA ReplyServes ==
  ASSUME ExchangeInv, ReplyInv', NEW n \in Nbr, NEW r, WellFormed(r), Kept(r),
         r.state \notin {"LOADING", "FULL"}, Reply(n, r),
         \/ nbr[n].state \notin AtLeastExchange
         \/ r.dd_seq_num = (nbr[n].dd_seq_num + 1) % SeqSpace
  PROVE  Serves
  <1>1. CASE ProduceFails(r) = "no"
    <2>1. Update(n, Produced(r))
      BY <1>1 DEF Reply
    <2>2. Drained(Produced(r)) /\ SameReply(nbr[n], Produced(r))
      BY ProducedDrained DEF SameReply
    <2> QED BY <2>1, <2>2, UpdateServes
  <1>2. CASE ProduceFails(r) # "no"
    BY <1>2, StutterServes DEF Reply, Halt
  <1> QED BY <1>1, <1>2

LEMMA AcceptServes ==
  ASSUME ExchangeInv, ReplyInv', NEW n \in Nbr, NEW r, WellFormed(r), Kept(r),
         Slave(r), r.state = "EXCHANGE", NEW p \in Packets, Accept(n, r, p),
         \/ nbr[n].state \notin AtLeastExchange
         \/ r.dd_seq_num = (nbr[n].dd_seq_num + 1) % SeqSpace
  PROVE  Serves
  <1>1. CASE r.db_summary_send_iter = NoIter
    BY <1>1, StutterServes DEF Accept, Halt
  <1>2. CASE r.db_summary_send_iter # NoIter
    <2> DEFINE s == Heard(Erased(r), p)
    <2>1. WellFormed(Erased(r)) /\ WellFormed(s)
      BY <1>2, ErasedType, HeardType
    <2>2. Kept(s)
      BY <2>1, ErasedKept, HeardKept
    <2>3. s.state = r.state /\ s.dd_seq_num = r.dd_seq_num
      <3>1. /\ Erased(r).state = r.state
            /\ Erased(r).dd_seq_num = r.dd_seq_num
        BY DEF Erased, WellFormed, Neighbors
      <3> DEFINE e == Erased(r)
      <3> HIDE DEF e
      <3>2. WellFormed(e)
        BY <2>1 DEF e
      <3>3. Heard(e, p).state = e.state /\ Heard(e, p).dd_seq_num = e.dd_seq_num
        BY <3>2 DEF Heard, WellFormed, Neighbors
      <3> QED BY <3>1, <3>3 DEF e
    <2>4. \/ /\ ~s.is_master /\ s.db_summary_list = <<>>
             /\ Update(n, ExchangeDone(s))
          \/ Reply(n, s)
      BY <1>2 DEF Accept
    <2> HIDE DEF s
    <2>5. CASE Reply(n, s)
      BY <2>1, <2>2, <2>3, <2>5, ReplyServes
    <2>6. CASE /\ ~s.is_master /\ s.db_summary_list = <<>>
               /\ Update(n, ExchangeDone(s))
      <3>1. Drained(ExchangeDone(s)) /\ SameReply(nbr[n], ExchangeDone(s))
        BY <2>1, <2>2, <2>6, ExchangeDoneDrained DEF SameReply
      <3> QED BY <2>6, <3>1, UpdateServes
    <2> QED BY <2>4, <2>5, <2>6
  <1> QED BY <1>1, <1>2

LEMMA HelloServes ==
  ASSUME ExchangeInv, ReplyInv', NEW n \in Nbr, NEW seen \in BOOLEAN,
         NEW adj \in BOOLEAN, NEW elections \in 0 .. 2, NEW changed \in BOOLEAN,
         ReceiveHello(n, seen, adj, elections, changed)
  PROVE  Serves
  <1> DEFINE base == [nbr[n] EXCEPT !.adj = adj]
             known == HelloReceived(base)
             next == IF seen THEN TwoWayReceived(known)
                             ELSE OneWayReceived(known)
             After(m) == LET r == IF m = n THEN next ELSE nbr[m]
                         IN  IF changed THEN AdjOk(r) ELSE r
  <1>1. \A m \in Nbr : WellFormed(nbr[m]) /\ Drained(nbr[m])
    BY DEF ExchangeInv, ReplyInv, TypeOK
  <1>2. WellFormed(base) /\ Backs(nbr[n], base)
    BY <1>1 DEF Backs, WellFormed, Neighbors
  <1> HIDE DEF base
  <1>3. WellFormed(known) /\ Backs(nbr[n], known)
    BY <1>2, HelloType, HelloBacks, BacksOn
  <1> HIDE DEF known
  <1>4. WellFormed(next) /\ Backs(nbr[n], next)
    BY <1>3, HelloType, HelloBacks, BacksOn
  <1> HIDE DEF next
  <1>5. \A m \in Nbr : Backs(nbr[m], nbr[m])
    BY DEF Backs
  <1>6. \A m \in Nbr : Backs(nbr[m], After(m))
    BY <1>1, <1>4, <1>5, HelloBacks, BacksOn
  <1>7. nbr' = [m \in Nbr |-> After(m)]
    BY DEF ReceiveHello, next, known, base
  <1> HIDE DEF After
  <1>8. \A m \in Nbr : Drained(nbr'[m]) /\ SameReply(nbr[m], nbr'[m])
    BY <1>1, <1>6, <1>7, BacksDrained
  <1>9. \A k \in Stored : lsdb'[k] >= lsdb[k]
    BY OriginateType DEF ReceiveHello, ExchangeInv, ReplyInv, TypeOK
  <1>10. InDb \subseteq InDb'
    BY <1>9, GrowthGood DEF ExchangeInv, ReplyInv, TypeOK
  <1>11. \A m \in Nbr : Drained(nbr[m])'
    BY <1>8, <1>10 DEF Drained
  <1> QED BY <1>8, <1>11 DEF Serves

LEMMA LSUServes ==
  ASSUME ExchangeInv, ReplyInv', NEW n \in Nbr, NEW lsas, NEW newer,
         ReceiveLSU(n, lsas, newer)
  PROVE  Serves
  <1> DEFINE reqs == [k \in Keys |->
                        IF k \in lsas /\ nbr[n].link_state_request_list[k] > 0
                        THEN nbr[n].link_state_request_list[k] - 1
                        ELSE nbr[n].link_state_request_list[k]]
             r == [nbr[n] EXCEPT !.link_state_request_list = reqs]
  <1>1. nbr \in [Nbr -> Neighbors] /\ lsdb \in [Stored -> Nat]
    BY DEF ExchangeInv, ReplyInv, TypeOK
  <1>2. nbr' = [nbr EXCEPT ![n] = r]
    BY <1>1 DEF ReceiveLSU, Neighbors
  <1> HIDE DEF reqs
  <1>3. Backs(nbr[n], r)
    BY <1>1 DEF Backs, Neighbors
  <1> HIDE DEF r
  <1>4. nbr'[n] = r /\ \A m \in Nbr \ {n} : nbr'[m] = nbr[m]
    BY <1>1, <1>2
  <1>5. Drained(nbr[n])
    BY DEF ExchangeInv
  <1>6. Drained(nbr'[n]) /\ SameReply(nbr[n], nbr'[n])
    BY <1>3, <1>4, <1>5, BacksDrained
  <1>7. \A k \in Stored : lsdb'[k] >= lsdb[k]
    BY <1>1 DEF ReceiveLSU
  <1>8. \A m \in Nbr : Drained(nbr[m])'
    BY <1>4, <1>6, <1>7, DrainedNext DEF ExchangeInv
  <1>9. \A m \in Nbr : SameReply(nbr[m], nbr'[m])
    BY <1>4, <1>6 DEF SameReply
  <1> QED BY <1>8, <1>9 DEF Serves

LEMMA ReceiveDDServes ==
  ASSUME ExchangeInv, ReplyInv', NEW n \in Nbr, NEW p \in Packets,
         ReceiveDD(n, p)
  PROVE  Serves
  <1>1. /\ WellFormed(nbr[n]) /\ Good(nbr[n]) /\ Drained(nbr[n])
        /\ nbr \in [Nbr -> Neighbors]
    BY DEF ExchangeInv, ReplyInv, TypeOK
  <1>2. /\ WellFormed(Noted(n, p)) /\ WellFormed(Entered(n, p))
        /\ WellFormed(Opened(n, p))
    BY <1>1, NotedType
  <1>3. Good(Noted(n, p))
    BY <1>1, NotedGood
  <1>4. /\ Backs(nbr[n], Noted(n, p)) /\ Backs(nbr[n], Entered(n, p))
        /\ Backs(nbr[n], Opened(n, p))
    BY <1>1, NotedBacks
  <1>5. p.seq \in SeqNums
    BY ConstantsAssumption
  <1>6. ASSUME NEW r, Update(n, r), Backs(nbr[n], r) PROVE Serves
    <2>1. Drained(r) /\ SameReply(nbr[n], r)
      BY <1>1, <1>6, BacksDrained
    <2> QED BY <1>6, <2>1, UpdateServes
  <1>7. Backs(nbr[n], SeqNumberMismatch(Noted(n, p)))
    BY <1>2, <1>4, RestartBacks, BacksOn
  <1>8. CASE DDTooEarly(n, p)
    BY <1>4, <1>6, <1>8 DEF DDTooEarly
  <1>9. CASE DDUnanswered(n, p)
    BY <1>4, <1>6, <1>9 DEF DDUnanswered
  <1>10. CASE BecomeSlave(n, p)
    <2>1. PICK hdrs \in HeaderLists :
            Reply(n, NegotiationDone([Opened(n, p) EXCEPT
                                         !.is_master = TRUE,
                                         !.dd_seq_num = p.seq,
                                         !.dd_init = FALSE], hdrs))
      BY <1>10 DEF BecomeSlave
    <2> DEFINE r == NegotiationDone([Opened(n, p) EXCEPT
                                         !.is_master = TRUE,
                                         !.dd_seq_num = p.seq,
                                         !.dd_init = FALSE], hdrs)
    <2>2. WellFormed(r) /\ Kept(r)
      BY <1>2, <1>5, NegotiatedType, NegotiatedKept
    <2>3. r.state = "EXCHANGE"
      BY <1>2 DEF NegotiationDone, WellFormed, Neighbors
    <2>4. nbr[n].state \notin AtLeastExchange
      BY <1>1, <1>10, EnteredFrom DEF BecomeSlave
    <2>5. Reply(n, r)
      BY <2>1
    <2> HIDE DEF r
    <2> QED BY <2>2, <2>3, <2>4, <2>5, ReplyServes
  <1>11. CASE BecomeMaster(n, p)
    <2>1. PICK hdrs \in HeaderLists :
            LET r == NegotiationDone([Opened(n, p) EXCEPT
                                         !.is_master = FALSE,
                                         !.dd_init = FALSE], hdrs)
            IN  \/ Update(n, r) /\ UNCHANGED sender
                \/ Accept(n, Advance(r), p)
      BY <1>11 DEF BecomeMaster
    <2> DEFINE r == NegotiationDone([Opened(n, p) EXCEPT
                                         !.is_master = FALSE,
                                         !.dd_init = FALSE], hdrs)
    <2>2. WellFormed(r) /\ Kept(r) /\ Slave(r) /\ ~r.is_master
      BY <1>2, <1>5, NegotiatedType, NegotiatedKept
    <2>3. r.state = "EXCHANGE"
      BY <1>2 DEF NegotiationDone, WellFormed, Neighbors
    <2>4. \/ Update(n, r) /\ UNCHANGED sender
          \/ Accept(n, Advance(r), p)
      BY <2>1
    <2>5. nbr[n].state \notin AtLeastExchange
      BY <1>1, <1>11, EnteredFrom DEF BecomeMaster
    <2> HIDE DEF r
    <2>6. /\ WellFormed(Advance(r)) /\ Kept(Advance(r)) /\ Slave(Advance(r))
          /\ Advance(r).state = "EXCHANGE"
      BY <2>2, <2>3, AdvanceType, AdvanceKept DEF Advance, WellFormed, Neighbors
    <2>7. Drained(r) /\ SameReply(nbr[n], r)
      BY <2>2, <2>3 DEF Drained, SameReply
    <2> QED BY <2>4, <2>5, <2>6, <2>7, UpdateServes, AcceptServes
  <1>12. CASE DDDuplicate(n, p)
    BY <1>12, StutterServes DEF DDDuplicate, vars
  <1>13. CASE DDMismatch(n, p)
    BY <1>6, <1>7, <1>13 DEF DDMismatch
  <1>14. CASE DDAccepted(n, p)
    <2> DEFINE r == Advance(Noted(n, p))
    <2>1. WellFormed(r) /\ Kept(r) /\ Slave(r)
      BY <1>2, <1>3, AdvanceType, AdvanceKept DEF Good, Replies
    <2>2. /\ r.state = "EXCHANGE"
          /\ r.dd_seq_num = (nbr[n].dd_seq_num + 1) % SeqSpace
      BY <1>1, <1>14
         DEF DDAccepted, Advance, Noted, WellFormed, Neighbors
    <2>3. Accept(n, r, p)
      BY <1>14 DEF DDAccepted
    <2> HIDE DEF r
    <2> QED BY <2>1, <2>2, <2>3, AcceptServes
  <1>15. CASE DDAfterExchange(n, p)
    BY <1>4, <1>6, <1>7, <1>15 DEF DDAfterExchange
  <1> QED BY <1>8, <1>9, <1>10, <1>11, <1>12, <1>13, <1>14, <1>15 DEF ReceiveDD

LEMMA ReceiveServes ==
  ASSUME ExchangeInv, ReplyInv', sender = Idle, Receive
  PROVE  Serves /\ sender' = Idle
  <1>1. PICK n \in Nbr :
          \/ FromUnknown(n)
          \/ HelloFatal(n)
          \/ \E seen, adj, changed \in BOOLEAN, elections \in 0 .. 2 :
                ReceiveHello(n, seen, adj, elections, changed)
          \/ \E p \in Packets : ReceiveDD(n, p)
          \/ \E asked \in Asks : LSRAnswered(n, asked) \/ BadLSReq(n, asked)
          \/ \E lsas \in Updates :
                \/ \E newer \in SUBSET lsas : ReceiveLSU(n, lsas, newer)
                \/ LSUOtherType(n, lsas)
    BY DEF Receive
  <1>2. CASE FromUnknown(n) \/ HelloFatal(n)
    BY <1>2, StutterServes DEF FromUnknown, HelloFatal, Halt
  <1>3. CASE \E seen, adj, changed \in BOOLEAN, elections \in 0 .. 2 :
                ReceiveHello(n, seen, adj, elections, changed)
    <2>1. PICK seen, adj, changed \in BOOLEAN, elections \in 0 .. 2 :
            ReceiveHello(n, seen, adj, elections, changed)
      BY <1>3
    <2>2. UNCHANGED sender
      BY <2>1 DEF ReceiveHello
    <2> QED BY <2>1, <2>2, HelloServes
  <1>4. CASE \E p \in Packets : ReceiveDD(n, p)
    <2>1. PICK p \in Packets : ReceiveDD(n, p)
      BY <1>4
    <2>2. UNCHANGED sender
      BY <2>1 DEF ReceiveDD, DDTooEarly, DDUnanswered, BecomeSlave, BecomeMaster,
                  DDDuplicate, DDMismatch, DDAccepted, DDAfterExchange, Accept,
                  Reply, Halt, vars
    <2> QED BY <2>1, <2>2, ReceiveDDServes
  <1>5. CASE \E asked \in Asks : LSRAnswered(n, asked) \/ BadLSReq(n, asked)
    BY <1>5, StutterServes DEF LSRAnswered, BadLSReq, Halt, vars
  <1>6. CASE \E lsas \in Updates :
                \/ \E newer \in SUBSET lsas : ReceiveLSU(n, lsas, newer)
                \/ LSUOtherType(n, lsas)
    <2>1. CASE \E lsas \in Updates : LSUOtherType(n, lsas)
      BY <2>1, StutterServes DEF LSUOtherType, Halt
    <2>2. CASE \E lsas \in Updates : \E newer \in SUBSET lsas :
                  ReceiveLSU(n, lsas, newer)
      BY <2>2, LSUServes DEF ReceiveLSU
    <2> QED BY <1>6, <2>1, <2>2
  <1> QED BY <1>1, <1>2, <1>3, <1>4, <1>5, <1>6

\* Two visits of send_loop are at one place only if they are the same.
LEMMA AtDiffers ==
  /\ \A n, m : At("dd", n) # At("empty", m) /\ At("dd", n) # At("loading", m)
               /\ At("dd", n) # At("done", m) /\ At("empty", n) # At("loading", m)
               /\ At("empty", n) # At("done", m) /\ At("loading", n) # At("done", m)
  /\ \A n, m, pc : At(pc, n) = At(pc, m) => n = m
  /\ \A n, pc : At(pc, n) # Idle
  /\ \A n, m, pc : pc \in {"rxmt", "lsr"} =>
        At(pc, n) \notin {At("dd", m), At("empty", m), At("loading", m),
                          At("done", m)}
  <1>1. \A n, pc : At(pc, n).pc = pc /\ At(pc, n).nbr = n
    BY DEF At
  <1>2. Idle.pc = "idle" /\ DOMAIN Idle = {"pc"}
    BY DEF Idle
  <1>3. \A n, pc : DOMAIN At(pc, n) = {"pc", "nbr"}
    BY DEF At
  <1> QED BY <1>1, <1>2, <1>3

\* What send_loop does with the neighbour it is at.
LEMMA SendServes ==
  ASSUME ExchangeInv, ReplyInv', Send PROVE Serves /\ TestHolds'
  <1>1. PICK n \in Nbr :
          \/ Visit(n) \/ SendDD(n) \/ Retransmit(n) \/ SendLSR(n)
          \/ TestLoading(n) \/ AssertLoading(n) \/ LoadingDone(n)
    BY DEF Send
  <1>2. WellFormed(nbr[n]) /\ Good(nbr[n]) /\ nbr \in [Nbr -> Neighbors]
    BY DEF ExchangeInv, ReplyInv, TypeOK
  <1>3. TestHolds
    BY DEF ExchangeInv
  <1>4. ASSUME UNCHANGED <<nbr, sender>> PROVE TestHolds'
    BY <1>3, <1>4 DEF TestHolds, Requested
  <1>5. CASE Visit(n)
    <2>1. TestHolds'
      BY <1>5, AtDiffers DEF Visit, TestHolds
    <2> QED BY <1>5, <2>1, StutterServes DEF Visit
  <1>6. CASE SendDD(n)
    <2>1. CASE ProduceFails(nbr[n]) = "no"
      <3>1. Update(n, Produced(nbr[n])) /\ sender' = At("rxmt", n)
        BY <1>6, <2>1 DEF SendDD
      <3>2. nbr[n].state = "EXSTART"
        BY <1>3, <1>6 DEF SendDD, TestHolds
      <3>3. Drained(Produced(nbr[n])) /\ SameReply(nbr[n], Produced(nbr[n]))
        BY <1>2, <3>2, ProducedDrained DEF Good, SameReply, AtLeastExchange
      <3>4. TestHolds'
        BY <3>1, AtDiffers DEF TestHolds
      <3> QED BY <3>1, <3>3, <3>4, UpdateServes
    <2>2. CASE ProduceFails(nbr[n]) # "no"
      BY <1>4, <1>6, <2>2, StutterServes DEF SendDD, Halt
    <2> QED BY <2>1, <2>2
  <1>7. CASE Retransmit(n)
    <2>1. TestHolds'
      BY <1>7, AtDiffers DEF Retransmit, TestHolds
    <2> QED BY <1>7, <2>1, StutterServes DEF Retransmit
  <1>8. CASE SendLSR(n)
    <2>1. TestHolds'
      BY <1>8, AtDiffers DEF SendLSR, TestHolds, Requested
    <2> QED BY <1>8, <2>1, StutterServes DEF SendLSR
  <1>9. CASE TestLoading(n)
    <2>1. TestHolds'
      BY <1>3, <1>9, AtDiffers DEF TestLoading, TestHolds, Requested
    <2> QED BY <1>9, <2>1, StutterServes DEF TestLoading
  <1>10. CASE AssertLoading(n)
    <2>1. CASE nbr[n].state = "LOADING"
      <3>1. TestHolds'
        BY <1>3, <1>10, <2>1, AtDiffers DEF AssertLoading, TestHolds, Requested
      <3> QED BY <1>10, <2>1, <3>1, StutterServes DEF AssertLoading
    <2>2. CASE nbr[n].state # "LOADING"
      BY <1>4, <1>10, <2>2, StutterServes DEF AssertLoading, Halt
    <2> QED BY <2>1, <2>2
  <1>11. CASE LoadingDone(n)
    <2> DEFINE r == [nbr[n] EXCEPT !.state = "FULL"]
    <2>1. nbr[n].state = "LOADING" /\ Requested(nbr[n]) = {}
      BY <1>3, <1>11 DEF LoadingDone, TestHolds
    <2>2. Drained(nbr[n])
      BY DEF ExchangeInv
    <2>3. /\ r.state = "FULL" /\ r.listed = nbr[n].listed
          /\ r.db_summary_list = nbr[n].db_summary_list
          /\ r.last_dd = nbr[n].last_dd
      BY <1>2 DEF Neighbors
    <2>4. nbr' = [nbr EXCEPT ![n] = r]
      BY <1>11 DEF LoadingDone
    <2> HIDE DEF r
    <2>5. Drained(r) /\ SameReply(nbr[n], r)
      BY <1>2, <2>1, <2>2, <2>3 DEF Drained, SameReply, Good, Kept
    <2>6. nbr'[n] = r /\ \A m \in Nbr \ {n} : nbr'[m] = nbr[m]
      BY <1>2, <2>4
    <2>7. \A k \in Stored : lsdb'[k] >= lsdb[k]
      BY <1>11, OriginateType DEF LoadingDone, ExchangeInv, ReplyInv, TypeOK
    <2>8. \A m \in Nbr : Drained(nbr[m])'
      BY <2>5, <2>6, <2>7, DrainedNext DEF ExchangeInv
    <2>9. \A m \in Nbr : SameReply(nbr[m], nbr'[m])
      BY <2>5, <2>6 DEF SameReply
    <2> QED BY <1>11, <2>8, <2>9, IdleHolds DEF LoadingDone, Serves
  <1> QED BY <1>1, <1>5, <1>6, <1>7, <1>8, <1>9, <1>10, <1>11

LEMMA StartedInv == Started => ExchangeInv
  <1> SUFFICES ASSUME Started PROVE ExchangeInv
    OBVIOUS
  <1>1. \A n \in Nbr : nbr[n].state = "NONE"
    BY DEF Started, NewNeighbor
  <1>2. TestHolds
    BY AtDiffers DEF Started, TestHolds
  <1> QED BY <1>1, <1>2, StartedGood DEF ExchangeInv, Drained

LEMMA NextInv ==
  ASSUME ExchangeInv, [Next]_vars PROVE ExchangeInv' /\ Serves
  <1>1. ReplyInv'
    BY NextGood DEF ExchangeInv, Next
  <1>2. CASE UNCHANGED vars
    <2>1. Serves
      BY <1>2, StutterServes DEF vars
    <2>2. TestHolds'
      BY <1>2 DEF vars, ExchangeInv, TestHolds, Requested
    <2> QED BY <1>1, <2>1, <2>2 DEF ExchangeInv, Serves
  <1>3. CASE sender = Idle /\ Receive
    BY <1>1, <1>3, ReceiveServes, IdleHolds DEF ExchangeInv, Serves
  <1>4. CASE Send
    BY <1>1, <1>4, SendServes DEF ExchangeInv, Serves
  <1> QED BY <1>2, <1>3, <1>4 DEF Next

LEMMA InvHolds == Spec => []ExchangeInv
  BY InitStarted, StartedInv, NextInv, PTL DEF Spec

\* A neighbour is FULL only when the database has all it listed.
THEOREM FullHasAll == Spec => []FullSynced
  <1>1. ExchangeInv => FullSynced
    BY DEF ExchangeInv, Drained, FullSynced
  <1> QED BY <1>1, InvHolds, PTL

\* The exchange ends with every header told.
THEOREM AllTold == Spec => []SummaryDrained
  <1>1. ExchangeInv => SummaryDrained
    BY DEF ExchangeInv, Drained, SummaryDrained
  <1> QED BY <1>1, InvHolds, PTL

\* A slave's stored reply changes in a session only with dd_seq_num.
THEOREM ReplyStays == Spec => SameSeqSameDD
  <1>1. ExchangeInv /\ [Next]_vars =>
          [\A n \in Nbr :
              /\ nbr[n].is_master /\ nbr[n].state \in AtLeastExchange
              /\ nbr'[n].is_master /\ nbr'[n].state \in AtLeastExchange
              /\ nbr'[n].last_dd # nbr[n].last_dd
              => nbr'[n].dd_seq_num = (nbr[n].dd_seq_num + 1) % SeqSpace]_vars
    BY NextInv DEF Serves, SameReply
  <1> QED BY <1>1, InvHolds, PTL DEF Spec, SameSeqSameDD

-----------------------------------------------------------------------------
(* ExchangeThreads: both threads may be in produce_dd.  Of the above, the  *)
(* type invariant and Covered remain.  Covered needs Slave to survive as   *)
(* well, since ErasedKept and HeardKept carry the two along together.      *)

ThreadsInv == ThreadsTypeOK /\ \A n \in Nbr : Kept(nbr[n]) /\ Slave(nbr[n])

\* Of r and its successor s: what was listed is listed with its requests, or
\* nothing is; nobody becomes master, and dd_init does not rise.
Owes(r, s) ==
    /\ \/ s.listed = {}
       \/ /\ s.listed = r.listed
          /\ s.link_state_request_list = r.link_state_request_list
    /\ s.is_master => r.is_master
    /\ s.dd_init => r.dd_init

LEMMA OwesOn ==
  ASSUME NEW r, NEW s, NEW t, Owes(r, s), Owes(s, t) PROVE Owes(r, t)
  BY DEF Owes

LEMMA OwesKept ==
  ASSUME NEW r, NEW s, Kept(r), Slave(r), Owes(r, s)
  PROVE  Kept(s) /\ Slave(s)
  BY KeptLemma DEF Owes, Slave

LEMMA RestartOwes ==
  ASSUME NEW r, WellFormed(r)
  PROVE  Owes(r, Restart(r)) /\ Owes(r, SeqNumberMismatch(r))
  BY DEF Owes, SeqNumberMismatch, Restart, ClearLists, WellFormed, Neighbors

LEMMA HelloOwes ==
  ASSUME NEW r, WellFormed(r)
  PROVE  /\ Owes(r, HelloReceived(r)) /\ Owes(r, TwoWayReceived(r))
         /\ Owes(r, OneWayReceived(r)) /\ Owes(r, AdjOk(r))
  <1>1. Owes(r, r) /\ Owes(r, Restart(r))
    BY RestartOwes DEF Owes
  <1>2. /\ Owes(r, [r EXCEPT !.state = "INIT"])
        /\ Owes(r, [r EXCEPT !.state = "TWOWAY"])
        /\ Owes(r, ClearLists([r EXCEPT !.state = "INIT"]))
    BY DEF Owes, ClearLists, WellFormed, Neighbors
  <1> QED BY <1>1, <1>2
      DEF HelloReceived, TwoWayReceived, OneWayReceived, AdjOk

LEMMA NotedOwes ==
  ASSUME NEW n \in Nbr, NEW p \in Packets, WellFormed(nbr[n])
  PROVE  /\ Owes(nbr[n], Noted(n, p)) /\ Owes(nbr[n], Entered(n, p))
         /\ Owes(nbr[n], Opened(n, p))
         /\ Owes(nbr[n], SeqNumberMismatch(Noted(n, p)))
  <1>1. WellFormed(Noted(n, p)) /\ WellFormed(Entered(n, p))
    BY NotedType
  <1>2. Owes(nbr[n], Noted(n, p))
    BY DEF Owes, Noted, WellFormed, Neighbors
  <1>3. Owes(nbr[n], Entered(n, p))
    BY <1>1, <1>2, HelloOwes, OwesOn DEF Entered
  <1>4. Owes(Entered(n, p), Opened(n, p))
    <2> DEFINE e == Entered(n, p)
    <2> HIDE DEF e
    <2>1. WellFormed(e)
      BY <1>1 DEF e
    <2>2. Owes(e, [e EXCEPT !.dd_options = p.options])
      BY <2>1 DEF Owes, WellFormed, Neighbors
    <2> QED BY <2>2 DEF Opened, e
  <1>5. Owes(nbr[n], SeqNumberMismatch(Noted(n, p)))
    BY <1>1, <1>2, RestartOwes, OwesOn
  <1> QED BY <1>2, <1>3, <1>4, <1>5, OwesOn

\* Moving a thread keeps the types of both places.
LEMMA MovesType ==
  ASSUME making \in [Loops -> Places], NEW t, NEW next \in Places,
         Moves(t, next)
  PROVE  making' \in [Loops -> Places]
  <1>1. \A p \in Places : p # Away => [p EXCEPT !.raced = TRUE] \in Places
    BY DEF Places
  <1>2. \A u \in Loops :
          (IF u = t THEN next
           ELSE IF making[u] # Away /\ ListChanged(making[u].nbr)
                THEN [making[u] EXCEPT !.raced = TRUE] ELSE making[u]) \in Places
    BY <1>1
  <1> QED BY <1>2 DEF Moves

LEMMA PlacesType ==
  /\ Away \in Places
  /\ \A pc \in MakingPcs, n \in Nbr : Making(pc, n) \in Places
  BY DEF Places, Making

\* A step that replaces one Neighbor object, and moves no more than a thread.
LEMMA StepInv ==
  ASSUME ThreadsInv, TypeOK', making' \in [Loops -> Places], NEW n \in Nbr,
         NEW r, Kept(r), Slave(r), nbr' = [nbr EXCEPT ![n] = r],
         \A k \in Stored : lsdb'[k] >= lsdb[k]
  PROVE  ThreadsInv'
  <1>1. InDb \subseteq InDb'
    BY GrowthGood DEF ThreadsInv, ThreadsTypeOK, TypeOK
  <1>2. \A m \in Nbr : Kept(nbr'[m]) /\ Slave(nbr'[m])
    BY DEF ThreadsInv, ThreadsTypeOK, TypeOK
  <1>3. \A m \in Nbr : (Kept(nbr[m]) /\ Slave(nbr[m]))'
    BY <1>1, <1>2 DEF Kept, Slave, Requested
  <1> QED BY <1>3 DEF ThreadsInv, ThreadsTypeOK

\* A step that leaves neighbours and database as they are.
LEMMA StillInv ==
  ASSUME ThreadsInv, TypeOK', making' \in [Loops -> Places],
         UNCHANGED <<nbr, lsdb>>
  PROVE  ThreadsInv'
  BY DEF ThreadsInv, ThreadsTypeOK, Kept, Slave, Requested, InDb

LEMMA HaltInv ==
  ASSUME ThreadsInv, NEW why \in Failures, Halt(why),
         making' \in [Loops -> Places]
  PROVE  ThreadsInv'
  <1>1. TypeOK' /\ UNCHANGED <<nbr, lsdb>>
    BY HaltType DEF ThreadsInv, ThreadsTypeOK, Halt
  <1> QED BY <1>1, StillInv

LEMMA UpdateInv ==
  ASSUME ThreadsInv, NEW n \in Nbr, NEW r, WellFormed(r), Kept(r), Slave(r),
         Update(n, r), sender' \in Senders, making' \in [Loops -> Places]
  PROVE  ThreadsInv'
  <1>1. TypeOK' /\ \A k \in Stored : lsdb'[k] >= lsdb[k]
    BY UpdateType DEF ThreadsInv, ThreadsTypeOK
  <1>2. nbr' = [nbr EXCEPT ![n] = r]
    BY DEF Update
  <1> QED BY <1>1, <1>2, StepInv

LEMMA BecomesInv ==
  ASSUME ThreadsInv, NEW n \in Nbr, NEW r, WellFormed(r), Kept(r), Slave(r),
         Becomes(n, r), sender' \in Senders, making' \in [Loops -> Places]
  PROVE  ThreadsInv'
  <1>1. nbr' = [nbr EXCEPT ![n] = r] /\ UNCHANGED <<lsdb, amDR, halted>>
    BY DEF Becomes
  <1>2. nbr' \in [Nbr -> Neighbors] /\ \A m \in Nbr : WellFormed(nbr'[m])
    BY <1>1 DEF ThreadsInv, ThreadsTypeOK, TypeOK, WellFormed
  <1>3. (\A m \in Nbr : WellFormed(nbr[m]))'
    BY <1>2 DEF WellFormed
  <1>4. TypeOK'
    BY <1>1, <1>2, <1>3 DEF ThreadsInv, ThreadsTypeOK, TypeOK
  <1>5. \A k \in Stored : lsdb'[k] >= lsdb[k]
    BY <1>1 DEF ThreadsInv, ThreadsTypeOK, TypeOK
  <1> QED BY <1>1, <1>4, <1>5, StepInv

\* Where a thread goes on to, or out of produce_dd.
LEMMA GoesInv ==
  ASSUME ThreadsInv, NEW t \in Loops, NEW n \in Nbr, NEW pc \in MakingPcs,
         Goes(t, n, pc)
  PROVE  sender' \in Senders /\ making' \in [Loops -> Places]
  BY MovesType, PlacesType DEF Goes, ThreadsInv, ThreadsTypeOK, TypeOK

LEMMA LeavesInv ==
  ASSUME ThreadsInv, NEW t \in Loops, NEW n \in Nbr, Leaves(t, n)
  PROVE  sender' \in Senders /\ making' \in [Loops -> Places]
  <1>1. At("rxmt", n) \in Senders
    BY DEF Senders, At, Pcs
  <1> QED BY <1>1, MovesType, PlacesType
          DEF Leaves, ThreadsInv, ThreadsTypeOK, TypeOK

LEMMA BreaksInv ==
  ASSUME ThreadsInv, Breaks PROVE ThreadsInv'
  <1>1. "iterator" \in Failures
    BY DEF Failures
  <1>2. making' \in [Loops -> Places]
    BY DEF Breaks, ThreadsInv, ThreadsTypeOK
  <1> QED BY <1>1, <1>2, HaltInv DEF Breaks

\* A step that moves a thread, and nothing else.
LEMMA StandsInv ==
  ASSUME ThreadsInv, UNCHANGED router, sender' \in Senders,
         making' \in [Loops -> Places]
  PROVE  ThreadsInv'
  <1>1. TypeOK'
    BY DEF router, ThreadsInv, ThreadsTypeOK, TypeOK, WellFormed
  <1> QED BY <1>1, StillInv DEF router

\* produce_dd, whichever thread runs it and whatever the other has done since
\* its last step.
LEMMA ProduceInv ==
  ASSUME ThreadsInv, NEW t \in Loops, NEW n \in Nbr, ProduceDD(t, n)
  PROVE  ThreadsInv'
  <1>1. WellFormed(nbr[n]) /\ Kept(nbr[n]) /\ Slave(nbr[n])
    BY DEF ThreadsInv, ThreadsTypeOK, TypeOK
  <1>2. CASE TestInit(t, n)
    BY <1>2, GoesInv, LeavesInv, StandsInv DEF TestInit, MakingPcs
  <1>3. CASE TestSize(t, n)
    <2>1. PICK pc \in MakingPcs : Goes(t, n, pc)
      BY <1>3 DEF TestSize, MakingPcs
    <2> QED BY <1>3, <2>1, GoesInv, StandsInv DEF TestSize
  <1>4. CASE ReadIterator(t, n)
    BY <1>4, GoesInv, StandsInv, BreaksInv DEF ReadIterator, MakingPcs
  <1>5. CASE MoveIterator(t, n)
    <2>1. PICK i \in {NoIter} \cup 0 .. Len(nbr[n].db_summary_list) :
            Becomes(n, [nbr[n] EXCEPT !.db_summary_send_iter = i])
      <3>1. Advanced(nbr[n]) \in 0 .. Len(nbr[n].db_summary_list)
        BY <1>1, AdvancedType
      <3> QED BY <1>5, <3>1 DEF MoveIterator
    <2> DEFINE r == [nbr[n] EXCEPT !.db_summary_send_iter = i]
    <2>2. WellFormed(r) /\ Owes(nbr[n], r)
      BY <1>1 DEF WellFormed, Neighbors, NoIter, Owes
    <2>3. Becomes(n, r) /\ Goes(t, n, "copy")
      BY <1>5, <2>1 DEF MoveIterator
    <2> HIDE DEF r
    <2>4. sender' \in Senders /\ making' \in [Loops -> Places]
      BY <2>3, GoesInv DEF MakingPcs
    <2> QED BY <1>1, <2>2, <2>3, <2>4, OwesKept, BecomesInv
  <1>6. CASE CopyFirst(t, n)
    BY <1>6, LeavesInv, StandsInv DEF CopyFirst
  <1>7. CASE IteratorToEnd(t, n)
    <2> DEFINE r == [nbr[n] EXCEPT !.db_summary_send_iter = 0]
    <2>1. WellFormed(r) /\ Owes(nbr[n], r)
      BY <1>1 DEF WellFormed, Neighbors, Owes
    <2>2. Becomes(n, r) /\ Goes(t, n, "copy_rest")
      BY <1>7 DEF IteratorToEnd
    <2> HIDE DEF r
    <2>3. sender' \in Senders /\ making' \in [Loops -> Places]
      BY <2>2, GoesInv DEF MakingPcs
    <2> QED BY <1>1, <2>1, <2>2, <2>3, OwesKept, BecomesInv
  <1>8. CASE CopyRest(t, n)
    BY <1>8, GoesInv, StandsInv DEF CopyRest, MakingPcs
  <1>9. CASE WalkFails(t, n)
    BY <1>9, BreaksInv DEF WalkFails
  <1>10. CASE TestEnd(t, n)
    BY <1>10, GoesInv, LeavesInv, StandsInv DEF TestEnd, MakingPcs
  <1>11. CASE EndExchange(t, n)
    <2>1. CASE nbr[n].state = "EXCHANGE"
      <3> DEFINE r == ExchangeDone(nbr[n])
      <3>1. WellFormed(r) /\ Owes(nbr[n], r)
        BY <1>1, ExchangeDoneType DEF ExchangeDone, WellFormed, Neighbors, Owes
      <3>2. Update(n, r) /\ Goes(t, n, "clear")
        BY <1>11, <2>1 DEF EndExchange
      <3> HIDE DEF r
      <3>3. sender' \in Senders /\ making' \in [Loops -> Places]
        BY <3>2, GoesInv DEF MakingPcs
      <3> QED BY <1>1, <3>1, <3>2, <3>3, OwesKept, UpdateInv
    <2>2. CASE nbr[n].state # "EXCHANGE"
      <3>1. "exchange_done" \in Failures
        BY DEF Failures
      <3>2. Halt("exchange_done") /\ making' \in [Loops -> Places]
        BY <1>11, <2>2 DEF EndExchange, ThreadsInv, ThreadsTypeOK
      <3> QED BY <3>1, <3>2, HaltInv
    <2> QED BY <2>1, <2>2
  <1>12. CASE ClearSummary(t, n)
    <2> DEFINE iter == IF nbr[n].db_summary_send_iter = 0 THEN 0 ELSE NoIter
               r == [nbr[n] EXCEPT !.db_summary_list = <<>>,
                                   !.db_summary_send_iter = iter]
    <2>1. <<>> \in Seq(Stored) /\ Len(<<>>) = 0
      OBVIOUS
    <2>2. iter \in Int /\ iter \in {NoIter} \cup 0 .. 0
      BY DEF NoIter
    <2>3. Becomes(n, r) /\ Leaves(t, n)
      BY <1>1, <1>12 DEF ClearSummary, Becomes, WellFormed, Neighbors
    <2> HIDE DEF iter
    <2>4. r \in Neighbors /\ Owes(nbr[n], r)
      BY <1>1, <2>1, <2>2 DEF WellFormed, Neighbors, Owes
    <2>5. r.db_summary_list = <<>> /\ r.db_summary_send_iter = iter
      BY <1>1 DEF WellFormed, Neighbors
    <2> HIDE DEF r
    <2>6. WellFormed(r)
      BY <2>1, <2>2, <2>4, <2>5 DEF WellFormed
    <2>7. sender' \in Senders /\ making' \in [Loops -> Places]
      BY <2>3, LeavesInv
    <2> QED BY <1>1, <2>3, <2>4, <2>6, <2>7, OwesKept, BecomesInv
  <1> QED BY <1>2, <1>3, <1>4, <1>5, <1>6, <1>7, <1>8, <1>9, <1>10, <1>11,
             <1>12 DEF ProduceDD

\* recv_loop, up to its call of produce_dd.
LEMMA AnswersInv ==
  ASSUME ThreadsInv, NEW n \in Nbr, NEW r, WellFormed(r), Kept(r), Slave(r),
         Answers(n, r)
  PROVE  ThreadsInv'
  <1>1. sender' \in Senders /\ making' \in [Loops -> Places]
    BY GoesInv DEF Answers, Loops, MakingPcs
  <1> QED BY <1>1, BecomesInv DEF Answers

LEMMA TakeInv ==
  ASSUME ThreadsInv, NEW n \in Nbr, NEW r, WellFormed(r), Kept(r), Slave(r),
         NEW p \in Packets, Take(n, r, p)
  PROVE  ThreadsInv'
  <1>1. CASE r.db_summary_send_iter = NoIter
    BY <1>1, BreaksInv DEF Take
  <1>2. CASE r.db_summary_send_iter # NoIter
    <2> DEFINE s == Heard(Erased(r), p)
    <2>1. WellFormed(s)
      BY <1>2, ErasedType, HeardType
    <2>2. Kept(s) /\ Slave(s)
      BY <1>2, ErasedType, ErasedKept, HeardKept
    <2>3. \/ Update(n, ExchangeDone(s)) /\ UNCHANGED sender /\ Moves("recv", Away)
          \/ Answers(n, s)
      BY <1>2 DEF Take
    <2> HIDE DEF s
    <2>4. CASE Answers(n, s)
      BY <2>1, <2>2, <2>4, AnswersInv
    <2>5. CASE /\ Update(n, ExchangeDone(s)) /\ UNCHANGED sender
               /\ Moves("recv", Away)
      <3>1. WellFormed(ExchangeDone(s)) /\ Owes(s, ExchangeDone(s))
        BY <2>1, ExchangeDoneType DEF ExchangeDone, WellFormed, Neighbors, Owes
      <3>2. sender' \in Senders /\ making' \in [Loops -> Places]
        BY <2>5, MovesType, PlacesType DEF ThreadsInv, ThreadsTypeOK, TypeOK
      <3> QED BY <2>2, <2>5, <3>1, <3>2, OwesKept, UpdateInv
    <2> QED BY <2>3, <2>4, <2>5
  <1> QED BY <1>1, <1>2

LEMMA RecvInv ==
  ASSUME ThreadsInv, NEW n \in Nbr, NEW p \in Packets,
         ObeyMaster(n, p) \/ LeadSlave(n, p) \/ TakeNext(n, p)
  PROVE  ThreadsInv'
  <1>1. WellFormed(nbr[n]) /\ Kept(nbr[n]) /\ Slave(nbr[n]) /\ sender \in Senders
    BY DEF ThreadsInv, ThreadsTypeOK, TypeOK
  <1>2. WellFormed(Noted(n, p)) /\ WellFormed(Opened(n, p))
    BY <1>1, NotedType
  <1>3. Kept(Noted(n, p)) /\ Slave(Noted(n, p))
    BY <1>1, NotedOwes, OwesKept
  <1>4. p.seq \in SeqNums
    BY ConstantsAssumption
  <1>5. CASE ObeyMaster(n, p)
    <2>1. PICK hdrs \in HeaderLists :
            Answers(n, NegotiationDone([Opened(n, p) EXCEPT
                                           !.is_master = TRUE,
                                           !.dd_seq_num = p.seq,
                                           !.dd_init = FALSE], hdrs))
      BY <1>5 DEF ObeyMaster
    <2> DEFINE r == NegotiationDone([Opened(n, p) EXCEPT
                                         !.is_master = TRUE,
                                         !.dd_seq_num = p.seq,
                                         !.dd_init = FALSE], hdrs)
    <2>2. WellFormed(r) /\ Kept(r) /\ Slave(r)
      BY <1>2, <1>4, NegotiatedType, NegotiatedKept
    <2>3. Answers(n, r)
      BY <2>1
    <2> HIDE DEF r
    <2> QED BY <2>2, <2>3, AnswersInv
  <1>6. CASE LeadSlave(n, p)
    <2>1. PICK hdrs \in HeaderLists :
            LET r == NegotiationDone([Opened(n, p) EXCEPT
                                         !.is_master = FALSE,
                                         !.dd_init = FALSE], hdrs)
            IN  \/ Becomes(n, r) /\ UNCHANGED sender /\ Moves("recv", Away)
                \/ Take(n, Advance(r), p)
      BY <1>6 DEF LeadSlave
    <2> DEFINE r == NegotiationDone([Opened(n, p) EXCEPT
                                         !.is_master = FALSE,
                                         !.dd_init = FALSE], hdrs)
    <2>2. WellFormed(r) /\ Kept(r) /\ Slave(r)
      BY <1>2, <1>4, NegotiatedType, NegotiatedKept
    <2>3. \/ Becomes(n, r) /\ UNCHANGED sender /\ Moves("recv", Away)
          \/ Take(n, Advance(r), p)
      BY <2>1
    <2> HIDE DEF r
    <2>4. CASE Take(n, Advance(r), p)
      BY <2>2, <2>4, AdvanceType, AdvanceKept, TakeInv
    <2>5. CASE Becomes(n, r) /\ UNCHANGED sender /\ Moves("recv", Away)
      <3>1. sender' \in Senders /\ making' \in [Loops -> Places]
        BY <1>1, <2>5, MovesType, PlacesType DEF ThreadsInv, ThreadsTypeOK
      <3> QED BY <2>2, <2>5, <3>1, BecomesInv
    <2> QED BY <2>3, <2>4, <2>5
  <1>7. CASE TakeNext(n, p)
    <2>1. Take(n, Advance(Noted(n, p)), p)
      BY <1>7 DEF TakeNext
    <2> QED BY <1>2, <1>3, <2>1, AdvanceType, AdvanceKept, TakeInv
  <1> QED BY <1>5, <1>6, <1>7

\* A Hello lists nothing, and may take a neighbour's list away.
LEMMA HelloInv ==
  ASSUME ThreadsInv, TypeOK', making' \in [Loops -> Places], NEW n \in Nbr,
         NEW seen \in BOOLEAN, NEW adj \in BOOLEAN,
         NEW elections \in 0 .. 2, NEW changed \in BOOLEAN,
         ReceiveHello(n, seen, adj, elections, changed)
  PROVE  ThreadsInv'
  <1> DEFINE base == [nbr[n] EXCEPT !.adj = adj]
             known == HelloReceived(base)
             next == IF seen THEN TwoWayReceived(known)
                             ELSE OneWayReceived(known)
             Then(m) == LET r == IF m = n THEN next ELSE nbr[m]
                        IN  IF changed THEN AdjOk(r) ELSE r
  <1>1. \A m \in Nbr : WellFormed(nbr[m]) /\ Kept(nbr[m]) /\ Slave(nbr[m])
    BY DEF ThreadsInv, ThreadsTypeOK, TypeOK
  <1>2. WellFormed(base) /\ Owes(nbr[n], base)
    BY <1>1 DEF WellFormed, Neighbors, Owes
  <1> HIDE DEF base
  <1>3. WellFormed(known) /\ Owes(base, known)
    BY <1>2, HelloType, HelloOwes
  <1> HIDE DEF known
  <1>4. WellFormed(next) /\ Owes(known, next)
    BY <1>3, HelloType, HelloOwes
  <1> HIDE DEF next
  <1>5. Kept(next) /\ Slave(next)
    BY <1>1, <1>2, <1>3, <1>4, OwesOn, OwesKept
  <1>6. \A m \in Nbr : Kept(Then(m)) /\ Slave(Then(m))
    BY <1>1, <1>4, <1>5, HelloOwes, OwesKept
  <1>7. nbr' = [m \in Nbr |-> Then(m)]
    BY DEF ReceiveHello, next, known, base
  <1> HIDE DEF Then
  <1>8. \A k \in Stored : lsdb'[k] >= lsdb[k]
    BY OriginateType DEF ReceiveHello, ThreadsInv, ThreadsTypeOK, TypeOK
  <1>9. InDb \subseteq InDb'
    BY <1>8, GrowthGood DEF ThreadsInv, ThreadsTypeOK, TypeOK
  <1>10. \A m \in Nbr : (Kept(nbr[m]) /\ Slave(nbr[m]))'
    BY <1>6, <1>7, <1>9 DEF Kept, Slave, Requested
  <1> QED BY <1>10 DEF ThreadsInv, ThreadsTypeOK

\* A request goes only when its LSA comes.
LEMMA LSUInv ==
  ASSUME ThreadsInv, TypeOK', making' \in [Loops -> Places], NEW n \in Nbr,
         NEW lsas \in Updates, NEW newer, newer \subseteq lsas,
         ReceiveLSU(n, lsas, newer)
  PROVE  ThreadsInv'
  <1> DEFINE old == nbr[n].link_state_request_list
             reqs == [k \in Keys |-> IF k \in lsas /\ old[k] > 0
                                     THEN old[k] - 1 ELSE old[k]]
             r == [nbr[n] EXCEPT !.link_state_request_list = reqs]
  <1>1. nbr[n] \in Neighbors /\ Kept(nbr[n]) /\ Slave(nbr[n])
    BY DEF ThreadsInv, ThreadsTypeOK, TypeOK
  <1>2. nbr' = [nbr EXCEPT ![n] = r]
    BY <1>1 DEF ReceiveLSU, ThreadsInv, ThreadsTypeOK, TypeOK, Neighbors
  <1>3. lsas \subseteq Stored
    BY ConstantsAssumption DEF ReceiveLSU, Keys
  <1>4. \A k \in Stored : /\ lsdb[k] \in Nat
                          /\ lsdb'[k] = IF k \in lsas \ newer
                                        THEN lsdb[k] + 1 ELSE lsdb[k]
    BY DEF ReceiveLSU, ThreadsInv, ThreadsTypeOK, TypeOK
  <1>5. InDb \subseteq InDb' /\ lsas \subseteq InDb'
    BY <1>3, <1>4 DEF ReceiveLSU, InDb
  <1>6. \A k \in Keys : k \notin lsas => reqs[k] = old[k]
    OBVIOUS
  <1>7. /\ r.link_state_request_list = reqs /\ r.listed = nbr[n].listed
        /\ r.is_master = nbr[n].is_master /\ r.dd_init = nbr[n].dd_init
    BY <1>1 DEF Neighbors
  <1> HIDE DEF reqs, r
  <1>8. r.listed \subseteq InDb' \cup Requested(r)
    <2>1. Requested(nbr[n]) \subseteq lsas \cup Requested(r)
      BY <1>6, <1>7 DEF Requested
    <2> QED BY <1>1, <1>5, <1>7, <2>1 DEF Kept
  <1>9. ASSUME NEW m \in Nbr
        PROVE  /\ nbr'[m].listed \subseteq InDb' \cup Requested(nbr'[m])
               /\ Slave(nbr'[m])
    <2>1. CASE m = n
      BY <1>1, <1>2, <1>7, <1>8, <2>1
         DEF Slave, ThreadsInv, ThreadsTypeOK, TypeOK
    <2>2. CASE m # n
      BY <1>2, <1>5, <2>2 DEF Kept, ThreadsInv, ThreadsTypeOK, TypeOK
    <2> QED BY <2>1, <2>2
  <1>10. \A m \in Nbr : (Kept(nbr[m]) /\ Slave(nbr[m]))'
    BY <1>9 DEF Kept, Slave, Requested
  <1> QED BY <1>10 DEF ThreadsInv, ThreadsTypeOK

\* The handlers that produce no DD, with send_loop anywhere.
LEMMA HandleInv ==
  ASSUME ThreadsInv, NEW n \in Nbr, Handle(n) PROVE ThreadsInv'
  <1>1. Receive
    BY DEF Handle, Receive, ReceiveDD
  <1>2. TypeOK'
    BY <1>1, ReceiveType DEF ThreadsInv, ThreadsTypeOK
  <1>3. making' \in [Loops -> Places]
    BY MovesType, PlacesType DEF Handle, ThreadsInv, ThreadsTypeOK
  <1>4. WellFormed(nbr[n]) /\ Kept(nbr[n]) /\ Slave(nbr[n])
    BY DEF ThreadsInv, ThreadsTypeOK, TypeOK
  <1>5. CASE \E seen, adj, changed \in BOOLEAN, elections \in 0 .. 2 :
                ReceiveHello(n, seen, adj, elections, changed)
    BY <1>2, <1>3, <1>5, HelloInv
  <1>6. CASE \E lsas \in Updates : \E newer \in SUBSET lsas :
                ReceiveLSU(n, lsas, newer)
    BY <1>2, <1>3, <1>6, LSUInv
  <1>7. CASE \/ FromUnknown(n) \/ HelloFatal(n)
             \/ \E p \in Packets : DDDuplicate(n, p)
             \/ \E asked \in Asks : LSRAnswered(n, asked) \/ BadLSReq(n, asked)
             \/ \E lsas \in Updates : LSUOtherType(n, lsas)
    <2>1. UNCHANGED <<nbr, lsdb>>
      BY <1>7 DEF FromUnknown, HelloFatal, DDDuplicate, LSRAnswered, BadLSReq,
                  LSUOtherType, Halt, vars
    <2> QED BY <1>2, <1>3, <2>1, StillInv
  <1>8. CASE \E p \in Packets : \/ DDTooEarly(n, p) \/ DDUnanswered(n, p)
                                \/ DDMismatch(n, p) \/ DDAfterExchange(n, p)
    <2>1. PICK p \in Packets : \/ DDTooEarly(n, p) \/ DDUnanswered(n, p)
                               \/ DDMismatch(n, p) \/ DDAfterExchange(n, p)
      BY <1>8
    <2>2. /\ Kept(Noted(n, p)) /\ Slave(Noted(n, p))
          /\ Kept(Entered(n, p)) /\ Slave(Entered(n, p))
          /\ Kept(Opened(n, p)) /\ Slave(Opened(n, p))
          /\ Kept(SeqNumberMismatch(Noted(n, p)))
          /\ Slave(SeqNumberMismatch(Noted(n, p)))
      BY <1>4, NotedOwes, OwesKept
    <2>3. /\ WellFormed(Noted(n, p)) /\ WellFormed(Entered(n, p))
          /\ WellFormed(Opened(n, p))
          /\ WellFormed(SeqNumberMismatch(Noted(n, p)))
      BY <1>4, NotedType, MismatchType
    <2>4. sender' \in Senders
      BY <1>2 DEF TypeOK
    <2>5. \E r \in {Noted(n, p), Entered(n, p), Opened(n, p),
                    SeqNumberMismatch(Noted(n, p))} : Update(n, r)
      BY <2>1 DEF DDTooEarly, DDUnanswered, DDMismatch, DDAfterExchange
    <2> QED BY <1>3, <2>2, <2>3, <2>4, <2>5, UpdateInv
  <1> QED BY <1>5, <1>6, <1>7, <1>8 DEF Handle

LEMMA SendStepInv ==
  ASSUME ThreadsInv, NEW n \in Nbr, SendStep(n) PROVE ThreadsInv'
  <1>1. Send
    BY DEF SendStep, Send
  <1>2. TypeOK'
    BY <1>1, SendType DEF ThreadsInv, ThreadsTypeOK
  <1>3. making' \in [Loops -> Places]
    BY PlacesType DEF SendStep, ThreadsInv, ThreadsTypeOK, MakingPcs
  <1>4. CASE LoadingDone(n)
    <2> DEFINE r == [nbr[n] EXCEPT !.state = "FULL"]
    <2>1. Kept(nbr[n]) /\ Slave(nbr[n]) /\ Owes(nbr[n], r)
      BY DEF Owes, ThreadsInv, ThreadsTypeOK, TypeOK, Neighbors
    <2>2. nbr' = [nbr EXCEPT ![n] = r]
      BY <1>4 DEF LoadingDone
    <2> HIDE DEF r
    <2>3. \A k \in Stored : lsdb'[k] >= lsdb[k]
      BY <1>4, OriginateType DEF LoadingDone, ThreadsInv, ThreadsTypeOK, TypeOK
    <2>4. Kept(r) /\ Slave(r)
      BY <2>1, OwesKept
    <2> QED BY <1>2, <1>3, <2>2, <2>3, <2>4, StepInv
  <1>5. CASE ~LoadingDone(n)
    <2>1. UNCHANGED <<nbr, lsdb>>
      BY <1>5 DEF SendStep, Visit, Retransmit, SendLSR, TestLoading,
                  AssertLoading, Halt
    <2> QED BY <1>2, <1>3, <2>1, StillInv
  <1> QED BY <1>4, <1>5

LEMMA ThreadsInvHolds == ThreadsSpec => []ThreadsInv
  <1>1. ThreadsInit => ThreadsInv
    <2> SUFFICES ASSUME ThreadsInit PROVE ThreadsInv
      OBVIOUS
    <2>1. \A n \in Nbr : ~nbr[n].is_master /\ nbr[n].listed = {}
      BY DEF ThreadsInit, Init, NewNeighbor
    <2>2. TypeOK /\ making \in [Loops -> Places]
      BY InitType, PlacesType DEF ThreadsInit
    <2> QED BY <2>1, <2>2 DEF ThreadsInv, ThreadsTypeOK, Kept, Slave
  <1>2. ThreadsInv /\ [ThreadsNext]_threadsVars => ThreadsInv'
    <2> SUFFICES ASSUME ThreadsInv, [ThreadsNext]_threadsVars PROVE ThreadsInv'
      OBVIOUS
    <2>1. CASE UNCHANGED threadsVars
      BY <2>1, StandsInv
         DEF threadsVars, vars, router, ThreadsInv, ThreadsTypeOK, TypeOK
    <2>2. CASE ThreadsNext
      BY <2>2, HandleInv, RecvInv, SendStepInv, ProduceInv
         DEF ThreadsNext, RecvStep
    <2> QED BY <2>1, <2>2
  <1> QED BY <1>1, <1>2, PTL DEF ThreadsSpec

\* Whatever both threads do inside produce_dd, every reachable state is well
\* typed: the shared iterator is unusable or within the list.
THEOREM ThreadsTypeCorrect == ThreadsSpec => []ThreadsTypeOK
  <1>1. ThreadsInv => ThreadsTypeOK
    BY DEF ThreadsInv
  <1> QED BY <1>1, ThreadsInvHolds, PTL

\* However the two threads interleave, inside produce_dd too, an LSA that a
\* neighbour listed is in the database or still requested.
THEOREM NothingForgotten == ThreadsSpec => []Covered
  <1>1. ThreadsInv => Covered
    BY DEF ThreadsInv, Covered, Kept
  <1> QED BY <1>1, ThreadsInvHolds, PTL

=============================================================================
